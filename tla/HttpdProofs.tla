----------------------------- MODULE HttpdProofs -----------------------------
(***************************************************************************)
(* Proofs about the two parts of Apache httpd that are modelled.           *)
(*                                                                         *)
(* MemCache, for any number of threads, keys and objects and all limits:   *)
(* the table, the queue and the sizes of the cache agree, the reference    *)
(* counts are exact and nothing is leaked, and where the counts are        *)
(* changed under the lock nothing is freed that is still referred to.      *)
(*                                                                         *)
(* WorkerMPM, for any number of workers and connections: the count of idle *)
(* workers is exact, and a graceful end of the process leaves no accepted  *)
(* connection behind.                                                      *)
(***************************************************************************)
EXTENDS MemCache, WorkerMPM, FiniteSetTheorems, SequenceTheorems, TLAPS

PCs == {"idle", "respond", "urldrop", "create", "write", "written", "end", "drop", "check"}

ObjectTypes ==
    /\ heap \in [Objects -> {"free", "live", "twice"}]
    /\ key \in [Objects -> Keys] /\ refcount \in [Objects -> Int]
    /\ cleanup \in [Objects -> BOOLEAN] /\ complete \in [Objects -> BOOLEAN]
    /\ m_len \in [Objects -> 0..MaxSize]
CacheTypes ==
    /\ queue \in SUBSET Objects /\ IsFiniteSet(queue)
    /\ table \in [Keys -> Objects \union {NoObj}] /\ current_size \in Int
ThreadTypes ==
    /\ atomics \in BOOLEAN
    /\ pc \in [Threads -> PCs] /\ url \in [Threads -> Keys]
    /\ handle \in [Threads -> Objects \union {NoObj}]
    /\ held \in [Threads -> Seq(Objects)]
Types == ObjectTypes /\ CacheTypes /\ ThreadTypes

\* A request registers a cleanup when it opens an object and one when it creates
\* another, and its handle is an object that it has registered a cleanup for.
RequestOk(t) ==
    /\ Len(held[t]) <= 2
    /\ pc[t] = "idle" => Len(held[t]) = 0
    /\ pc[t] \in {"respond", "create"} => Len(held[t]) <= 1
    /\ pc[t] \in {"write", "written", "drop", "check"} => Len(held[t]) > 0
    /\ pc[t] \in {"write", "written"} => handle[t] = held[t][Len(held[t])]
    /\ pc[t] = "urldrop" => handle[t] \in Objects
    /\ pc[t] # "urldrop" /\ handle[t] # NoObj => \E i \in 1..Len(held[t]) : held[t][i] = handle[t]
    /\ ~atomics => pc[t] \notin {"check", "urldrop"}
Requests == \A t \in Threads : RequestOk(t)

\* Somebody has lowered the count of an object to zero and has not looked at its
\* flag yet.
Checked(o) == \E t \in Threads : pc[t] = "check" /\ held[t][Len(held[t])] = o
Claimed(o) == References(o) # {} \/ Checked(o)

\* An object that is not in the queue is marked, unless it has never been used;
\* its count is exact; it lives only while the cache or a request will see to it;
\* and it does so where the counts are changed under the lock.
ObjectOk(o) ==
    /\ o \in queue => ~cleanup[o]
    /\ o \notin queue => cleanup[o] \/ (heap[o] = "free" /\ ~Claimed(o))
    /\ IsFiniteSet(References(o))
    /\ heap[o] = "live" => refcount[o] = Cardinality(References(o)) /\ (o \in queue \/ Claimed(o))
    /\ ~atomics => /\ heap[o] # "twice"
                   /\ o \in queue \/ References(o) # {} => heap[o] = "live"
AllOk == \A o \in Objects : ObjectOk(o)

CacheInv == Types /\ Requests /\ TableMatchesQueue /\ SizeExact /\ AllOk
-----------------------------------------------------------------------------
(***************************************************************************)
(* Sizes.                                                                  *)
(***************************************************************************)
LEMMA SizeType ==
    ASSUME NEW S, IsFiniteSet(S), NEW len
    PROVE  IsFiniteSet(Units(S, len)) /\ SizeOf(S, len) \in Nat
<1>1. IsFiniteSet(1..MaxSize)
  BY LimitsPositive, FS_Interval
<1>2. IsFiniteSet(S \X (1..MaxSize))
  BY <1>1, FS_Product
<1>3. Units(S, len) \in SUBSET (S \X (1..MaxSize))
  BY DEF Units
<1>4. IsFiniteSet(Units(S, len))
  BY <1>2, <1>3, FS_Subset
<1> QED
  BY <1>4, FS_CardinalityType DEF SizeOf

LEMMA SizeDiff ==
    ASSUME NEW S, IsFiniteSet(S), NEW T \in SUBSET S, NEW len
    PROVE  SizeOf(S \ T, len) = SizeOf(S, len) - SizeOf(T, len)
<1>1. IsFiniteSet(Units(S, len))
  BY SizeType
<1>2. Units(S \ T, len) = Units(S, len) \ Units(T, len)
  BY DEF Units
<1>3. Units(S, len) \cap Units(T, len) = Units(T, len)
  BY DEF Units
<1>4. Cardinality(Units(S, len) \ Units(T, len))
        = Cardinality(Units(S, len)) - Cardinality(Units(S, len) \cap Units(T, len))
  BY <1>1, FS_Difference
<1> QED
  BY <1>2, <1>3, <1>4 DEF SizeOf

LEMMA SizeOne ==
    ASSUME NEW o, NEW len, len[o] \in 0..MaxSize
    PROVE  SizeOf({o}, len) = len[o]
<1> DEFINE n == len[o]
<1>1. n \in Nat /\ n <= MaxSize /\ MaxSize \in Nat
  BY LimitsPositive
<1>2. Units({o}, len) = {o} \X (1..n)
  BY <1>1 DEF Units
<1>3. IsFiniteSet(1..n) /\ Cardinality(1..n) = n
  <2> HIDE DEF n
  <2>0. 1 \in Int /\ n \in Int
    BY <1>1
  <2>1. IsFiniteSet(1..n) /\ Cardinality(1..n) = IF 1 > n THEN 0 ELSE n - 1 + 1
    BY <2>0, FS_Interval
  <2> QED
    BY <1>1, <2>1
<1>4. IsFiniteSet({o}) /\ Cardinality({o}) = 1
  BY FS_Singleton
<1>5. Cardinality({o} \X (1..n)) = Cardinality({o}) * Cardinality(1..n)
  BY <1>3, <1>4, FS_Product
<1>6. Cardinality({o} \X (1..n)) = n
  BY <1>1, <1>3, <1>4, <1>5
<1> QED
  BY <1>2, <1>6 DEF SizeOf

LEMMA SizeAdd ==
    ASSUME NEW S, IsFiniteSet(S), NEW o, o \notin S, NEW len, len[o] \in 0..MaxSize
    PROVE  SizeOf(S \union {o}, len) = SizeOf(S, len) + len[o]
<1>1. IsFiniteSet(S \union {o})
  BY FS_AddElement
<1>2. {o} \in SUBSET (S \union {o})
  OBVIOUS
<1>3. SizeOf((S \union {o}) \ {o}, len) = SizeOf(S \union {o}, len) - SizeOf({o}, len)
  BY <1>1, <1>2, SizeDiff
<1>4. (S \union {o}) \ {o} = S
  OBVIOUS
<1>5. SizeOf({o}, len) = len[o]
  BY SizeOne
<1>6. SizeOf(S \union {o}, len) \in Nat /\ SizeOf(S, len) \in Nat
  BY <1>1, SizeType
<1>7. SizeOf(S, len) = SizeOf(S \union {o}, len) - len[o]
  BY <1>3, <1>4, <1>5
<1> QED
  BY <1>6, <1>7

LEMMA SizeSame ==
    ASSUME NEW S, NEW len, NEW len2, \A o \in S : len2[o] = len[o]
    PROVE  SizeOf(S, len2) = SizeOf(S, len)
<1>1. Units(S, len2) = Units(S, len)
  BY DEF Units
<1> QED
  BY <1>1 DEF SizeOf

\* Some of the entries, D, make place for an object.
Exchanged(D, o, k) ==
    /\ o \notin queue \ D /\ queue' = (queue \ D) \union {o}
    /\ \A e \in queue \ D : key[e] # k /\ key'[e] = key[e] /\ m_len'[e] = m_len[e]
    /\ key'[o] = k /\ table'[k] = o
    /\ \A k2 \in Keys \ {k} : table'[k2] = IF \E d \in D : key[d] = k2 THEN NoObj ELSE table[k2]
    /\ Cardinality(queue \ D) < MaxCount /\ SizeOf(queue \ D, m_len) + m_len'[o] <= MaxSize
    /\ current_size' = SizeOf(queue \ D, m_len) + m_len'[o]

LEMMA Inserted ==
    ASSUME TableMatchesQueue, Types, Types',
           NEW D \in SUBSET queue, NEW o \in Objects, NEW k \in Keys, Exchanged(D, o, k)
    PROVE  TableMatchesQueue' /\ SizeExact'
<1> USE DEF Exchanged
<1> DEFINE Q == queue \ D
<1>1. IsFiniteSet(Q) /\ o \notin Q /\ Q \subseteq Objects
  BY FS_Difference DEF Types, ObjectTypes, CacheTypes, ThreadTypes
<1>2. TableMatchesQueue'
  <2>1. \A e \in Q : key[e] \in Keys /\ key[e] # k /\ table[key[e]] = e /\ ~\E d \in D : key[d] = key[e]
    BY DEF TableMatchesQueue, Types, ObjectTypes, CacheTypes, ThreadTypes
  <2>2. \A e \in Q : table'[key'[e]] = e
    BY <2>1
  <2>3. ASSUME NEW k2 \in Keys, table'[k2] # NoObj
        PROVE  table'[k2] \in queue' /\ key'[table'[k2]] = k2
    <3>1. CASE k2 = k
      BY <3>1
    <3>2. CASE k2 # k
      <4>1. table'[k2] = table[k2] /\ table[k2] # NoObj /\ ~\E d \in D : key[d] = k2
        BY <2>3, <3>2
      <4>2. table[k2] \in queue /\ key[table[k2]] = k2
        BY <4>1 DEF TableMatchesQueue
      <4>3. table[k2] \in Q
        BY <4>1, <4>2
      <4> QED
        BY <4>1, <4>2, <4>3
    <3> QED
      BY <3>1, <3>2
  <2>4. \A e \in queue' : table'[key'[e]] = e
    BY <2>2
  <2> QED
    BY <2>3, <2>4 DEF TableMatchesQueue
<1>3. SizeExact'
  <2>1. m_len'[o] \in 0..MaxSize
    BY DEF Types, ObjectTypes, CacheTypes, ThreadTypes
  <2>2. SizeOf(Q, m_len') = SizeOf(Q, m_len)
    BY SizeSame
  <2>3. SizeOf(Q \union {o}, m_len') = SizeOf(Q, m_len') + m_len'[o]
    BY <1>1, <2>1, SizeAdd
  <2>4. Cardinality(Q \union {o}) = Cardinality(Q) + 1 /\ Cardinality(Q) \in Nat
    BY <1>1, FS_AddElement, FS_CardinalityType
  <2>5. Cardinality(queue') <= MaxCount
    BY <2>4, LimitsPositive
  <2>6. current_size' = SizeOf(queue', m_len')
    BY <2>2, <2>3
  <2> QED
    BY <2>5, <2>6 DEF SizeExact
<1> QED
  BY <1>2, <1>3

LEMMA Removed ==
    ASSUME Types, TableMatchesQueue, SizeExact, NEW o \in queue, CacheRemove(o),
           UNCHANGED <<key, m_len>>
    PROVE  /\ TableMatchesQueue' /\ SizeExact'
           /\ queue' = queue \ {o} /\ queue' \in SUBSET Objects /\ IsFiniteSet(queue')
           /\ table' \in [Keys -> Objects \union {NoObj}] /\ current_size' \in Int
<1>1. o \in Objects /\ key[o] \in Keys /\ m_len[o] \in 0..MaxSize
  BY DEF Types, ObjectTypes, CacheTypes, ThreadTypes
<1>2. /\ queue' = queue \ {o} /\ table' = [table EXCEPT ![key[o]] = NoObj]
      /\ current_size' = current_size - m_len[o] /\ key' = key /\ m_len' = m_len
  BY DEF CacheRemove
<1>3. IsFiniteSet(queue) /\ IsFiniteSet(queue') /\ queue' \in SUBSET Objects
      /\ Cardinality(queue') <= Cardinality(queue)
  <2>1. IsFiniteSet(queue) /\ queue' \in SUBSET queue /\ queue \in SUBSET Objects
    BY <1>2 DEF Types, ObjectTypes, CacheTypes, ThreadTypes
  <2> QED
    BY <2>1, FS_Subset
<1>4. table' \in [Keys -> Objects \union {NoObj}]
      /\ \A k \in Keys : table'[k] = IF k = key[o] THEN NoObj ELSE table[k]
  BY <1>1, <1>2 DEF Types, ObjectTypes, CacheTypes, ThreadTypes
<1>5. TableMatchesQueue'
  <2>1. \A e \in queue' : key[e] \in Keys /\ key[e] # key[o] /\ table[key[e]] = e
    BY <1>2 DEF TableMatchesQueue, Types, ObjectTypes, CacheTypes, ThreadTypes
  <2>2. \A e \in queue' : table'[key'[e]] = e
    BY <1>2, <1>4, <2>1
  <2>3. \A k \in Keys : table'[k] # NoObj => table'[k] \in queue' /\ key'[table'[k]] = k
    BY <1>2, <1>4 DEF TableMatchesQueue
  <2> QED
    BY <2>2, <2>3 DEF TableMatchesQueue
<1>6. SizeExact'
  <2>1. SizeOf(queue \ {o}, m_len) = SizeOf(queue, m_len) - SizeOf({o}, m_len)
    BY <1>3, SizeDiff
  <2>2. SizeOf({o}, m_len) = m_len[o]
    BY <1>1, SizeOne
  <2>3. current_size' = SizeOf(queue', m_len')
    BY <1>2, <2>1, <2>2 DEF SizeExact
  <2>4. current_size' <= MaxSize
    BY <1>1, <1>2, LimitsPositive DEF SizeExact, Types, ObjectTypes, CacheTypes, ThreadTypes
  <2>5. Cardinality(queue') <= MaxCount
    <3>1. Cardinality(queue') \in Nat /\ Cardinality(queue) \in Nat
      BY <1>3, FS_CardinalityType
    <3> QED
      BY <1>3, <3>1, LimitsPositive DEF SizeExact
  <2> QED
    BY <2>3, <2>4, <2>5 DEF SizeExact
<1> QED
  BY <1>1, <1>2, <1>3, <1>4, <1>5, <1>6 DEF Types, ObjectTypes, CacheTypes, ThreadTypes
-----------------------------------------------------------------------------
(***************************************************************************)
(* References.                                                             *)
(***************************************************************************)
LEMMA FrontFacts ==
    ASSUME NEW s \in Seq(Objects), Len(s) > 0
    PROVE  /\ Front(s) \in Seq(Objects) /\ Len(Front(s)) = Len(s) - 1
           /\ \A i \in 1..Len(s) - 1 : Front(s)[i] = s[i]
<1> DEFINE n == Len(s) - 1
<1>1. n \in Nat /\ 1 \in Int /\ n \in Int /\ \A i \in 1..n : s[i] \in Objects
  OBVIOUS
<1>2. /\ SubSeq(s, 1, n) \in Seq(Objects)
      /\ Len(SubSeq(s, 1, n)) = IF 1 <= n THEN n - 1 + 1 ELSE 0
      /\ \A i \in 1..n - 1 + 1 : SubSeq(s, 1, n)[i] = s[1 + i - 1]
  BY <1>1, SubSeqProperties
<1>3. Front(s) = SubSeq(s, 1, n)
  BY DEF Front
<1> HIDE DEF n
<1>4. Len(Front(s)) = n /\ \A i \in 1..n : Front(s)[i] = s[i]
  BY <1>1, <1>2, <1>3
<1> QED
  BY <1>2, <1>3, <1>4 DEF n

\* What a step of one request leaves alone of the others.
Others(t) ==
    /\ \A t2 \in Threads \ {t} : pc'[t2] = pc[t2] /\ handle'[t2] = handle[t2] /\ held'[t2] = held[t2]
    /\ UNCHANGED atomics

LEMMA RefersOthers ==
    ASSUME NEW t \in Threads, Others(t), NEW t2 \in Threads \ {t}, NEW i, NEW o
    PROVE  Refers(t2, i, o)' <=> Refers(t2, i, o)
BY DEF Others, Refers

LEMMA RefsKept ==
    ASSUME NEW t \in Threads, Others(t), NEW o,
           \A i \in 0..2 : Refers(t, i, o)' <=> Refers(t, i, o)
    PROVE  References(o)' = References(o)
<1>1. \A t2 \in Threads : \A i \in 0..2 : Refers(t2, i, o)' <=> Refers(t2, i, o)
  BY RefersOthers
<1> QED
  BY <1>1, Zenon DEF References

LEMMA RefsAdd ==
    ASSUME NEW t \in Threads, Others(t), NEW o, IsFiniteSet(References(o)), NEW n \in 0..2,
           ~Refers(t, n, o), Refers(t, n, o)',
           \A i \in (0..2) \ {n} : Refers(t, i, o)' <=> Refers(t, i, o)
    PROVE  /\ References(o)' = References(o) \union {<<t, n>>}
           /\ IsFiniteSet(References(o)') /\ Cardinality(References(o)') = Cardinality(References(o)) + 1
<1>1. \A t2 \in Threads : \A i \in 0..2 :
         Refers(t2, i, o)' <=> Refers(t2, i, o) \/ (t2 = t /\ i = n)
  BY RefersOthers
<1>2. References(o)' = References(o) \union {<<t, n>>}
  <2>1. ASSUME NEW r \in Threads \X (0..2)
        PROVE  r \in References(o)' <=> r \in References(o) \union {<<t, n>>}
    <3>1. r[1] \in Threads /\ r[2] \in 0..2 /\ r = <<r[1], r[2]>>
      OBVIOUS
    <3>2. r = <<t, n>> <=> r[1] = t /\ r[2] = n
      BY <3>1
    <3>3. r \in References(o)' <=> Refers(r[1], r[2], o)'
      BY DEF References
    <3>4. r \in References(o) <=> Refers(r[1], r[2], o)
      BY DEF References
    <3> QED
      BY <1>1, <3>1, <3>2, <3>3, <3>4
  <2>2. References(o) \subseteq Threads \X (0..2) /\ References(o)' \subseteq Threads \X (0..2)
        /\ <<t, n>> \in Threads \X (0..2)
    BY DEF References
  <2> QED
    BY <2>1, <2>2
<1>3. <<t, n>> \notin References(o)
  BY DEF References
<1> QED
  BY <1>2, <1>3, FS_AddElement

LEMMA RefsDrop ==
    ASSUME NEW t \in Threads, Others(t), NEW o, IsFiniteSet(References(o)), NEW n \in 0..2,
           Refers(t, n, o), ~Refers(t, n, o)',
           \A i \in (0..2) \ {n} : Refers(t, i, o)' <=> Refers(t, i, o)
    PROVE  /\ References(o) # {}
           /\ IsFiniteSet(References(o)') /\ Cardinality(References(o)') = Cardinality(References(o)) - 1
<1>1. \A t2 \in Threads : \A i \in 0..2 :
         Refers(t2, i, o)' <=> Refers(t2, i, o) /\ ~(t2 = t /\ i = n)
  BY RefersOthers
<1>2. References(o)' = References(o) \ {<<t, n>>}
  <2>1. ASSUME NEW r \in Threads \X (0..2)
        PROVE  r \in References(o)' <=> r \in References(o) \ {<<t, n>>}
    <3>1. r[1] \in Threads /\ r[2] \in 0..2 /\ r = <<r[1], r[2]>>
      OBVIOUS
    <3>2. r = <<t, n>> <=> r[1] = t /\ r[2] = n
      BY <3>1
    <3>3. r \in References(o)' <=> Refers(r[1], r[2], o)'
      BY DEF References
    <3>4. r \in References(o) <=> Refers(r[1], r[2], o)
      BY DEF References
    <3> QED
      BY <1>1, <3>1, <3>2, <3>3, <3>4
  <2>2. References(o) \subseteq Threads \X (0..2) /\ References(o)' \subseteq Threads \X (0..2)
    BY DEF References
  <2> QED
    BY <2>1, <2>2
<1>3. <<t, n>> \in References(o)
  BY DEF References
<1> QED
  BY <1>2, <1>3, FS_RemoveElement

LEMMA CheckedKept ==
    ASSUME NEW t \in Threads, Others(t), NEW o, pc[t] # "check", pc'[t] # "check"
    PROVE  Checked(o)' <=> Checked(o)
BY DEF Checked, Others

\* A request that goes on without a change of its references.
LEMMA QuietRefs ==
    ASSUME NEW t \in Threads, Others(t), held'[t] = held[t],
           pc[t] \notin {"check", "urldrop"}, pc'[t] \notin {"check", "urldrop"}
    PROVE  \A o \in Objects : References(o)' = References(o) /\ (Checked(o)' <=> Checked(o))
<1>1. \A o \in Objects : \A i \in 0..2 : Refers(t, i, o)' <=> Refers(t, i, o)
  BY DEF Refers
<1> QED
  BY <1>1, RefsKept, CheckedKept

LEMMA LastReferred ==
    ASSUME Types, Requests, NEW t \in Threads, pc[t] # "check", Len(held[t]) > 0
    PROVE  LET n == Len(held[t]) IN
           n \in 1..2 /\ held[t][n] \in Objects /\ Refers(t, n, held[t][n]) /\ References(held[t][n]) # {}
<1> DEFINE n == Len(held[t])
<1>1. held[t] \in Seq(Objects) /\ DOMAIN held[t] = 1..n /\ n <= 2 /\ n \in Nat
  BY DEF Types, ObjectTypes, CacheTypes, ThreadTypes, Requests, RequestOk
<1>2. n \in 1..2 /\ held[t][n] \in Objects
  <2>1. n > 0 /\ n \in Nat /\ n <= 2
    BY <1>1
  <2>2. n \in 1..2 /\ n \in 1..n
    <3> HIDE DEF n
    <3> QED
      BY <2>1
  <2>3. held[t][n] \in Objects
    BY <1>1, <2>2, ElementOfSeq
  <2> QED
    BY <2>2, <2>3
<1>3. Refers(t, n, held[t][n])
  BY <1>1, <1>2 DEF Refers
<1>4. <<t, n>> \in References(held[t][n])
  BY <1>2, <1>3 DEF References
<1> QED
  BY <1>2, <1>3, <1>4

LEMMA HandleReferred ==
    ASSUME Types, Requests, NEW t \in Threads, pc[t] \notin {"check", "urldrop"}, handle[t] # NoObj
    PROVE  handle[t] \in Objects /\ References(handle[t]) # {}
<1>1. PICK i \in 1..Len(held[t]) : held[t][i] = handle[t]
  BY DEF Requests, RequestOk
<1>2. held[t] \in Seq(Objects) /\ DOMAIN held[t] = 1..Len(held[t]) /\ Len(held[t]) <= 2 /\ Len(held[t]) \in Nat
  BY DEF Types, ObjectTypes, CacheTypes, ThreadTypes, Requests, RequestOk
<1>3. i \in 0..2 /\ handle[t] \in Objects
  BY <1>1, <1>2
<1>4. Refers(t, i, handle[t])
  BY <1>1, <1>2 DEF Refers
<1>5. <<t, i>> \in References(handle[t])
  BY <1>3, <1>4 DEF References
<1> QED
  BY <1>3, <1>5

\* The objects that a step leaves alone.
LEMMA OtherOk ==
    ASSUME NEW o, ObjectOk(o), UNCHANGED atomics, heap'[o] = heap[o], refcount'[o] = refcount[o],
           cleanup'[o] = cleanup[o], o \in queue' <=> o \in queue,
           References(o)' = References(o), Checked(o)' <=> Checked(o)
    PROVE  ObjectOk(o)'
BY DEF ObjectOk, Claimed

LEMMA RequestsKept ==
    ASSUME Requests, NEW t \in Threads, Others(t), RequestOk(t)'
    PROVE  Requests'
BY DEF Requests, RequestOk, Others
-----------------------------------------------------------------------------
(***************************************************************************)
(* Every action keeps the invariant of the cache.                          *)
(***************************************************************************)
LEMMA CacheInitInv == Init => CacheInv
<1> SUFFICES ASSUME Init PROVE CacheInv
  OBVIOUS
<1>1. (CHOOSE k \in Keys : TRUE) \in Keys
  BY KeysExist
<1>2. ObjectTypes
  BY <1>1, LimitsPositive DEF Init, ObjectTypes
<1>3. CacheTypes
  BY FS_EmptySet DEF Init, CacheTypes
<1>4. ThreadTypes
  <2>1. <<>> \in Seq(Objects) /\ "idle" \in PCs
    BY DEF PCs
  <2>2. atomics \in BOOLEAN
    BY Zenon DEF Init
  <2> QED
    BY <1>1, <2>1, <2>2 DEF Init, ThreadTypes
<1>5. Requests
  BY DEF Init, Requests, RequestOk
<1>6. TableMatchesQueue
  BY DEF Init, TableMatchesQueue
<1>7. SizeExact
  <2>1. Units({}, m_len) = {} /\ Cardinality({}) = 0 /\ queue = {} /\ current_size = 0
    BY FS_EmptySet DEF Init, Units
  <2> QED
    BY <2>1, LimitsPositive DEF SizeExact, SizeOf
<1>8. AllOk
  <2> SUFFICES ASSUME NEW o \in Objects PROVE ObjectOk(o)
    BY DEF AllOk
  <2>1. References(o) = {}
    <3>1. ASSUME NEW t \in Threads, NEW i \in 0..2
          PROVE  ~Refers(t, i, o)
      BY DEF Init, Refers
    <3> QED
      BY <3>1 DEF References
  <2>2. ~Checked(o)
    BY DEF Init, Checked
  <2> QED
    BY <2>1, <2>2, FS_EmptySet DEF Init, ObjectOk, Claimed
<1> QED
  BY <1>2, <1>3, <1>4, <1>5, <1>6, <1>7, <1>8 DEF CacheInv, Types

\* The entries are as they were.
LEMMA CacheKept ==
    ASSUME TableMatchesQueue, SizeExact, UNCHANGED <<key, m_len, queue, table, current_size>>
    PROVE  TableMatchesQueue' /\ SizeExact'
BY DEF TableMatchesQueue, SizeExact, SizeOf, Units

LEMMA QuietInv ==
    ASSUME CacheInv, NEW t \in Threads, Others(t), held'[t] = held[t],
           pc[t] \notin {"check", "urldrop"}, pc'[t] \notin {"check", "urldrop"},
           UNCHANGED <<heap, key, refcount, cleanup, m_len, queue, table, current_size>>,
           ObjectTypes', ThreadTypes', RequestOk(t)'
    PROVE  CacheInv'
<1>1. Types'
  BY DEF CacheInv, Types, CacheTypes
<1>2. Requests'
  BY RequestsKept DEF CacheInv
<1>3. TableMatchesQueue' /\ SizeExact'
  BY CacheKept DEF CacheInv
<1>4. ASSUME NEW o \in Objects
      PROVE  ObjectOk(o)'
  <2>1. ObjectOk(o)
    BY DEF CacheInv, AllOk
  <2>2. References(o)' = References(o) /\ (Checked(o)' <=> Checked(o))
    BY QuietRefs
  <2>3. UNCHANGED atomics /\ heap'[o] = heap[o] /\ refcount'[o] = refcount[o]
        /\ cleanup'[o] = cleanup[o] /\ (o \in queue' <=> o \in queue)
    BY DEF Others
  <2> QED
    BY <2>1, <2>2, <2>3, OtherOk
<1> QED
  BY <1>1, <1>2, <1>3, <1>4 DEF CacheInv, AllOk

\* The steps that leave the cache and the references alone.
LEMMA ThreadAlone ==
    ASSUME CacheInv, NEW t \in Threads,
           Respond(t) \/ CreateDeclined(t) \/ Complete(t) \/ WriteFails(t) \/ EndRequest(t)
    PROVE  CacheInv'
<1>1. Types /\ RequestOk(t)
  BY DEF CacheInv, Requests
<1>2. (CHOOSE k \in Keys : TRUE) \in Keys
  BY KeysExist
<1>3. /\ UNCHANGED <<heap, key, refcount, cleanup, m_len, queue, table, current_size, atomics, held>>
      /\ pc' = [pc EXCEPT ![t] = "end"] \/ (pc' = [pc EXCEPT ![t] = "idle"] /\ held[t] = <<>>)
      /\ pc[t] \in {"respond", "create", "write", "written", "end"}
      /\ handle' = handle \/ handle' = [handle EXCEPT ![t] = NoObj]
      /\ url' = url \/ url' = [url EXCEPT ![t] = CHOOSE k \in Keys : TRUE]
      /\ complete' = complete \/ complete' = [complete EXCEPT ![handle[t]] = TRUE]
  BY DEF Respond, CreateDeclined, Complete, WriteFails, EndRequest, Goto, objectVars, cacheVars
<1>4. ObjectTypes'
  BY <1>1, <1>3 DEF Types, ObjectTypes
<1>5. ThreadTypes'
  <2>1. pc' \in [Threads -> PCs]
    BY <1>1, <1>3 DEF Types, ThreadTypes, PCs
  <2>2. url' \in [Threads -> Keys]
    BY <1>1, <1>2, <1>3 DEF Types, ThreadTypes
  <2>3. handle' \in [Threads -> Objects \union {NoObj}]
    BY <1>1, <1>3 DEF Types, ThreadTypes
  <2> QED
    BY <1>1, <1>3, <2>1, <2>2, <2>3 DEF Types, ThreadTypes
<1>6. Others(t) /\ held'[t] = held[t]
  BY <1>1, <1>3 DEF Others, Types, ThreadTypes
<1>7. pc'[t] \in {"end", "idle"} /\ (pc'[t] = "idle" => held[t] = <<>>)
      /\ handle'[t] \in {handle[t], NoObj}
  BY <1>1, <1>3 DEF Types, ThreadTypes
<1>8. RequestOk(t)'
  BY <1>1, <1>3, <1>6, <1>7 DEF RequestOk
<1> QED
  BY <1>3, <1>4, <1>5, <1>6, <1>7, <1>8, QuietInv

\* remove_entity and decrement_refcount: the caller has a reference.
LEMMA RemoveAndMarkInv ==
    ASSUME CacheInv, NEW t \in Threads, NEW o \in Objects, References(o) # {}, RemoveAndMark(o),
           Others(t), held'[t] = held[t],
           pc[t] \notin {"check", "urldrop"}, pc'[t] \notin {"check", "urldrop"},
           ThreadTypes', RequestOk(t)'
    PROVE  CacheInv'
<1>1. Types /\ TableMatchesQueue /\ SizeExact /\ ObjectOk(o)
  BY DEF CacheInv, AllOk
<1>2. UNCHANGED <<heap, key, refcount, complete, m_len>>
  BY DEF RemoveAndMark
<1>3. Requests'
  BY RequestsKept DEF CacheInv
<1>4. \A p \in Objects : ObjectOk(p) /\ References(p)' = References(p) /\ (Checked(p)' <=> Checked(p))
  BY QuietRefs DEF CacheInv, AllOk
<1>5. CASE cleanup[o]
  <2>1. UNCHANGED <<queue, table, current_size, cleanup>>
    BY <1>5 DEF RemoveAndMark, cacheVars
  <2>2. Types'
    BY <1>1, <1>2, <2>1 DEF Types, ObjectTypes, CacheTypes
  <2>3. TableMatchesQueue' /\ SizeExact'
    BY <1>1, <1>2, <2>1, CacheKept
  <2>4. ASSUME NEW p \in Objects
        PROVE  ObjectOk(p)'
    BY <1>2, <1>4, <2>1, OtherOk DEF Others
  <2> QED
    BY <1>3, <2>2, <2>3, <2>4 DEF CacheInv, AllOk
<1>6. CASE ~cleanup[o]
  <2>1. o \in queue
    BY <1>1, <1>6 DEF ObjectOk, Claimed
  <2>2. CacheRemove(o) /\ cleanup' = [cleanup EXCEPT ![o] = TRUE]
    BY <1>6 DEF RemoveAndMark
  <2>3. TableMatchesQueue' /\ SizeExact' /\ CacheTypes' /\ queue' = queue \ {o}
    BY <1>1, <1>2, <2>1, <2>2, Removed DEF CacheTypes
  <2>4. \A p \in Objects : cleanup'[p] = (p = o \/ cleanup[p])
    BY <1>1, <2>2 DEF Types, ObjectTypes
  <2>5. Types'
    BY <1>1, <1>2, <2>2, <2>3 DEF Types, ObjectTypes
  <2>6. ObjectOk(o)'
    <3>1. References(o)' = References(o) /\ o \notin queue' /\ cleanup'[o]
      BY <1>4, <2>3, <2>4
    <3>2. heap'[o] = heap[o] /\ refcount'[o] = refcount[o] /\ atomics' = atomics
      BY <1>2 DEF Others
    <3> QED
      BY <1>1, <2>1, <3>1, <3>2 DEF ObjectOk, Claimed
  <2>7. ASSUME NEW p \in Objects, p # o
        PROVE  ObjectOk(p)'
    <3>1. /\ UNCHANGED atomics /\ heap'[p] = heap[p] /\ refcount'[p] = refcount[p]
          /\ cleanup'[p] = cleanup[p] /\ (p \in queue' <=> p \in queue)
      BY <1>1, <1>2, <2>2, <2>3, <2>7 DEF Others, Types, ObjectTypes
    <3> QED
      BY <1>4, <3>1, OtherOk
  <2> QED
    BY <1>3, <2>3, <2>5, <2>6, <2>7 DEF CacheInv, AllOk
<1> QED
  BY <1>5, <1>6

LEMMA RemoveEntityInv ==
    ASSUME CacheInv, NEW t \in Threads, RemoveEntity(t)
    PROVE  CacheInv'
<1>1. Types /\ Requests /\ RequestOk(t)
  BY DEF CacheInv, Requests
<1>2. /\ pc[t] = "respond" /\ handle[t] # NoObj /\ RemoveAndMark(handle[t])
      /\ pc' = [pc EXCEPT ![t] = "create"] /\ UNCHANGED <<atomics, url, handle, held>>
  BY DEF RemoveEntity, Goto
<1>3. handle[t] \in Objects /\ References(handle[t]) # {}
  BY <1>1, <1>2, HandleReferred
<1>4. ThreadTypes' /\ Others(t) /\ pc'[t] = "create"
  BY <1>1, <1>2 DEF Types, ThreadTypes, PCs, Others
<1>5. RequestOk(t)'
  BY <1>1, <1>2, <1>4 DEF RequestOk
<1>6. held'[t] = held[t]
  BY <1>2
<1> QED
  BY <1>2, <1>3, <1>4, <1>5, <1>6, RemoveAndMarkInv

LEMMA DropIncompleteInv ==
    ASSUME CacheInv, NEW t \in Threads, DropIncomplete(t)
    PROVE  CacheInv'
<1> DEFINE o == held[t][Len(held[t])]
<1>1. Types /\ Requests /\ RequestOk(t)
  BY DEF CacheInv, Requests
<1>2. /\ pc[t] = "end" /\ held[t] # <<>> /\ RemoveAndMark(o)
      /\ pc' = [pc EXCEPT ![t] = "drop"] /\ UNCHANGED <<atomics, url, handle, held>>
  BY DEF DropIncomplete, Goto, Last
<1>3. Len(held[t]) > 0
  <2>1. held[t] \in Seq(Objects)
    BY <1>1 DEF Types, ThreadTypes
  <2> QED
    BY <1>2, <2>1, EmptySeq
<1>4. o \in Objects /\ References(o) # {}
  BY <1>1, <1>2, <1>3, LastReferred
<1>5. ThreadTypes' /\ Others(t) /\ pc'[t] = "drop"
  BY <1>1, <1>2 DEF Types, ThreadTypes, PCs, Others
<1>6. RequestOk(t)'
  BY <1>1, <1>2, <1>3, <1>5 DEF RequestOk
<1>7. held'[t] = held[t]
  BY <1>2
<1> HIDE DEF o
<1> QED
  BY <1>2, <1>4, <1>5, <1>6, <1>7, RemoveAndMarkInv

LEMMA OpenEntityInv ==
    ASSUME CacheInv, NEW t \in Threads, OpenEntity(t)
    PROVE  CacheInv'
<1>1. Types /\ Requests /\ RequestOk(t) /\ TableMatchesQueue /\ SizeExact
  BY DEF CacheInv, Requests
<1>2. /\ pc[t] = "idle" /\ pc' = [pc EXCEPT ![t] = "respond"] /\ Len(held[t]) = 0
      /\ UNCHANGED <<heap, key, cleanup, complete, m_len, queue, table, current_size, atomics>>
  BY <1>1 DEF OpenEntity, Goto, cacheVars, RequestOk
<1>3. handle[t] = NoObj
  BY <1>1, <1>2 DEF RequestOk
<1>4. PICK k \in Keys :
        /\ url' = [url EXCEPT ![t] = k]
        /\ LET o == table[k] IN
           IF o # NoObj /\ (o # NoObj => complete[o])
           THEN /\ refcount' = [refcount EXCEPT ![o] = @ + 1]
                /\ held' = [held EXCEPT ![t] = <<o>>]
                /\ \E h \in {o, NoObj} : handle' = [handle EXCEPT ![t] = h]
           ELSE UNCHANGED <<refcount, held, handle>>
  BY DEF OpenEntity
<1>5. TableMatchesQueue' /\ SizeExact'
  BY <1>1, <1>2, CacheKept
<1>6. CASE UNCHANGED <<refcount, held, handle>>
  <2>1. ObjectTypes' /\ ThreadTypes' /\ Others(t) /\ pc'[t] = "respond" /\ held'[t] = held[t]
    BY <1>1, <1>2, <1>4, <1>6 DEF Types, ObjectTypes, ThreadTypes, PCs, Others
  <2>2. RequestOk(t)'
    BY <1>1, <1>2, <1>3, <1>6, <2>1 DEF RequestOk
  <2> QED
    BY <1>2, <1>6, <2>1, <2>2, QuietInv
<1>7. CASE table[k] # NoObj /\ refcount' = [refcount EXCEPT ![table[k]] = @ + 1]
           /\ held' = [held EXCEPT ![t] = <<table[k]>>]
           /\ \E h \in {table[k], NoObj} : handle' = [handle EXCEPT ![t] = h]
  <2>1. PICK o \in queue : o = table[k] /\ o \in Objects
    BY <1>1, <1>7 DEF Types, CacheTypes, TableMatchesQueue
  <2>2. <<o>> \in Seq(Objects) /\ Len(<<o>>) = 1 /\ <<o>>[1] = o /\ DOMAIN <<o>> = 1..1
    BY <2>1
  <2>3. held'[t] = <<o>> /\ handle'[t] \in {o, NoObj} /\ pc'[t] = "respond" /\ Others(t)
    BY <1>1, <1>2, <1>7, <2>1 DEF Types, ThreadTypes, Others
  <2>4. ThreadTypes'
    <3>1. /\ pc' \in [Threads -> PCs] /\ url' \in [Threads -> Keys] /\ atomics' \in BOOLEAN
      BY <1>1, <1>2, <1>4 DEF Types, ThreadTypes, PCs
    <3>2. handle' \in [Threads -> Objects \union {NoObj}]
      BY <1>1, <1>7, <2>1 DEF Types, ThreadTypes
    <3>3. held' \in [Threads -> Seq(Objects)]
      BY <1>1, <1>7, <2>1, <2>2 DEF Types, ThreadTypes
    <3> QED
      BY <3>1, <3>2, <3>3 DEF ThreadTypes
  <2>5. Types'
    <3>1. refcount' \in [Objects -> Int]
      BY <1>1, <1>7, <2>1 DEF Types, ObjectTypes
    <3>2. ObjectTypes'
      BY <1>1, <1>2, <3>1 DEF Types, ObjectTypes
    <3> QED
      BY <1>1, <1>2, <2>4, <3>2 DEF Types, CacheTypes
  <2>6. RequestOk(t)'
    <3>1. Len(held'[t]) = 1 /\ held'[t][1] = o
      BY <2>2, <2>3
    <3> QED
      BY <2>3, <3>1 DEF RequestOk
  <2>7. Requests'
    BY <1>1, <2>3, <2>6, RequestsKept
  <2>8. \A p \in Objects : \A i \in 0..2 :
           ~Refers(t, i, p) /\ (Refers(t, i, p)' <=> p = o /\ i = 1)
    <3>1. DOMAIN held[t] = {} /\ pc[t] # "urldrop"
      BY <1>1, <1>2 DEF Types, ThreadTypes
    <3>2. \A p \in Objects : \A i \in 0..2 : ~Refers(t, i, p)
      BY <3>1 DEF Refers
    <3>3. \A p \in Objects : \A i \in 0..2 : Refers(t, i, p)' <=> p = o /\ i = 1
      BY <2>2, <2>3 DEF Refers
    <3> QED
      BY <3>2, <3>3
  <2>9. \A p \in Objects : ObjectOk(p) /\ (Checked(p)' <=> Checked(p))
    BY <1>2, <2>3, CheckedKept DEF CacheInv, AllOk
  <2>10. \A p \in Objects : refcount'[p] = IF p = o THEN refcount[p] + 1 ELSE refcount[p]
    BY <1>1, <1>7, <2>1 DEF Types, ObjectTypes
  <2>11. ObjectOk(o)'
    <3>1. /\ References(o)' = References(o) \union {<<t, 1>>} /\ IsFiniteSet(References(o)')
          /\ Cardinality(References(o)') = Cardinality(References(o)) + 1
      <4>1. IsFiniteSet(References(o))
        BY <2>1, <2>9 DEF ObjectOk
      <4>2. 1 \in 0..2 /\ ~Refers(t, 1, o) /\ Refers(t, 1, o)'
            /\ \A i \in (0..2) \ {1} : Refers(t, i, o)' <=> Refers(t, i, o)
        BY <2>1, <2>8
      <4> QED
        BY <2>3, <4>1, <4>2, RefsAdd
    <3>2. heap'[o] = heap[o] /\ refcount'[o] = refcount[o] + 1 /\ atomics' = atomics
          /\ cleanup'[o] = cleanup[o] /\ o \in queue'
      BY <1>2, <2>1, <2>10
    <3>3. ObjectOk(o)
      BY <2>1, <2>9
    <3> QED
      BY <2>1, <3>1, <3>2, <3>3 DEF ObjectOk
  <2>12. ASSUME NEW p \in Objects, p # o
         PROVE  ObjectOk(p)'
    <3>1. References(p)' = References(p)
      BY <2>3, <2>8, <2>12, RefsKept
    <3>2. /\ UNCHANGED atomics /\ heap'[p] = heap[p] /\ refcount'[p] = refcount[p]
          /\ cleanup'[p] = cleanup[p] /\ (p \in queue' <=> p \in queue)
      BY <1>2, <2>10, <2>12
    <3> QED
      BY <2>9, <3>1, <3>2, OtherOk
  <2> QED
    BY <1>5, <2>5, <2>7, <2>11, <2>12 DEF CacheInv, AllOk
<1> QED
  BY <1>4, <1>6, <1>7

LEMMA FreedFacts ==
    ASSUME ObjectTypes, NEW S
    PROVE  /\ FreedHeap(S) \in [Objects -> {"free", "live", "twice"}]
           /\ \A o \in Objects : FreedHeap(S)[o] = IF o \in S THEN (IF heap[o] = "live" THEN "free" ELSE "twice")
                                                              ELSE heap[o]
BY DEF ObjectTypes, FreedHeap

\* remove_url, for a request that has no reference of this kind yet.
LEMMA RemoveUrlInv ==
    ASSUME CacheInv, NEW t \in Threads, NEW k \in Keys, pc[t] \in {"idle", "respond"}, RemoveUrl(t, k)
    PROVE  CacheInv'
<1>1. Types /\ Requests /\ RequestOk(t) /\ TableMatchesQueue /\ SizeExact
  BY DEF CacheInv, Requests
<1>2. url' = [url EXCEPT ![t] = k] /\ held' = held
  BY DEF RemoveUrl
<1>3. CASE table[k] = NoObj
  <2>1. pc' = [pc EXCEPT ![t] = "end"] /\ UNCHANGED <<objectVars, cacheVars, atomics, handle>>
    BY <1>3 DEF RemoveUrl, Goto
  <2>2. ObjectTypes' /\ ThreadTypes' /\ Others(t) /\ pc'[t] = "end" /\ held'[t] = held[t]
    BY <1>1, <1>2, <2>1 DEF Types, ObjectTypes, ThreadTypes, PCs, Others, objectVars
  <2>3. RequestOk(t)'
    BY <1>1, <1>2, <2>1, <2>2 DEF RequestOk
  <2>4. UNCHANGED <<heap, key, refcount, cleanup, m_len, queue, table, current_size>>
    BY <2>1 DEF objectVars, cacheVars
  <2> QED
    BY <2>2, <2>3, <2>4, QuietInv
<1>4. CASE table[k] # NoObj
  <2>1. PICK o \in queue : o = table[k] /\ o \in Objects
    BY <1>1, <1>4 DEF Types, CacheTypes, TableMatchesQueue
  <2>2. /\ CacheRemove(o) /\ cleanup' = [cleanup EXCEPT ![o] = TRUE]
        /\ UNCHANGED <<key, complete, m_len, atomics>>
    BY <1>4, <2>1 DEF RemoveUrl
  <2>3. TableMatchesQueue' /\ SizeExact' /\ CacheTypes' /\ queue' = queue \ {o}
    BY <1>1, <2>1, <2>2, Removed DEF CacheTypes
  <2>4. \A p \in Objects : cleanup'[p] = (p = o \/ cleanup[p])
    BY <1>1, <2>2 DEF Types, ObjectTypes
  <2>5. \A p \in Objects : ObjectOk(p)
    BY DEF CacheInv, AllOk
  <2>6. CASE atomics
    <3>1. /\ refcount' = [refcount EXCEPT ![o] = @ + 1] /\ handle' = [handle EXCEPT ![t] = o]
          /\ pc' = [pc EXCEPT ![t] = "urldrop"] /\ heap' = heap
      BY <1>4, <2>1, <2>6 DEF RemoveUrl, Goto
    <3>2. ThreadTypes' /\ Others(t) /\ pc'[t] = "urldrop" /\ handle'[t] = o /\ held'[t] = held[t]
      BY <1>1, <1>2, <2>1, <2>2, <3>1 DEF Types, ThreadTypes, PCs, Others
    <3>3. ObjectTypes'
      <4>1. refcount' \in [Objects -> Int] /\ cleanup' \in [Objects -> BOOLEAN]
        BY <1>1, <2>1, <2>2, <3>1 DEF Types, ObjectTypes
      <4> QED
        BY <1>1, <2>2, <3>1, <4>1 DEF Types, ObjectTypes
    <3>4. RequestOk(t)'
      BY <1>1, <2>1, <2>2, <2>6, <3>2 DEF RequestOk
    <3>5. Requests'
      BY <1>1, <3>2, <3>4, RequestsKept
    <3>6. \A p \in Objects : \A i \in 0..2 :
             Refers(t, i, p)' <=> Refers(t, i, p) \/ (p = o /\ i = 0)
      BY <1>1, <3>2 DEF Refers
    <3>7. ~Refers(t, 0, o)
      BY DEF Refers
    <3>8. \A p \in Objects : Checked(p)' <=> Checked(p)
      BY <3>2, CheckedKept
    <3>9. \A p \in Objects : refcount'[p] = IF p = o THEN refcount[p] + 1 ELSE refcount[p]
      BY <1>1, <3>1 DEF Types, ObjectTypes
    <3>10. ObjectOk(o)'
      <4>1. IsFiniteSet(References(o))
        BY <2>1, <2>5 DEF ObjectOk
      <4>2. 0 \in 0..2 /\ Refers(t, 0, o)' /\ \A i \in (0..2) \ {0} : Refers(t, i, o)' <=> Refers(t, i, o)
        BY <2>1, <3>6
      <4>3. /\ References(o)' = References(o) \union {<<t, 0>>} /\ IsFiniteSet(References(o)')
            /\ Cardinality(References(o)') = Cardinality(References(o)) + 1
        BY <3>2, <3>7, <4>1, <4>2, RefsAdd
      <4>4. /\ heap'[o] = heap[o] /\ refcount'[o] = refcount[o] + 1 /\ atomics'
            /\ cleanup'[o] /\ o \notin queue'
        BY <2>1, <2>2, <2>3, <2>4, <2>6, <3>1, <3>9
      <4>5. ObjectOk(o)
        BY <2>1, <2>5
      <4> QED
        BY <2>1, <4>3, <4>4, <4>5 DEF ObjectOk, Claimed
    <3>11. ASSUME NEW p \in Objects, p # o
           PROVE  ObjectOk(p)'
      <4>1. References(p)' = References(p)
        BY <3>2, <3>6, <3>11, RefsKept
      <4>2. /\ UNCHANGED atomics /\ heap'[p] = heap[p] /\ refcount'[p] = refcount[p]
            /\ cleanup'[p] = cleanup[p] /\ (p \in queue' <=> p \in queue)
        BY <1>1, <2>2, <2>3, <3>1, <3>9, <3>11 DEF Types, ObjectTypes
      <4> QED
        BY <2>5, <3>8, <4>1, <4>2, OtherOk
    <3> QED
      BY <2>3, <3>2, <3>3, <3>5, <3>10, <3>11 DEF CacheInv, Types, AllOk
  <2>7. CASE ~atomics
    <3>1. /\ heap' = FreedHeap(Unreferenced({o})) /\ pc' = [pc EXCEPT ![t] = "end"]
          /\ UNCHANGED <<refcount, handle>>
      BY <1>4, <2>1, <2>7 DEF RemoveUrl, Goto
    <3>2. ThreadTypes' /\ Others(t) /\ pc'[t] = "end" /\ handle'[t] = handle[t] /\ held'[t] = held[t]
      BY <1>1, <1>2, <2>2, <3>1 DEF Types, ThreadTypes, PCs, Others
    <3>3. /\ heap' \in [Objects -> {"free", "live", "twice"}]
          /\ heap'[o] = IF refcount[o] = 0 THEN (IF heap[o] = "live" THEN "free" ELSE "twice") ELSE heap[o]
          /\ \A p \in Objects \ {o} : heap'[p] = heap[p]
      BY <1>1, <2>1, <3>1, FreedFacts DEF Types, Unreferenced
    <3>4. Types'
      BY <1>1, <2>2, <2>3, <3>1, <3>2, <3>3 DEF Types, ObjectTypes
    <3>5. Requests'
      <4>1. RequestOk(t)'
        BY <1>1, <2>2, <3>2 DEF RequestOk
      <4> QED
        BY <1>1, <3>2, <4>1, RequestsKept
    <3>6. \A p \in Objects : References(p)' = References(p) /\ (Checked(p)' <=> Checked(p))
      BY <3>2, QuietRefs
    <3>7. ObjectOk(o)'
      <4>1. heap[o] = "live" /\ IsFiniteSet(References(o)) /\ refcount[o] = Cardinality(References(o))
        BY <2>1, <2>5, <2>7 DEF ObjectOk
      <4>2. refcount[o] = 0 <=> References(o) = {}
        BY <4>1, FS_EmptySet
      <4>3. cleanup'[o] /\ o \notin queue' /\ refcount'[o] = refcount[o] /\ References(o)' = References(o)
        BY <2>1, <2>3, <2>4, <3>1, <3>6
      <4> QED
        BY <3>3, <4>1, <4>2, <4>3 DEF ObjectOk, Claimed
    <3>8. ASSUME NEW p \in Objects, p # o
          PROVE  ObjectOk(p)'
      <4>1. /\ UNCHANGED atomics /\ heap'[p] = heap[p] /\ refcount'[p] = refcount[p]
            /\ cleanup'[p] = cleanup[p] /\ (p \in queue' <=> p \in queue)
        BY <1>1, <2>2, <2>3, <3>1, <3>3, <3>8 DEF Types, ObjectTypes
      <4> QED
        BY <2>5, <3>6, <4>1, OtherOk
    <3> QED
      BY <2>3, <3>4, <3>5, <3>7, <3>8 DEF CacheInv, AllOk
  <2> QED
    BY <2>6, <2>7
<1> QED
  BY <1>3, <1>4

LEMMA RemoveUrlDropInv ==
    ASSUME CacheInv, NEW t \in Threads, RemoveUrlDrop(t)
    PROVE  CacheInv'
<1>1. Types /\ Requests /\ RequestOk(t) /\ TableMatchesQueue /\ SizeExact /\ \A p \in Objects : ObjectOk(p)
  BY DEF CacheInv, Requests, AllOk
<1>2. pc[t] = "urldrop" /\ handle[t] \in Objects /\ atomics
  BY <1>1 DEF RemoveUrlDrop, RequestOk, Types, ThreadTypes
<1>3. PICK o \in Objects : o = handle[t]
  BY <1>2
<1>4. /\ refcount' = [refcount EXCEPT ![o] = @ - 1]
      /\ IF refcount'[o] = 0 THEN heap' = FreedHeap({o}) ELSE heap' = heap
      /\ handle' = [handle EXCEPT ![t] = NoObj] /\ pc' = [pc EXCEPT ![t] = "end"]
      /\ UNCHANGED <<key, cleanup, complete, m_len, queue, table, current_size, atomics, url, held>>
  BY <1>3 DEF RemoveUrlDrop, Goto, cacheVars
<1>5. ThreadTypes' /\ Others(t) /\ pc'[t] = "end" /\ handle'[t] = NoObj /\ held'[t] = held[t]
  BY <1>1, <1>4 DEF Types, ThreadTypes, PCs, Others
<1>6. \A p \in Objects : refcount'[p] = IF p = o THEN refcount[p] - 1 ELSE refcount[p]
  BY <1>1, <1>4 DEF Types, ObjectTypes
<1>7. /\ heap' \in [Objects -> {"free", "live", "twice"}]
      /\ refcount'[o] = 0 => heap'[o] # "live"
      /\ refcount'[o] # 0 => heap'[o] = heap[o]
      /\ \A p \in Objects \ {o} : heap'[p] = heap[p]
  <2>1. CASE refcount'[o] = 0
    BY <1>1, <1>4, <2>1, FreedFacts DEF Types
  <2>2. CASE refcount'[o] # 0
    BY <1>1, <1>4, <2>2 DEF Types, ObjectTypes
  <2> QED
    BY <2>1, <2>2
<1>8. Types'
  <2>1. refcount' \in [Objects -> Int]
    BY <1>1, <1>4 DEF Types, ObjectTypes
  <2> QED
    BY <1>1, <1>4, <1>5, <1>7, <2>1 DEF Types, ObjectTypes, CacheTypes
<1>9. Requests'
  <2>1. RequestOk(t)'
    BY <1>1, <1>4, <1>5 DEF RequestOk
  <2> QED
    BY <1>1, <1>5, <2>1, RequestsKept
<1>10. TableMatchesQueue' /\ SizeExact'
  BY <1>1, <1>4, CacheKept
<1>11. \A p \in Objects : \A i \in 0..2 :
          Refers(t, i, p)' <=> Refers(t, i, p) /\ ~(p = o /\ i = 0)
  BY <1>2, <1>3, <1>5 DEF Refers
<1>12. Refers(t, 0, o)
  BY <1>2, <1>3 DEF Refers
<1>13. \A p \in Objects : Checked(p)' <=> Checked(p)
  BY <1>2, <1>5, CheckedKept
<1>14. ObjectOk(o)'
  <2>1. IsFiniteSet(References(o)) /\ ObjectOk(o)
    BY <1>1 DEF ObjectOk
  <2>2. 0 \in 0..2 /\ ~Refers(t, 0, o)' /\ \A i \in (0..2) \ {0} : Refers(t, i, o)' <=> Refers(t, i, o)
    BY <1>11
  <2>3. /\ References(o) # {} /\ IsFiniteSet(References(o)')
        /\ Cardinality(References(o)') = Cardinality(References(o)) - 1
    BY <1>5, <1>12, <2>1, <2>2, RefsDrop
  <2>4. Cardinality(References(o)') = 0 <=> References(o)' = {}
    BY <2>3, FS_EmptySet
  <2>5. /\ refcount'[o] = refcount[o] - 1 /\ atomics' /\ cleanup'[o] = cleanup[o]
        /\ o \in queue' <=> o \in queue
    BY <1>2, <1>4, <1>6
  <2> QED
    BY <1>7, <2>1, <2>3, <2>4, <2>5 DEF ObjectOk, Claimed
<1>15. ASSUME NEW p \in Objects, p # o
       PROVE  ObjectOk(p)'
  <2>1. References(p)' = References(p)
    BY <1>5, <1>11, <1>15, RefsKept
  <2>2. /\ UNCHANGED atomics /\ heap'[p] = heap[p] /\ refcount'[p] = refcount[p]
        /\ cleanup'[p] = cleanup[p] /\ (p \in queue' <=> p \in queue)
    BY <1>4, <1>6, <1>7, <1>15
  <2> QED
    BY <1>1, <1>13, <2>1, <2>2, OtherOk
<1> QED
  BY <1>8, <1>9, <1>10, <1>14, <1>15 DEF CacheInv, AllOk

\* A cleanup is over: the last reference of the request is gone.
LEMMA FrontRefs ==
    ASSUME Types, Requests, NEW t \in Threads, pc[t] \notin {"check", "urldrop"}, Len(held[t]) > 0,
           NEW o, o = held[t][Len(held[t])],
           \/ pc'[t] = "end" /\ held'[t] = Front(held[t])
           \/ pc'[t] = "check" /\ held'[t] = held[t]
    PROVE  \A p : \A i \in 0..2 : Refers(t, i, p)' <=> Refers(t, i, p) /\ ~(p = o /\ i = Len(held[t]))
<1> DEFINE s == held[t]
           n == Len(held[t])
<1>1. s \in Seq(Objects) /\ n \in Nat /\ n > 0 /\ DOMAIN s = 1..n
  BY DEF Types, ThreadTypes
<1>2. Front(s) \in Seq(Objects) /\ Len(Front(s)) = n - 1 /\ \A i \in 1..n - 1 : Front(s)[i] = s[i]
  BY <1>1, FrontFacts
<1>3. DOMAIN Front(s) = 1..(n - 1)
  BY <1>2
<1>4. \A p : \A i \in 0..2 : Refers(t, i, p) <=> i \in 1..n /\ s[i] = p
  BY <1>1 DEF Refers
<1>5. \A p : \A i \in 0..2 : Refers(t, i, p)' <=> i \in 1..(n - 1) /\ s[i] = p
  <2>1. CASE pc'[t] = "end" /\ held'[t] = Front(s)
    <3>1. ASSUME NEW p, NEW i \in 0..2
          PROVE  Refers(t, i, p)' <=> i \in 1..(n - 1) /\ s[i] = p
      <4>1. Refers(t, i, p)' <=> i # 0 /\ i \in DOMAIN Front(s) /\ Front(s)[i] = p
        BY <2>1 DEF Refers
      <4> QED
        BY <1>2, <1>3, <4>1
    <3> QED
      BY <3>1
  <2>2. CASE pc'[t] = "check" /\ held'[t] = s
    <3>1. ASSUME NEW p, NEW i \in 0..2
          PROVE  Refers(t, i, p)' <=> i \in 1..(n - 1) /\ s[i] = p
      <4>1. Refers(t, i, p)' <=> i # 0 /\ i \in DOMAIN s /\ s[i] = p /\ i # n
        BY <2>2 DEF Refers
      <4> QED
        BY <1>1, <4>1
    <3> QED
      BY <3>1
  <2> QED
    BY <2>1, <2>2
<1>6. n \notin 1..(n - 1) /\ \A i \in 1..n : i \in 1..(n - 1) <=> i # n
  BY <1>1
<1> QED
  BY <1>4, <1>5, <1>6

\* What a thread that gives a reference back does to itself and to the others.
LEMMA FrontThreads ==
    ASSUME Types, Requests, NEW t \in Threads, Len(held[t]) > 0,
           pc' = [pc EXCEPT ![t] = "end"], held' = [held EXCEPT ![t] = Front(@)],
           handle' = [handle EXCEPT ![t] = NoObj], UNCHANGED <<atomics, url>>
    PROVE  ThreadTypes' /\ Others(t) /\ Requests' /\ pc'[t] = "end" /\ held'[t] = Front(held[t])
<1>1. held[t] \in Seq(Objects)
  BY DEF Types, ThreadTypes
<1>2. Front(held[t]) \in Seq(Objects) /\ Len(Front(held[t])) = Len(held[t]) - 1
  BY <1>1, FrontFacts
<1>3. pc'[t] = "end" /\ held'[t] = Front(held[t]) /\ handle'[t] = NoObj /\ Others(t)
  BY DEF Types, ThreadTypes, Others
<1>4. ThreadTypes'
  <2>1. held' \in [Threads -> Seq(Objects)]
    BY <1>2 DEF Types, ThreadTypes
  <2>2. pc' \in [Threads -> PCs] /\ handle' \in [Threads -> Objects \union {NoObj}]
    BY DEF Types, ThreadTypes, PCs
  <2> QED
    BY <2>1, <2>2 DEF Types, ThreadTypes
<1>5. RequestOk(t)'
  <2>1. Len(held'[t]) <= 2
    <3>1. Len(held[t]) \in Nat /\ Len(held[t]) <= 2 /\ Len(held'[t]) = Len(held[t]) - 1
      BY <1>1, <1>2, <1>3 DEF Requests, RequestOk
    <3> QED
      BY <3>1
  <2> QED
    BY <1>3, <2>1 DEF RequestOk
<1>6. Requests'
  BY <1>3, <1>5, RequestsKept
<1> QED
  BY <1>3, <1>4, <1>6

LEMMA DropInv ==
    ASSUME CacheInv, NEW t \in Threads, Drop(t) \/ DropLocked(t)
    PROVE  CacheInv'
<1>1. Types /\ Requests /\ RequestOk(t) /\ TableMatchesQueue /\ SizeExact /\ \A p \in Objects : ObjectOk(p)
  BY DEF CacheInv, Requests, AllOk
<1>2. held[t] \in Seq(Objects) /\ Len(held[t]) > 0 /\ pc[t] \in {"drop", "end"}
  <2>1. held[t] \in Seq(Objects)
    BY <1>1 DEF Types, ThreadTypes
  <2>2. pc[t] = "drop" \/ (pc[t] = "end" /\ held[t] # <<>>)
    BY DEF Drop, DropLocked
  <2> QED
    BY <1>1, <2>1, <2>2, EmptySeq DEF RequestOk
<1>3. PICK n \in 0..2 : n = Len(held[t]) /\ held[t][n] \in Objects /\ Refers(t, n, held[t][n])
  BY <1>1, <1>2, LastReferred
<1>4. PICK o \in Objects : o = held[t][n]
  BY <1>3
<1>5. /\ refcount' = [refcount EXCEPT ![o] = @ - 1]
      /\ UNCHANGED <<key, cleanup, complete, m_len, queue, table, current_size, atomics, url>>
  BY <1>3, <1>4 DEF Drop, DropLocked, cacheVars, Last
<1>6. \A p \in Objects : refcount'[p] = IF p = o THEN refcount[p] - 1 ELSE refcount[p]
  BY <1>1, <1>5 DEF Types, ObjectTypes
<1>7. /\ heap' \in [Objects -> {"free", "live", "twice"}]
      /\ \A p \in Objects \ {o} : heap'[p] = heap[p]
      /\ atomics => heap'[o] = heap[o]
      /\ ~atomics => heap'[o] = IF cleanup[o] /\ refcount'[o] = 0
                                THEN (IF heap[o] = "live" THEN "free" ELSE "twice") ELSE heap[o]
  <2>1. CASE atomics
    <3>1. heap' = heap
      BY <2>1 DEF Drop, DropLocked
    <3> QED
      BY <1>1, <2>1, <3>1 DEF Types, ObjectTypes
  <2>2. CASE ~atomics
    <3>1. IF cleanup[o] /\ refcount'[o] = 0 THEN heap' = FreedHeap({o}) ELSE heap' = heap
      BY <1>3, <1>4, <2>2 DEF Drop, DropLocked, Last
    <3>2. CASE cleanup[o] /\ refcount'[o] = 0
      BY <1>1, <2>2, <3>1, <3>2, FreedFacts DEF Types
    <3>3. CASE ~(cleanup[o] /\ refcount'[o] = 0)
      BY <1>1, <2>2, <3>1, <3>3 DEF Types, ObjectTypes
    <3> QED
      BY <3>2, <3>3
  <2> QED
    BY <2>1, <2>2
<1>8. /\ ThreadTypes' /\ Others(t) /\ Requests'
      /\ \/ pc'[t] = "end" /\ held'[t] = Front(held[t])
         \/ pc'[t] = "check" /\ held'[t] = held[t] /\ atomics /\ refcount'[o] = 0
      /\ pc'[t] = "end" /\ atomics => refcount'[o] # 0
  <2>1. CASE DropLocked(t) \/ (Drop(t) /\ refcount'[o] # 0)
    <3>1. /\ pc' = [pc EXCEPT ![t] = "end"] /\ held' = [held EXCEPT ![t] = Front(@)]
          /\ handle' = [handle EXCEPT ![t] = NoObj] /\ (atomics => refcount'[o] # 0)
      BY <1>3, <1>4, <2>1 DEF Drop, DropLocked, Goto, Last
    <3>2. ThreadTypes' /\ Others(t) /\ Requests' /\ pc'[t] = "end" /\ held'[t] = Front(held[t])
      BY <1>1, <1>2, <1>5, <3>1, FrontThreads
    <3> QED
      BY <3>1, <3>2
  <2>2. CASE Drop(t) /\ refcount'[o] = 0
    <3>1. /\ pc' = [pc EXCEPT ![t] = "check"] /\ UNCHANGED <<held, handle>> /\ atomics
      BY <1>3, <1>4, <2>2 DEF Drop, Goto, Last
    <3>2. ThreadTypes' /\ Others(t) /\ pc'[t] = "check" /\ held'[t] = held[t] /\ handle'[t] = handle[t]
      BY <1>1, <1>5, <3>1 DEF Types, ThreadTypes, PCs, Others
    <3>3. RequestOk(t)'
      BY <1>1, <1>2, <1>5, <3>1, <3>2 DEF RequestOk
    <3>4. Requests'
      BY <1>1, <3>2, <3>3, RequestsKept
    <3> QED
      BY <2>2, <3>1, <3>2, <3>4
  <2> QED
    BY <2>1, <2>2
<1>9. Types'
  <2>1. refcount' \in [Objects -> Int]
    BY <1>1, <1>5 DEF Types, ObjectTypes
  <2> QED
    BY <1>1, <1>5, <1>7, <1>8, <2>1 DEF Types, ObjectTypes, CacheTypes
<1>10. TableMatchesQueue' /\ SizeExact'
  BY <1>1, <1>5, CacheKept
<1>11. \A p : \A i \in 0..2 : Refers(t, i, p)' <=> Refers(t, i, p) /\ ~(p = o /\ i = n)
  BY <1>1, <1>2, <1>3, <1>4, <1>8, FrontRefs
<1>12. ObjectOk(o)'
  <2>1. IsFiniteSet(References(o)) /\ ObjectOk(o)
    BY <1>1 DEF ObjectOk
  <2>2. Refers(t, n, o) /\ ~Refers(t, n, o)' /\ \A i \in (0..2) \ {n} : Refers(t, i, o)' <=> Refers(t, i, o)
    BY <1>3, <1>4, <1>11
  <2>3. /\ References(o) # {} /\ IsFiniteSet(References(o)')
        /\ Cardinality(References(o)') = Cardinality(References(o)) - 1
    BY <1>3, <1>8, <2>1, <2>2, RefsDrop
  <2>4. Cardinality(References(o)') = 0 <=> References(o)' = {}
    BY <2>3, FS_EmptySet
  <2>5. /\ refcount'[o] = refcount[o] - 1 /\ atomics' = atomics /\ cleanup'[o] = cleanup[o]
        /\ o \in queue' <=> o \in queue
    BY <1>5, <1>6
  <2>6. CASE ~atomics
    BY <1>7, <2>1, <2>3, <2>4, <2>5, <2>6 DEF ObjectOk, Claimed
  <2>7. CASE atomics
    <3>1. refcount'[o] = 0 => Checked(o)'
      BY <1>3, <1>4, <1>8, <2>7 DEF Checked
    <3> QED
      BY <1>7, <2>1, <2>3, <2>4, <2>5, <2>7, <3>1 DEF ObjectOk, Claimed
  <2> QED
    BY <2>6, <2>7
<1>13. ASSUME NEW p \in Objects, p # o
       PROVE  ObjectOk(p)'
  <2>1. References(p)' = References(p)
    BY <1>8, <1>11, <1>13, RefsKept
  <2>2. /\ UNCHANGED atomics /\ heap'[p] = heap[p] /\ refcount'[p] = refcount[p]
        /\ cleanup'[p] = cleanup[p] /\ (p \in queue' <=> p \in queue)
    BY <1>5, <1>6, <1>7, <1>13
  <2>3. Checked(p)' <=> Checked(p)
    BY <1>2, <1>3, <1>4, <1>8, <1>13 DEF Checked, Others
  <2> QED
    BY <1>1, <2>1, <2>2, <2>3, OtherOk
<1> QED
  BY <1>8, <1>9, <1>10, <1>12, <1>13 DEF CacheInv, AllOk

LEMMA CheckCleanupInv ==
    ASSUME CacheInv, NEW t \in Threads, CheckCleanup(t)
    PROVE  CacheInv'
<1>1. Types /\ Requests /\ RequestOk(t) /\ TableMatchesQueue /\ SizeExact /\ \A p \in Objects : ObjectOk(p)
  BY DEF CacheInv, Requests, AllOk
<1> DEFINE n == Len(held[t])
<1>2. /\ held[t] \in Seq(Objects) /\ n > 0 /\ n \in Nat /\ n <= 2 /\ pc[t] = "check" /\ atomics
      /\ DOMAIN held[t] = 1..n
  BY <1>1 DEF CheckCleanup, RequestOk, Types, ThreadTypes
<1>3. PICK o \in Objects : o = held[t][n]
  <2>1. n \in 1..n
    <3> HIDE DEF n
    <3> QED
      BY <1>2
  <2> QED
    BY <1>2, <2>1, ElementOfSeq
<1>4. /\ IF cleanup[o] THEN heap' = FreedHeap({o}) ELSE heap' = heap
      /\ pc' = [pc EXCEPT ![t] = "end"] /\ held' = [held EXCEPT ![t] = Front(@)]
      /\ handle' = [handle EXCEPT ![t] = NoObj]
      /\ UNCHANGED <<key, refcount, cleanup, complete, m_len, queue, table, current_size, atomics, url>>
  BY <1>3 DEF CheckCleanup, Goto, cacheVars, Last
<1>5. ThreadTypes' /\ Others(t) /\ Requests' /\ pc'[t] = "end" /\ held'[t] = Front(held[t])
  BY <1>1, <1>2, <1>4, FrontThreads
<1>6. /\ heap' \in [Objects -> {"free", "live", "twice"}]
      /\ \A p \in Objects \ {o} : heap'[p] = heap[p]
      /\ cleanup[o] => heap'[o] # "live"
      /\ ~cleanup[o] => heap'[o] = heap[o]
  <2>1. CASE cleanup[o]
    BY <1>1, <1>4, <2>1, FreedFacts DEF Types
  <2>2. CASE ~cleanup[o]
    BY <1>1, <1>4, <2>2 DEF Types, ObjectTypes
  <2> QED
    BY <2>1, <2>2
<1>7. Types'
  BY <1>1, <1>4, <1>5, <1>6 DEF Types, ObjectTypes, CacheTypes
<1>8. TableMatchesQueue' /\ SizeExact'
  BY <1>1, <1>4, CacheKept
<1>9. \A p : \A i \in 0..2 : Refers(t, i, p)' <=> Refers(t, i, p)
  <2>1. Front(held[t]) \in Seq(Objects) /\ Len(Front(held[t])) = n - 1
        /\ \A i \in 1..n - 1 : Front(held[t])[i] = held[t][i]
    BY <1>2, FrontFacts
  <2>2. DOMAIN Front(held[t]) = 1..(n - 1)
    BY <2>1
  <2>3. ASSUME NEW p, NEW i \in 0..2
        PROVE  Refers(t, i, p)' <=> Refers(t, i, p)
    <3>1. Refers(t, i, p)' <=> i # 0 /\ i \in DOMAIN Front(held[t]) /\ Front(held[t])[i] = p
      BY <1>5 DEF Refers
    <3>2. Refers(t, i, p) <=> i # 0 /\ i \in 1..n /\ held[t][i] = p /\ i # n
      BY <1>2 DEF Refers
    <3>3. i \in 1..(n - 1) <=> i # 0 /\ i \in 1..n /\ i # n
      <4> HIDE DEF n
      <4> QED
        BY <1>2
    <3> QED
      BY <2>1, <2>2, <3>1, <3>2, <3>3
  <2> QED
    BY <2>3
<1>10. \A p \in Objects : References(p)' = References(p)
  BY <1>5, <1>9, RefsKept
<1>11. Checked(o)
  BY <1>2, <1>3 DEF Checked
<1>12. ObjectOk(o)'
  <2>1. ObjectOk(o) /\ References(o)' = References(o)
    BY <1>1, <1>10
  <2>2. refcount'[o] = refcount[o] /\ atomics' /\ cleanup'[o] = cleanup[o] /\ (o \in queue' <=> o \in queue)
    BY <1>2, <1>4
  <2> QED
    BY <1>6, <1>11, <2>1, <2>2 DEF ObjectOk, Claimed
<1>13. ASSUME NEW p \in Objects, p # o
       PROVE  ObjectOk(p)'
  <2>1. /\ UNCHANGED atomics /\ heap'[p] = heap[p] /\ refcount'[p] = refcount[p]
        /\ cleanup'[p] = cleanup[p] /\ (p \in queue' <=> p \in queue)
    BY <1>4, <1>6, <1>13
  <2>2. Checked(p)' <=> Checked(p)
    BY <1>3, <1>5, <1>13 DEF Checked, Others
  <2> QED
    BY <1>1, <1>10, <2>1, <2>2, OtherOk
<1> QED
  BY <1>5, <1>7, <1>8, <1>12, <1>13 DEF CacheInv, AllOk

\* An entry that has been ejected is marked, and freed if nobody refers to it.
LEMMA EjectedOk ==
    ASSUME NEW e, ObjectOk(e), e \in queue, e \notin queue', cleanup'[e], UNCHANGED atomics,
           heap'[e] = IF refcount[e] = 0 THEN (IF heap[e] = "live" THEN "free" ELSE "twice") ELSE heap[e],
           refcount'[e] = refcount[e], References(e)' = References(e)
    PROVE  ObjectOk(e)'
<1>1. IsFiniteSet(References(e))
  BY DEF ObjectOk
<1>2. Cardinality(References(e)) = 0 <=> References(e) = {}
  BY <1>1, FS_EmptySet
<1> QED
  BY <1>1, <1>2 DEF ObjectOk, Claimed

LEMMA CreateEntityInv ==
    ASSUME CacheInv, NEW t \in Threads, CreateEntity(t)
    PROVE  CacheInv'
<1>1. Types /\ Requests /\ RequestOk(t) /\ TableMatchesQueue /\ SizeExact /\ \A p \in Objects : ObjectOk(p)
  BY DEF CacheInv, Requests, AllOk
<1>2. PICK o \in Objects, len \in Lens :
        /\ heap[o] = "free" /\ ~Referenced(o)
        /\ \E E \in Ejectable(queue, current_size, len) :
            /\ heap' = [FreedHeap(Unreferenced(E)) EXCEPT ![o] = "live"]
            /\ cleanup' = [Marked(E) EXCEPT ![o] = FALSE]
            /\ Insert(o, url[t], len, queue, table, current_size, E)
        /\ key' = [key EXCEPT ![o] = url[t]] /\ refcount' = [refcount EXCEPT ![o] = 1]
        /\ complete' = [complete EXCEPT ![o] = FALSE] /\ m_len' = [m_len EXCEPT ![o] = len]
        /\ handle' = [handle EXCEPT ![t] = o] /\ held' = [held EXCEPT ![t] = Append(@, o)]
  BY DEF CreateEntity
<1>3. PICK E \in Ejectable(queue, current_size, len) :
        /\ heap' = [FreedHeap(Unreferenced(E)) EXCEPT ![o] = "live"]
        /\ cleanup' = [Marked(E) EXCEPT ![o] = FALSE]
        /\ Insert(o, url[t], len, queue, table, current_size, E)
  BY <1>2
<1>4. /\ pc[t] \in {"create", "respond"} /\ table[url[t]] = NoObj /\ pc' = [pc EXCEPT ![t] = "write"]
      /\ UNCHANGED <<atomics, url>>
  BY DEF CreateEntity, Goto
<1>5. len \in 0..MaxSize /\ url[t] \in Keys
  BY <1>1, LensFit DEF Types, ThreadTypes
<1>6. /\ E \in SUBSET queue /\ Cardinality(queue \ E) < MaxCount
      /\ SizeOf(queue \ E, m_len) + len <= MaxSize
      /\ SizeOf(queue \ E, m_len) = current_size - SizeOf(E, m_len)
  <2>1. IsFiniteSet(queue) /\ current_size = SizeOf(queue, m_len)
    BY <1>1 DEF Types, CacheTypes, SizeExact
  <2>2. E \in SUBSET queue /\ Fits(queue \ E, current_size - SizeOf(E, m_len), len)
    BY DEF Ejectable
  <2>3. SizeOf(queue \ E, m_len) = SizeOf(queue, m_len) - SizeOf(E, m_len)
    BY <2>1, <2>2, SizeDiff
  <2> QED
    BY <2>1, <2>2, <2>3 DEF Fits
<1>7. /\ queue' = (queue \ E) \union {o} /\ table' = [Forget(table, E) EXCEPT ![url[t]] = o]
      /\ current_size' = SizeOf(queue \ E, m_len) + len
  BY <1>3, <1>6 DEF Insert
<1>8. o \notin queue /\ o \notin E /\ References(o) = {} /\ ~Checked(o)
  <2>1. \A t2 \in Threads : o \notin Range(held[t2]) /\ o # handle[t2]
    BY <1>2 DEF Referenced
  <2>2. \A t2 \in Threads : \A i \in DOMAIN held[t2] : held[t2][i] # o
    BY <2>1 DEF Range
  <2>3. References(o) = {}
    BY <2>1, <2>2 DEF References, Refers
  <2>4. ~Checked(o)
    <3>1. ASSUME NEW t2 \in Threads, pc[t2] = "check"
          PROVE  Len(held[t2]) \in DOMAIN held[t2]
      BY <1>1, <3>1 DEF Types, ThreadTypes, Requests, RequestOk
    <3> QED
      BY <2>2, <3>1 DEF Checked
  <2> QED
    BY <1>2, <1>6, <2>3, <2>4 DEF Referenced
<1>9. /\ \A p \in Objects : m_len'[p] = IF p = o THEN len ELSE m_len[p]
      /\ \A p \in Objects : key'[p] = IF p = o THEN url[t] ELSE key[p]
      /\ \A p \in Objects : refcount'[p] = IF p = o THEN 1 ELSE refcount[p]
      /\ \A p \in Objects : cleanup'[p] = (p # o /\ (p \in E \/ cleanup[p]))
  BY <1>1, <1>2, <1>3 DEF Types, ObjectTypes, Marked
<1>10. /\ heap' \in [Objects -> {"free", "live", "twice"}] /\ heap'[o] = "live"
       /\ \A p \in Objects \ {o} : heap'[p] = IF p \in E /\ refcount[p] = 0
                                              THEN (IF heap[p] = "live" THEN "free" ELSE "twice") ELSE heap[p]
  <2>1. /\ FreedHeap(Unreferenced(E)) \in [Objects -> {"free", "live", "twice"}]
        /\ \A p \in Objects : FreedHeap(Unreferenced(E))[p] =
               IF p \in Unreferenced(E) THEN (IF heap[p] = "live" THEN "free" ELSE "twice") ELSE heap[p]
    BY <1>1, FreedFacts DEF Types
  <2>2. \A p : p \in Unreferenced(E) <=> p \in E /\ refcount[p] = 0
    BY DEF Unreferenced
  <2> QED
    BY <1>3, <2>1, <2>2
<1>11. ObjectTypes'
  <2>1. key' \in [Objects -> Keys] /\ refcount' \in [Objects -> Int] /\ complete' \in [Objects -> BOOLEAN]
    BY <1>1, <1>2, <1>5 DEF Types, ObjectTypes
  <2>2. m_len' \in [Objects -> 0..MaxSize]
    BY <1>1, <1>2, <1>5 DEF Types, ObjectTypes
  <2>3. cleanup' \in [Objects -> BOOLEAN]
    BY <1>1, <1>3 DEF Types, ObjectTypes, Marked
  <2> QED
    BY <1>10, <2>1, <2>2, <2>3 DEF ObjectTypes
<1>12. CacheTypes'
  <2>1. queue' \in SUBSET Objects /\ IsFiniteSet(queue')
    <3>1. IsFiniteSet(queue \ E)
      BY <1>1, FS_Difference DEF Types, CacheTypes
    <3> QED
      BY <1>1, <1>7, <3>1, FS_AddElement DEF Types, CacheTypes
  <2>2. table' \in [Keys -> Objects \union {NoObj}]
    BY <1>1, <1>7 DEF Types, CacheTypes, Forget
  <2>3. current_size' \in Int
    <3>1. IsFiniteSet(queue \ E)
      BY <1>1, FS_Difference DEF Types, CacheTypes
    <3>2. SizeOf(queue \ E, m_len) \in Nat
      BY <3>1, SizeType
    <3> QED
      BY <1>5, <1>7, <3>2
  <2> QED
    BY <2>1, <2>2, <2>3 DEF CacheTypes
<1>13. held[t] \in Seq(Objects) /\ Len(held[t]) \in 0..1 /\ DOMAIN held[t] = 1..Len(held[t])
  <2>1. held[t] \in Seq(Objects) /\ Len(held[t]) <= 1
    BY <1>1, <1>4 DEF Types, ThreadTypes, RequestOk
  <2>2. Len(held[t]) \in Nat /\ DOMAIN held[t] = 1..Len(held[t])
    BY <2>1
  <2>3. \A m \in Nat : m <= 1 => m \in 0..1
    OBVIOUS
  <2> QED
    BY <2>1, <2>2, <2>3
<1>14. PICK n \in 1..2 : n = Len(held[t]) + 1
  <2>1. \A m \in 0..1 : m + 1 \in 1..2
    OBVIOUS
  <2> QED
    BY <1>13, <2>1
<1>15. /\ Append(held[t], o) \in Seq(Objects) /\ Len(Append(held[t], o)) = n
       /\ \A i \in 1..n - 1 : Append(held[t], o)[i] = held[t][i]
       /\ Append(held[t], o)[n] = o
  <2>1. n - 1 = Len(held[t])
    BY <1>13, <1>14
  <2> QED
    BY <1>13, <1>14, <2>1, AppendProperties
<1>16. DOMAIN Append(held[t], o) = 1..n
  BY <1>15
<1>17. /\ pc'[t] = "write" /\ handle'[t] = o /\ held'[t] = Append(held[t], o) /\ Others(t)
  BY <1>1, <1>2, <1>4 DEF Types, ThreadTypes, Others
<1>18. ThreadTypes'
  <2>1. held' \in [Threads -> Seq(Objects)]
    BY <1>1, <1>2, <1>15 DEF Types, ThreadTypes
  <2>2. pc' \in [Threads -> PCs] /\ handle' \in [Threads -> Objects \union {NoObj}]
    BY <1>1, <1>2, <1>4 DEF Types, ThreadTypes, PCs
  <2> QED
    BY <1>1, <1>4, <2>1, <2>2 DEF Types, ThreadTypes
<1>19. Requests'
  <2>1. Len(held'[t]) = n /\ held'[t][n] = o /\ n \in 1..n /\ n <= 2 /\ n > 0
    BY <1>15, <1>17
  <2>2. RequestOk(t)'
    BY <1>17, <2>1 DEF RequestOk
  <2> QED
    BY <1>1, <1>17, <2>2, RequestsKept
<1>20. TableMatchesQueue' /\ SizeExact'
  <2>1. Types'
    BY <1>11, <1>12, <1>18 DEF Types
  <2>2. key'[o] = url[t] /\ table'[url[t]] = o /\ m_len'[o] = len /\ o \notin queue \ E
    BY <1>1, <1>5, <1>7, <1>8, <1>9 DEF Types, CacheTypes, Forget
  <2>3. \A k2 \in Keys \ {url[t]} : table'[k2] = IF \E d \in E : key[d] = k2 THEN NoObj ELSE table[k2]
    BY <1>7 DEF Forget
  <2>4. \A e \in queue \ E : key[e] # url[t] /\ key'[e] = key[e] /\ m_len'[e] = m_len[e]
    <3>1. \A e \in queue : e \in Objects /\ e # o /\ e # NoObj /\ table[key[e]] = e
      BY <1>1, <1>8, NoObjOutside DEF Types, CacheTypes, TableMatchesQueue
    <3> QED
      BY <1>4, <1>9, <3>1
  <2>5. PICK k \in Keys : k = url[t]
    BY <1>5
  <2>6. Exchanged(E, o, k)
    BY <1>6, <1>7, <2>2, <2>3, <2>4, <2>5 DEF Exchanged
  <2> QED
    BY <1>1, <1>6, <2>1, <2>6, Inserted
<1>21. \A p \in Objects : \A i \in 0..2 : Refers(t, i, p)' <=> Refers(t, i, p) \/ (p = o /\ i = n)
  <2> SUFFICES ASSUME NEW p \in Objects, NEW i \in 0..2
               PROVE  Refers(t, i, p)' <=> Refers(t, i, p) \/ (p = o /\ i = n)
    OBVIOUS
  <2>1. Refers(t, i, p)' <=> i # 0 /\ i \in 1..n /\ Append(held[t], o)[i] = p
    BY <1>16, <1>17 DEF Refers
  <2>2. Refers(t, i, p) <=> i # 0 /\ i \in 1..(n - 1) /\ held[t][i] = p
    <3>1. DOMAIN held[t] = 1..(n - 1) /\ pc[t] \notin {"check", "urldrop"}
      BY <1>4, <1>13, <1>14
    <3> QED
      BY <3>1 DEF Refers
  <2>3. i \in 1..n <=> i \in 1..(n - 1) \/ i = n
    BY <1>14
  <2> QED
    BY <1>14, <1>15, <2>1, <2>2, <2>3
<1>22. \A p \in Objects : Checked(p)' <=> Checked(p)
  BY <1>4, <1>17, CheckedKept
<1>23. ObjectOk(o)'
  <2>1. IsFiniteSet(References(o)) /\ Cardinality(References(o)) = 0
    BY <1>8, FS_EmptySet
  <2>2. ~Refers(t, n, o)
    <3>1. ASSUME Refers(t, n, o)
          PROVE  <<t, n>> \in References(o)
      BY <1>14, <3>1 DEF References
    <3> QED
      BY <1>8, <3>1
  <2>3. n \in 0..2 /\ Refers(t, n, o)' /\ \A i \in (0..2) \ {n} : Refers(t, i, o)' <=> Refers(t, i, o)
    BY <1>14, <1>21
  <2>4. IsFiniteSet(References(o)') /\ Cardinality(References(o)') = 1
    BY <1>17, <2>1, <2>2, <2>3, RefsAdd
  <2>5. o \in queue' /\ ~cleanup'[o] /\ refcount'[o] = 1
    BY <1>7, <1>9
  <2> QED
    BY <1>10, <2>4, <2>5 DEF ObjectOk
<1>24. ASSUME NEW p \in Objects, p # o
       PROVE  ObjectOk(p)'
  <2>1. References(p)' = References(p)
    BY <1>17, <1>21, <1>24, RefsKept
  <2>2. refcount'[p] = refcount[p] /\ cleanup'[p] = (p \in E \/ cleanup[p]) /\ atomics' = atomics
        /\ (p \in queue' <=> p \in queue /\ p \notin E)
        /\ heap'[p] = IF p \in E /\ refcount[p] = 0
                      THEN (IF heap[p] = "live" THEN "free" ELSE "twice") ELSE heap[p]
    BY <1>4, <1>7, <1>9, <1>10, <1>24
  <2>3. CASE p \in E
    BY <1>1, <1>6, <2>1, <2>2, <2>3, EjectedOk
  <2>4. CASE p \notin E
    <3>1. /\ UNCHANGED atomics /\ heap'[p] = heap[p] /\ refcount'[p] = refcount[p]
          /\ cleanup'[p] = cleanup[p] /\ (p \in queue' <=> p \in queue)
      BY <1>1, <2>2, <2>4 DEF Types, ObjectTypes
    <3> QED
      BY <1>1, <1>22, <2>1, <3>1, OtherOk
  <2> QED
    BY <2>3, <2>4
<1> QED
  BY <1>11, <1>12, <1>18, <1>19, <1>20, <1>23, <1>24 DEF CacheInv, Types, AllOk

LEMMA CorrectSizeInv ==
    ASSUME CacheInv, NEW t \in Threads, CorrectSize(t)
    PROVE  CacheInv'
<1>1. Types /\ Requests /\ RequestOk(t) /\ TableMatchesQueue /\ SizeExact /\ \A p \in Objects : ObjectOk(p)
  BY DEF CacheInv, Requests, AllOk
<1>2. /\ pc[t] = "write" /\ pc' = [pc EXCEPT ![t] = "written"]
      /\ UNCHANGED <<key, refcount, complete, atomics, url, handle, held>>
  BY DEF CorrectSize, Goto
<1>3. Len(held[t]) > 0 /\ handle[t] = held[t][Len(held[t])]
  BY <1>1, <1>2 DEF RequestOk
<1>4. PICK o \in Objects : o = handle[t] /\ References(o) # {}
  BY <1>1, <1>2, <1>3, LastReferred
<1>5. key[o] \in Keys
  BY <1>1 DEF Types, ObjectTypes
<1>6. PICK k \in Keys : k = key[o]
  BY <1>5
<1> DEFINE other == table[k]
           Out == IF cleanup[o] THEN {other} \ {NoObj} ELSE {o}
           Marks == Out \ {o}
           Q == queue \ Out
           size == current_size - SizeOf(Out, m_len)
<1>7. PICK count \in Lens :
        /\ count < m_len[o] /\ m_len' = [m_len EXCEPT ![o] = count]
        /\ \E E \in Ejectable(Q, size, count) :
            /\ heap' = FreedHeap(Unreferenced(E \union Marks))
            /\ cleanup' = [Marked(E \union Marks) EXCEPT ![o] = FALSE]
            /\ Insert(o, k, count, Q, Forget(table, Out), size, E)
  BY <1>4, <1>6 DEF CorrectSize
<1>8. PICK E \in Ejectable(Q, size, count) :
        /\ heap' = FreedHeap(Unreferenced(E \union Marks))
        /\ cleanup' = [Marked(E \union Marks) EXCEPT ![o] = FALSE]
        /\ Insert(o, k, count, Q, Forget(table, Out), size, E)
  BY <1>7
<1>9. /\ Out \in SUBSET queue /\ o \notin Q
      /\ \A d \in Out : key[d] = k
      /\ \A e \in Q : e \in Objects /\ key[e] # k
  <2>1. o \in queue <=> ~cleanup[o]
    BY <1>1, <1>4 DEF ObjectOk, Claimed
  <2>2. \A e \in queue : e \in Objects /\ e # NoObj /\ table[key[e]] = e
    BY <1>1, NoObjOutside DEF Types, CacheTypes, TableMatchesQueue
  <2>3. other # NoObj => other \in queue /\ key[other] = k
    BY <1>1 DEF TableMatchesQueue
  <2>4. CASE cleanup[o]
    BY <2>1, <2>2, <2>3, <2>4
  <2>5. CASE ~cleanup[o]
    BY <1>6, <2>1, <2>2, <2>5
  <2> QED
    BY <2>4, <2>5
<1>10. PICK out \in SUBSET queue : out = Out
  BY <1>9
<1>11. PICK q \in SUBSET queue : q = queue \ out /\ q = Q /\ IsFiniteSet(q)
  <2>1. IsFiniteSet(queue \ out)
    BY <1>1, FS_Difference DEF Types, CacheTypes
  <2> QED
    BY <1>10, <2>1
<1> HIDE DEF Out
<1>12. count \in 0..MaxSize
  BY LensFit
<1>13. /\ E \in SUBSET q /\ Cardinality(q \ E) < MaxCount
       /\ SizeOf(q \ E, m_len) + count <= MaxSize
       /\ SizeOf(q \ E, m_len) = size - SizeOf(E, m_len)
  <2>1. IsFiniteSet(queue) /\ current_size = SizeOf(queue, m_len)
    BY <1>1 DEF Types, CacheTypes, SizeExact
  <2>2. SizeOf(queue \ out, m_len) = SizeOf(queue, m_len) - SizeOf(out, m_len)
    BY <2>1, SizeDiff
  <2>3. size = SizeOf(q, m_len)
    BY <1>10, <1>11, <2>1, <2>2
  <2>4. E \in SUBSET q /\ Fits(q \ E, size - SizeOf(E, m_len), count)
    BY <1>11 DEF Ejectable
  <2>5. SizeOf(q \ E, m_len) = SizeOf(q, m_len) - SizeOf(E, m_len)
    BY <1>11, <2>4, SizeDiff
  <2> HIDE DEF size
  <2> QED
    BY <2>3, <2>4, <2>5 DEF Fits
<1>14. PICK D \in SUBSET queue : D = E \union out /\ queue \ D = q \ E
  <2>1. E \union out \in SUBSET queue /\ queue \ (E \union out) = q \ E
    BY <1>11, <1>13
  <2> QED
    BY <2>1
<1>15. \A e \in Objects : e \in E \union Marks <=> e \in D /\ e # o
  BY <1>9, <1>10, <1>11, <1>13, <1>14
<1>16. /\ queue' = (queue \ D) \union {o} /\ table' = [Forget(Forget(table, out), E) EXCEPT ![k] = o]
       /\ current_size' = SizeOf(queue \ D, m_len) + count
  BY <1>8, <1>10, <1>11, <1>13, <1>14 DEF Insert
<1>17. /\ \A p \in Objects : m_len'[p] = IF p = o THEN count ELSE m_len[p]
       /\ \A p \in Objects : cleanup'[p] = (p # o /\ (p \in D \/ cleanup[p]))
  <2>1. \A p \in Objects : m_len'[p] = IF p = o THEN count ELSE m_len[p]
    BY <1>1, <1>7 DEF Types, ObjectTypes
  <2> DEFINE M == Marked(E \union Marks)
  <2>2. M \in [Objects -> BOOLEAN] /\ \A p \in Objects : M[p] = ((p \in D /\ p # o) \/ cleanup[p])
    BY <1>1, <1>15 DEF Marked, Types, ObjectTypes
  <2>3. cleanup' = [M EXCEPT ![o] = FALSE]
    BY <1>8
  <2> HIDE DEF M
  <2>4. \A p \in Objects : cleanup'[p] = (p # o /\ (p \in D \/ cleanup[p]))
    BY <2>2, <2>3
  <2> QED
    BY <2>1, <2>4
<1>18. /\ heap' \in [Objects -> {"free", "live", "twice"}] /\ heap'[o] = heap[o]
       /\ \A p \in Objects \ {o} : heap'[p] = IF p \in D /\ refcount[p] = 0
                                              THEN (IF heap[p] = "live" THEN "free" ELSE "twice") ELSE heap[p]
  <2> DEFINE S == Unreferenced(E \union Marks)
  <2>1. /\ FreedHeap(S) \in [Objects -> {"free", "live", "twice"}]
        /\ \A p \in Objects : FreedHeap(S)[p] =
               IF p \in S THEN (IF heap[p] = "live" THEN "free" ELSE "twice") ELSE heap[p]
    BY <1>1, FreedFacts DEF Types
  <2>2. \A p \in Objects : p \in S <=> p \in D /\ p # o /\ refcount[p] = 0
    BY <1>15 DEF Unreferenced
  <2>3. heap' = FreedHeap(S)
    BY <1>8
  <2> HIDE DEF S
  <2> QED
    BY <2>1, <2>2, <2>3
<1>19. ObjectTypes'
  <2>1. m_len' \in [Objects -> 0..MaxSize]
    BY <1>1, <1>7, <1>12 DEF Types, ObjectTypes
  <2>2. cleanup' \in [Objects -> BOOLEAN]
    BY <1>8 DEF Marked
  <2> QED
    BY <1>1, <1>2, <1>18, <2>1, <2>2 DEF Types, ObjectTypes
<1>20. CacheTypes'
  <2>1. IsFiniteSet(queue \ D)
    BY <1>1, FS_Difference DEF Types, CacheTypes
  <2>2. queue' \in SUBSET Objects /\ IsFiniteSet(queue')
    BY <1>1, <1>16, <2>1, FS_AddElement DEF Types, CacheTypes
  <2>3. table' \in [Keys -> Objects \union {NoObj}]
    BY <1>1, <1>16 DEF Types, CacheTypes, Forget
  <2>4. current_size' \in Int
    <3>1. SizeOf(queue \ D, m_len) \in Nat
      BY <2>1, SizeType
    <3> QED
      BY <1>12, <1>16, <3>1
  <2> QED
    BY <2>2, <2>3, <2>4 DEF CacheTypes
<1>21. ThreadTypes' /\ Others(t) /\ pc'[t] = "written" /\ held'[t] = held[t] /\ handle'[t] = handle[t]
  BY <1>1, <1>2 DEF Types, ThreadTypes, PCs, Others
<1>22. Requests'
  <2>1. RequestOk(t)'
    BY <1>1, <1>2, <1>21 DEF RequestOk
  <2> QED
    BY <1>1, <1>21, <2>1, RequestsKept
<1>23. TableMatchesQueue' /\ SizeExact'
  <2>1. Types'
    BY <1>19, <1>20, <1>21 DEF Types
  <2>2. key'[o] = k /\ table'[k] = o /\ m_len'[o] = count /\ o \notin queue \ D
    <3>1. table'[k] = o
      BY <1>16 DEF Forget
    <3>2. o \notin queue \ D
      BY <1>9, <1>11, <1>14
    <3> QED
      BY <1>2, <1>6, <1>17, <3>1, <3>2
  <2>3. \A k2 \in Keys \ {k} : table'[k2] = IF \E d \in D : key[d] = k2 THEN NoObj ELSE table[k2]
    <3>1. \A k2 \in Keys \ {k} : ~\E d \in out : key[d] = k2
      BY <1>9, <1>10
    <3>2. ASSUME NEW k2 \in Keys \ {k}
          PROVE  table'[k2] = IF \E d \in D : key[d] = k2 THEN NoObj ELSE table[k2]
      <4>1. (\E d \in D : key[d] = k2) <=> \E d \in E : key[d] = k2
        BY <1>14, <3>1
      <4>2. table'[k2] = IF \E d \in E : key[d] = k2 THEN NoObj
                         ELSE IF \E d \in out : key[d] = k2 THEN NoObj ELSE table[k2]
        BY <1>16 DEF Forget
      <4> QED
        BY <3>1, <4>1, <4>2
    <3> QED
      BY <3>2
  <2>4. \A e \in queue \ D : key[e] # k /\ key'[e] = key[e] /\ m_len'[e] = m_len[e]
    <3>1. \A e \in queue \ D : e \in q
      BY <1>11, <1>14
    <3>2. \A e \in queue \ D : e \in Objects /\ key[e] # k /\ e # o
      BY <1>9, <1>11, <3>1
    <3> QED
      BY <1>2, <1>17, <3>2
  <2>5. Cardinality(queue \ D) < MaxCount /\ SizeOf(queue \ D, m_len) + m_len'[o] <= MaxSize
        /\ current_size' = SizeOf(queue \ D, m_len) + m_len'[o] /\ queue' = (queue \ D) \union {o}
    BY <1>13, <1>14, <1>16, <2>2
  <2>6. Exchanged(D, o, k)
    BY <2>2, <2>3, <2>4, <2>5 DEF Exchanged
  <2> QED
    BY <1>1, <2>1, <2>6, Inserted
<1>24. \A p \in Objects : References(p)' = References(p) /\ (Checked(p)' <=> Checked(p))
  BY <1>2, <1>21, QuietRefs
<1>25. ObjectOk(o)'
  <2>1. ObjectOk(o) /\ References(o)' = References(o)
    BY <1>1, <1>24
  <2>2. o \in queue' /\ ~cleanup'[o] /\ refcount'[o] = refcount[o] /\ heap'[o] = heap[o] /\ atomics' = atomics
    BY <1>2, <1>16, <1>17, <1>18
  <2> QED
    BY <1>4, <2>1, <2>2 DEF ObjectOk, Claimed
<1>26. ASSUME NEW p \in Objects, p # o
       PROVE  ObjectOk(p)'
  <2>1. refcount'[p] = refcount[p] /\ cleanup'[p] = (p \in D \/ cleanup[p]) /\ atomics' = atomics
        /\ (p \in queue' <=> p \in queue /\ p \notin D)
        /\ heap'[p] = IF p \in D /\ refcount[p] = 0
                      THEN (IF heap[p] = "live" THEN "free" ELSE "twice") ELSE heap[p]
    BY <1>2, <1>16, <1>17, <1>18, <1>26
  <2>2. CASE p \in D
    BY <1>1, <1>24, <2>1, <2>2, EjectedOk
  <2>3. CASE p \notin D
    <3>1. /\ UNCHANGED atomics /\ heap'[p] = heap[p] /\ refcount'[p] = refcount[p]
          /\ cleanup'[p] = cleanup[p] /\ (p \in queue' <=> p \in queue)
      BY <1>1, <2>1, <2>3 DEF Types, ObjectTypes
    <3> QED
      BY <1>1, <1>24, <3>1, OtherOk
  <2> QED
    BY <2>2, <2>3
<1> QED
  BY <1>19, <1>20, <1>21, <1>22, <1>23, <1>25, <1>26 DEF CacheInv, Types, AllOk

LEMMA CacheNextInv ==
    ASSUME CacheInv, [Next]_vars
    PROVE  CacheInv'
<1>1. CASE UNCHANGED vars
  <2>1. UNCHANGED <<objectVars, cacheVars, atomics, threadVars>>
    BY <1>1 DEF vars
  <2>2. UNCHANGED <<heap, key, refcount, cleanup, complete, m_len, queue, table, current_size, atomics,
                    pc, url, handle, held>>
    BY <2>1 DEF objectVars, cacheVars, threadVars
  <2>3. Types' /\ Requests'
    BY <2>2 DEF CacheInv, Types, ObjectTypes, CacheTypes, ThreadTypes, Requests, RequestOk
  <2>4. TableMatchesQueue' /\ SizeExact'
    BY <2>2, CacheKept DEF CacheInv
  <2>5. AllOk'
    <3>1. \A o : \A t \in Threads, i \in 0..2 : Refers(t, i, o)' <=> Refers(t, i, o)
      BY <2>2 DEF Refers
    <3>2. \A o : References(o)' = References(o)
      BY <3>1, Zenon DEF References
    <3>3. \A o : Checked(o)' <=> Checked(o)
      BY <2>2 DEF Checked
    <3>4. ASSUME NEW o \in Objects
          PROVE  ObjectOk(o)'
      BY <2>2, <3>2, <3>3, OtherOk DEF CacheInv, AllOk
    <3> QED
      BY <3>4 DEF AllOk
  <2> QED
    BY <2>3, <2>4, <2>5 DEF CacheInv
<1>2. ASSUME NEW t \in Threads, OpenEntity(t) \/ NoStore(t) \/ Answer(t) \/ Finish(t)
      PROVE  CacheInv'
  <2>1. CASE NoStore(t)
    BY <2>1, RemoveUrlInv DEF NoStore
  <2>2. CASE Uncacheable(t)
    <3>1. url[t] \in Keys /\ pc[t] = "respond" /\ RemoveUrl(t, url[t])
      BY <2>2 DEF Uncacheable, CacheInv, Types, ThreadTypes
    <3> QED
      BY <3>1, RemoveUrlInv
  <2>3. CASE OpenEntity(t) \/ RemoveUrlDrop(t) \/ RemoveEntity(t) \/ CreateEntity(t) \/ CorrectSize(t)
    BY <2>3, OpenEntityInv, RemoveUrlDropInv, RemoveEntityInv, CreateEntityInv, CorrectSizeInv
  <2>4. CASE Respond(t) \/ CreateDeclined(t) \/ Complete(t) \/ WriteFails(t) \/ EndRequest(t)
    BY <2>4, ThreadAlone
  <2>5. CASE DropIncomplete(t) \/ Drop(t) \/ DropLocked(t) \/ CheckCleanup(t)
    BY <2>5, DropIncompleteInv, DropInv, CheckCleanupInv
  <2> QED
    BY <1>2, <2>1, <2>2, <2>3, <2>4, <2>5 DEF Answer, Finish
<1> QED
  BY <1>1, <1>2 DEF Next

\* The table and the queue of the cache hold the same entries, a key once, the
\* cleanup flag tells of a live object whether it has left them, and the size of
\* the cache is that of its entries and within its limits, also when entries
\* change their size, are ejected or removed in between.
THEOREM CacheConsistentInvariant == Spec => []CacheConsistent
<1>1. CacheInv => CacheConsistent
  <2> SUFFICES ASSUME CacheInv PROVE CacheConsistent
    OBVIOUS
  <2>1. CleanupNotCached
    BY DEF CacheInv, AllOk, ObjectOk, CleanupNotCached
  <2> QED
    BY <2>1 DEF CacheInv, CacheConsistent
<1> QED
  BY <1>1, CacheInitInv, CacheNextInv, PTL DEF Spec

\* The count of a live object is the number of references to it, and it lives only
\* as long as the cache has it or a request will give a reference back.
THEOREM ReferencesExactInvariant == Spec => []ReferencesExact
<1>1. CacheInv => ReferencesExact
  <2> SUFFICES ASSUME CacheInv PROVE ReferencesExact
    OBVIOUS
  <2>1. RefcountExact
    BY DEF CacheInv, AllOk, ObjectOk, RefcountExact
  <2>2. ASSUME NEW o \in Objects, heap[o] = "live", o \notin queue
        PROVE  \E t \in Threads : o \in Range(held[t]) \/ (pc[t] = "urldrop" /\ o = handle[t])
    <3>1. Claimed(o)
      BY <2>2 DEF CacheInv, AllOk, ObjectOk
    <3>2. CASE Checked(o)
      <4>1. PICK t \in Threads : pc[t] = "check" /\ held[t][Len(held[t])] = o
        BY <3>2 DEF Checked
      <4>2. Len(held[t]) \in DOMAIN held[t]
        BY <4>1 DEF CacheInv, Types, ThreadTypes, Requests, RequestOk
      <4> QED
        BY <4>1, <4>2 DEF Range
    <3>3. CASE References(o) # {}
      <4>1. PICK t \in Threads, i \in 0..2 : Refers(t, i, o)
        BY <3>3 DEF References
      <4> QED
        BY <4>1 DEF Refers, Range
    <3> QED
      BY <3>1, <3>2, <3>3 DEF Claimed
  <2>3. NotLeaked
    BY <2>2 DEF NotLeaked
  <2> QED
    BY <2>1, <2>3 DEF ReferencesExact
<1> QED
  BY <1>1, CacheInitInv, CacheNextInv, PTL DEF Spec

\* Where the counts are changed under the lock, an object is freed once and not
\* before the cache and all requests have let go of it.
THEOREM HeldLiveInvariant == Spec => []HeldLive
<1>1. CacheInv => HeldLive
  <2> SUFFICES ASSUME CacheInv, ~atomics
               PROVE  /\ \A t \in Threads : \A o \in Owned(t) : heap[o] = "live"
                      /\ \A o \in queue : heap[o] = "live"
                      /\ \A o \in Objects : heap[o] # "twice"
    BY DEF HeldLive
  <2>1. \A o \in Objects : heap[o] # "twice" /\ (o \in queue \/ References(o) # {} => heap[o] = "live")
    BY DEF CacheInv, AllOk, ObjectOk
  <2>2. queue \subseteq Objects
    BY DEF CacheInv, Types, CacheTypes
  <2>3. ASSUME NEW t \in Threads, NEW o \in Owned(t)
        PROVE  o \in Objects /\ References(o) # {}
    <3>1. pc[t] \notin {"check", "urldrop"} /\ held[t] \in Seq(Objects) /\ Len(held[t]) <= 2
      BY DEF CacheInv, Types, ThreadTypes, Requests, RequestOk
    <3>2. PICK i \in DOMAIN held[t] : held[t][i] = o
      BY <3>1 DEF Owned, Range
    <3>3. i \in 0..2 /\ o \in Objects /\ i # 0
      BY <3>1, <3>2
    <3>4. Refers(t, i, o)
      BY <3>1, <3>2, <3>3 DEF Refers
    <3>5. <<t, i>> \in References(o)
      BY <3>3, <3>4 DEF References
    <3> QED
      BY <3>3, <3>5
  <2> QED
    BY <2>1, <2>2, <2>3
<1> QED
  BY <1>1, CacheInitInv, CacheNextInv, PTL DEF Spec
-----------------------------------------------------------------------------
(***************************************************************************)
(* WorkerMPM.                                                              *)
(***************************************************************************)
ListenerPCs == {"top", "wait", "asleep", "woken", "idler", "accept", "enter", "blocked",
                "push", "term", "interrupt", "kill", "done"}
WorkerPCs == {"top", "setidle", "check", "pop", "asleep", "awake", "empty", "serve", "done"}

WorkerTypes ==
    /\ idlers \in Int /\ infoTerminated \in BOOLEAN
    /\ worker_queue \in Seq(Conns) /\ queueTerminated \in BOOLEAN
    /\ workers_may_exit \in BOOLEAN
    /\ terminate_mode \in {"init", "graceful", "ungraceful"}
    /\ lpc \in ListenerPCs /\ have_idle_worker \in BOOLEAN
    /\ csd \in Conns \union {NoConn} /\ (lpc = "push" => csd \in Conns)
    /\ wpc \in [Workers -> WorkerPCs] /\ is_idle \in [Workers -> BOOLEAN]

\* From the moment it has taken an idle worker until it hands it a connection the
\* listener remembers so, also when accept() fails.
Reserves ==
    /\ lpc \in {"wait", "asleep", "woken", "idler"} => ~have_idle_worker
    /\ lpc \in {"accept", "enter", "blocked", "push"} => have_idle_worker

\* A worker calls itself idle while it is in worker_pop.
Idling ==
    \A w \in Workers :
        /\ wpc[w] \in {"check", "pop", "asleep", "awake", "empty"} => is_idle[w]
        /\ wpc[w] = "setidle" => ~is_idle[w]

\* The queue is terminated by the last steps of the listener, and workers end only
\* after that, or when they are told to.
Ending ==
    /\ queueTerminated <=> lpc \in {"interrupt", "kill", "done"}
    /\ mpc = "interrupt" => workers_may_exit
    /\ \A w \in Workers : wpc[w] = "done" => queueTerminated \/ workers_may_exit

\* A worker that will try to pop before it sleeps or ends.
Active(w) == wpc[w] \in {"top", "setidle", "check", "pop", "awake", "serve"}

\* Where waits end by a signal: somebody will look at a queue that is not empty;
\* and as long as connections may come, an empty queue has somebody beside those
\* that were woken for a connection which another worker has taken.
Attended ==
    ~spurious /\ ~workers_may_exit =>
        /\ worker_queue # <<>> => \E w \in Workers : Active(w)
        /\ worker_queue = <<>> /\ ~queueTerminated =>
              \E w \in Workers : wpc[w] \notin {"awake", "empty"}

WorkerInv == WorkerTypes /\ Reserves /\ Idling /\ Ending /\ Attended /\ IdlersExact
-----------------------------------------------------------------------------
\* The workers that call themselves idle are finitely many.
IdleWorkers == {w \in Workers : is_idle[w]}

LEMMA IdleFinite == IsFiniteSet(IdleWorkers) /\ Cardinality(IdleWorkers) \in Nat
<1>1. IsFiniteSet(IdleWorkers)
  BY WorkersFinite, FS_Subset DEF IdleWorkers
<1> QED
  BY <1>1, FS_CardinalityType

\* The length of what is left of a queue.
LEMMA PrefixLength ==
    ASSUME NEW S, NEW s \in Seq(S), NEW n \in Nat, n <= Len(s)
    PROVE  Len(SubSeq(s, 1, n)) = n
<1>1. 1 \in Int /\ n \in Int /\ \A i \in 1..n : s[i] \in S
  OBVIOUS
<1>2. Len(SubSeq(s, 1, n)) = IF 1 <= n THEN n - 1 + 1 ELSE 0
  BY <1>1, SubSeqProperties
<1> QED
  BY <1>2

LEMMA WorkerInitInv == ChildInit => WorkerInv
<1> SUFFICES ASSUME ChildInit PROVE WorkerInv
  OBVIOUS
<1>1. WorkerTypes
  <2>1. <<>> \in Seq(Conns)
    OBVIOUS
  <2>2. wpc \in [Workers -> WorkerPCs] /\ is_idle \in [Workers -> BOOLEAN]
    BY DEF ChildInit, WorkerPCs
  <2>3. /\ infoTerminated \in BOOLEAN /\ queueTerminated \in BOOLEAN
        /\ workers_may_exit \in BOOLEAN /\ have_idle_worker \in BOOLEAN
    BY Zenon DEF ChildInit
  <2>4. /\ idlers \in Int /\ worker_queue = <<>> /\ csd \in Conns \union {NoConn}
        /\ terminate_mode \in {"init", "graceful", "ungraceful"}
        /\ lpc \in ListenerPCs /\ lpc # "push"
    BY DEF ChildInit, ListenerPCs
  <2> QED
    BY <2>1, <2>2, <2>3, <2>4, Zenon DEF WorkerTypes
<1>2. Reserves /\ Idling /\ Ending
  BY DEF ChildInit, Reserves, Idling, Ending
<1>3. Attended
  BY WorkersFinite DEF ChildInit, Attended
<1>4. IdlersExact
  <2>1. {w \in Workers : is_idle[w]} = {}
    BY DEF ChildInit
  <2>2. Cardinality({}) = 0 /\ Len(<<>>) = 0
    BY FS_EmptySet
  <2>3. idlers = 0 /\ Reserved = 0 /\ worker_queue = <<>>
    BY DEF ChildInit, Reserved
  <2>4. idlers + Reserved + Len(worker_queue) = 0
    BY <2>2, <2>3
  <2> QED
    BY <2>1, <2>2, <2>4, Zenon DEF IdlersExact
<1> QED
  BY <1>1, <1>2, <1>3, <1>4 DEF WorkerInv

\* The steps of the listener and of the main thread that leave the workers and
\* the connections in the queue alone.
LEMMA WorkersUnmoved ==
    ASSUME WorkerInv, UNCHANGED <<wpc, is_idle, worker_queue, spurious>>,
           workers_may_exit => workers_may_exit', queueTerminated => queueTerminated'
    PROVE  Idling' /\ Attended'
BY DEF WorkerInv, Idling, Attended, Active

\* The steps that leave the counts alone.
LEMMA Uncounted ==
    ASSUME WorkerInv, UNCHANGED <<idlers, worker_queue, is_idle>>, infoTerminated => infoTerminated',
           infoTerminated' \/ Reserved' = Reserved
    PROVE  IdlersExact'
BY DEF WorkerInv, IdlersExact

-----------------------------------------------------------------------------
(***************************************************************************)
(* Every action keeps the invariant.                                       *)
(***************************************************************************)

LEMMA ListenerAlone ==
    ASSUME WorkerInv, UNCHANGED spurious,
           \/ ListenerTop \/ WaitForIdler \/ GotIdler \/ LockAccept
           \/ EnterAccept \/ QueueTerm \/ KillMain
           \/ RequestLimit \/ AcceptFails \/ \E c \in Conns : Accept(c)
    PROVE  WorkerInv'

<1>1. CASE ListenerTop
  <2>1. WorkerTypes' /\ Reserves' /\ Ending'
    BY <1>1 DEF WorkerInv, ListenerTop, infoVars, queueVars, flagVars, listenerVars, workerVars, mainVars, WorkerTypes, ListenerPCs, Reserves, Ending
  <2>2. Idling' /\ Attended'
    BY <1>1, WorkersUnmoved DEF ListenerTop, infoVars, queueVars, flagVars, listenerVars, workerVars, mainVars
  <2>3. IdlersExact'
    BY <1>1, Uncounted DEF WorkerInv, ListenerTop, infoVars, queueVars, flagVars, listenerVars, workerVars, mainVars, Reserves, Reserved
  <2> QED
    BY <2>1, <2>2, <2>3 DEF WorkerInv
<1>2. CASE WaitForIdler
  <2>1. WorkerTypes' /\ Reserves' /\ Ending'
    BY <1>2 DEF WorkerInv, WaitForIdler, infoVars, queueVars, flagVars, listenerVars, workerVars, mainVars, WorkerTypes, ListenerPCs, Reserves, Ending
  <2>2. Idling' /\ Attended'
    BY <1>2, WorkersUnmoved DEF WaitForIdler, infoVars, queueVars, flagVars, listenerVars, workerVars, mainVars
  <2>3. IdlersExact'
    BY <1>2 DEF WorkerInv, WaitForIdler, infoVars, queueVars, flagVars, listenerVars, workerVars, mainVars, IdlersExact, Reserves, Reserved, WorkerTypes
  <2> QED
    BY <2>1, <2>2, <2>3 DEF WorkerInv
<1>3. CASE GotIdler
  <2>1. WorkerTypes' /\ Reserves' /\ Ending'
    BY <1>3 DEF WorkerInv, GotIdler, infoVars, queueVars, flagVars, listenerVars, workerVars, mainVars, WorkerTypes, ListenerPCs, Reserves, Ending
  <2>2. Idling' /\ Attended'
    BY <1>3, WorkersUnmoved DEF GotIdler, infoVars, queueVars, flagVars, listenerVars, workerVars, mainVars
  <2>3. IdlersExact'
    BY <1>3, Uncounted DEF WorkerInv, GotIdler, infoVars, queueVars, flagVars, listenerVars, workerVars, mainVars, Reserves, Reserved
  <2> QED
    BY <2>1, <2>2, <2>3 DEF WorkerInv
<1>4. CASE LockAccept
  <2>1. WorkerTypes' /\ Reserves' /\ Ending'
    BY <1>4 DEF WorkerInv, LockAccept, infoVars, queueVars, flagVars, listenerVars, workerVars, mainVars, WorkerTypes, ListenerPCs, Reserves, Ending
  <2>2. Idling' /\ Attended'
    BY <1>4, WorkersUnmoved DEF LockAccept, infoVars, queueVars, flagVars, listenerVars, workerVars, mainVars
  <2>3. IdlersExact'
    BY <1>4, Uncounted DEF WorkerInv, LockAccept, infoVars, queueVars, flagVars, listenerVars, workerVars, mainVars, Reserves, Reserved
  <2> QED
    BY <2>1, <2>2, <2>3 DEF WorkerInv
<1>5. CASE EnterAccept
  <2>1. WorkerTypes' /\ Reserves' /\ Ending'
    BY <1>5 DEF WorkerInv, EnterAccept, infoVars, queueVars, flagVars, listenerVars, workerVars, mainVars, WorkerTypes, ListenerPCs, Reserves, Ending
  <2>2. Idling' /\ Attended'
    BY <1>5, WorkersUnmoved DEF EnterAccept, infoVars, queueVars, flagVars, listenerVars, workerVars, mainVars
  <2>3. IdlersExact'
    BY <1>5, Uncounted DEF WorkerInv, EnterAccept, infoVars, queueVars, flagVars, listenerVars, workerVars, mainVars, Reserves, Reserved
  <2> QED
    BY <2>1, <2>2, <2>3 DEF WorkerInv
<1>6. CASE QueueTerm
  <2>1. WorkerTypes' /\ Reserves' /\ Ending'
    BY <1>6 DEF WorkerInv, QueueTerm, infoVars, queueVars, flagVars, listenerVars, workerVars, mainVars, WorkerTypes, ListenerPCs, Reserves, Ending
  <2>2. Idling' /\ Attended'
    BY <1>6, WorkersUnmoved DEF QueueTerm, infoVars, queueVars, flagVars, listenerVars, workerVars, mainVars
  <2>3. IdlersExact'
    BY <1>6, Uncounted DEF WorkerInv, QueueTerm, infoVars, queueVars, flagVars, listenerVars, workerVars, mainVars, Reserves, Reserved
  <2> QED
    BY <2>1, <2>2, <2>3 DEF WorkerInv
<1>7. CASE KillMain
  <2>1. WorkerTypes' /\ Reserves' /\ Ending'
    BY <1>7 DEF WorkerInv, KillMain, infoVars, queueVars, flagVars, listenerVars, workerVars, mainVars, WorkerTypes, ListenerPCs, Reserves, Ending
  <2>2. Idling' /\ Attended'
    BY <1>7, WorkersUnmoved DEF KillMain, infoVars, queueVars, flagVars, listenerVars, workerVars, mainVars
  <2>3. IdlersExact'
    BY <1>7, Uncounted DEF WorkerInv, KillMain, infoVars, queueVars, flagVars, listenerVars, workerVars, mainVars, Reserves, Reserved
  <2> QED
    BY <2>1, <2>2, <2>3 DEF WorkerInv
<1>8. CASE RequestLimit
  <2>1. WorkerTypes' /\ Reserves' /\ Ending'
    BY <1>8 DEF WorkerInv, RequestLimit, infoVars, queueVars, flagVars, listenerVars, workerVars, mainVars, SignalGraceful, WorkerTypes, ListenerPCs, Reserves, Ending
  <2>2. Idling' /\ Attended'
    BY <1>8, WorkersUnmoved DEF RequestLimit, infoVars, queueVars, flagVars, listenerVars, workerVars, mainVars, SignalGraceful
  <2>3. IdlersExact'
    BY <1>8, Uncounted DEF WorkerInv, RequestLimit, infoVars, queueVars, flagVars, listenerVars, workerVars, mainVars, SignalGraceful, Reserves, Reserved
  <2> QED
    BY <2>1, <2>2, <2>3 DEF WorkerInv
<1>9. CASE AcceptFails
  <2>1. WorkerTypes' /\ Reserves' /\ Ending'
    BY <1>9 DEF WorkerInv, AcceptFails, infoVars, queueVars, flagVars, listenerVars, workerVars, mainVars, SignalGraceful, WorkerTypes, ListenerPCs, Reserves, Ending
  <2>2. Idling' /\ Attended'
    BY <1>9, WorkersUnmoved DEF AcceptFails, infoVars, queueVars, flagVars, listenerVars, workerVars, mainVars, SignalGraceful
  <2>3. IdlersExact'
    BY <1>9, Uncounted DEF WorkerInv, AcceptFails, infoVars, queueVars, flagVars, listenerVars, workerVars, mainVars, SignalGraceful, Reserves, Reserved
  <2> QED
    BY <2>1, <2>2, <2>3 DEF WorkerInv
<1>10. ASSUME NEW c \in Conns, Accept(c)
      PROVE  WorkerInv'
  <2>1. WorkerTypes' /\ Reserves' /\ Ending'
    BY <1>10 DEF WorkerInv, Accept, infoVars, queueVars, flagVars, listenerVars, workerVars, mainVars, WorkerTypes, ListenerPCs, Reserves, Ending
  <2>2. Idling' /\ Attended'
    BY <1>10, WorkersUnmoved DEF Accept, infoVars, queueVars, flagVars, listenerVars, workerVars, mainVars
  <2>3. IdlersExact'
    BY <1>10, Uncounted DEF WorkerInv, Accept, infoVars, queueVars, flagVars, listenerVars, workerVars, mainVars, Reserves, Reserved
  <2> QED
    BY <2>1, <2>2, <2>3 DEF WorkerInv
<1> QED
  BY <1>1, <1>2, <1>3, <1>4, <1>5, <1>6, <1>7, <1>8, <1>9, <1>10

\* A worker that waits is woken when there is one; a listener that pushes on an
\* empty queue while nobody is active finds one that waits.
LEMMA PushInv ==
    ASSUME WorkerInv, UNCHANGED spurious, Push
    PROVE  WorkerInv'
<1>1. /\ lpc = "push" /\ lpc' = "top" /\ have_idle_worker /\ have_idle_worker' = FALSE /\ csd \in Conns
      /\ worker_queue' = Append(worker_queue, csd) /\ csd' = NoConn /\ ~queueTerminated
      /\ UNCHANGED <<infoVars, queueTerminated, flagVars, is_idle, mainVars>>
      /\ \/ (\A w \in Workers : wpc[w] # "asleep") /\ wpc' = wpc
         \/ \E w \in Workers : wpc[w] = "asleep" /\ wpc' = [wpc EXCEPT ![w] = "awake"]
  BY DEF WorkerInv, WorkerTypes, Reserves, Ending, Push, Sleepers, Become
<1>2. /\ worker_queue' \in Seq(Conns) /\ worker_queue' # <<>> /\ Len(worker_queue') = Len(worker_queue) + 1 /\ Len(worker_queue) \in Nat
  BY <1>1, AppendProperties DEF WorkerInv, WorkerTypes
<1>3. WorkerTypes' /\ Reserves' /\ Idling' /\ Ending'
  <2>1. wpc' \in [Workers -> WorkerPCs]
        /\ \A w \in Workers : wpc'[w] = wpc[w] \/ (wpc[w] = "asleep" /\ wpc'[w] = "awake")
    BY <1>1 DEF WorkerInv, WorkerTypes, WorkerPCs
  <2>2. UNCHANGED <<idlers, infoTerminated, queueTerminated, workers_may_exit, terminate_mode, is_idle, mpc>>
    BY <1>1 DEF infoVars, flagVars, mainVars
  <2>3. WorkerTypes'
    <3>1. lpc' \in ListenerPCs /\ have_idle_worker' \in BOOLEAN /\ csd' \in Conns \union {NoConn} /\ lpc' # "push"
      BY <1>1 DEF ListenerPCs
    <3> QED
      BY <1>2, <2>1, <2>2, <3>1 DEF WorkerInv, WorkerTypes
  <2> QED
    BY <1>1, <2>1, <2>2, <2>3 DEF WorkerInv, WorkerTypes, Reserves, Idling, Ending
<1>4. Attended'
  <2> SUFFICES ASSUME ~spurious, ~workers_may_exit
               PROVE  \E w \in Workers : Active(w)'
    BY <1>1, <1>2 DEF Attended, flagVars
  <2>1. wpc \in [Workers -> WorkerPCs] /\ \A w \in Workers : wpc[w] # "done"
    BY <1>1 DEF WorkerInv, WorkerTypes, Ending
  <2>2. \E w \in Workers : wpc[w] \notin {"empty", "done"}
    BY <1>1, <2>1 DEF WorkerInv, Attended, Active
  <2> QED
    BY <1>1, <2>1, <2>2 DEF Active, WorkerPCs
<1>5. IdlersExact'
  BY <1>1, <1>2 DEF WorkerInv, WorkerTypes, IdlersExact, Reserved, infoVars
<1> QED
  BY <1>3, <1>4, <1>5 DEF WorkerInv

\* The other steps that wake workers.
LEMMA WakeupInv ==
    ASSUME WorkerInv, UNCHANGED spurious, TermInterrupt \/ InterruptAll \/ SpuriousWakeup
    PROVE  WorkerInv'
<1>0. /\ wpc' \in [Workers -> WorkerPCs]
      /\ \A w \in Workers : wpc'[w] = wpc[w] \/ (wpc[w] = "asleep" /\ wpc'[w] = "awake")
  <2>1. wpc \in [Workers -> WorkerPCs]
    BY DEF WorkerInv, WorkerTypes
  <2>2. \/ wpc' = wpc \/ wpc' = [w \in Workers |-> IF wpc[w] = "asleep" THEN "awake" ELSE wpc[w]]
        \/ \E w \in Workers : wpc[w] = "asleep" /\ wpc' = [wpc EXCEPT ![w] = "awake"]
    BY DEF TermInterrupt, InterruptAll, SpuriousWakeup, WakeAll, Become, Sleepers
  <2> QED
    BY <2>1, <2>2 DEF WorkerPCs
<1>1. /\ UNCHANGED <<idlers, infoTerminated, worker_queue, queueTerminated, is_idle, have_idle_worker, csd,
                     workers_may_exit, terminate_mode>>
      /\ lpc' = lpc \/ (lpc = "interrupt" /\ lpc' = "kill") \/ (lpc = "asleep" /\ lpc' = "woken")
      /\ mpc' = mpc \/ mpc' = "infoterm"
      /\ queueTerminated \/ workers_may_exit \/ spurious
  <2>1. CASE TermInterrupt
    BY <2>1 DEF WorkerInv, Ending, TermInterrupt, infoVars, queueVars, flagVars, mainVars
  <2>2. CASE InterruptAll
    BY <2>2 DEF WorkerInv, Ending, InterruptAll, infoVars, queueVars, flagVars, listenerVars
  <2>3. CASE SpuriousWakeup
    BY <2>3 DEF SpuriousWakeup, infoVars, queueVars, flagVars, mainVars
  <2> QED
    BY <2>1, <2>2, <2>3
<1>2. WorkerTypes' /\ Reserves' /\ Idling' /\ Ending'
  BY <1>0, <1>1 DEF WorkerInv, WorkerTypes, Reserves, Idling, Ending, ListenerPCs
<1>3. Attended'
  BY <1>0, <1>1 DEF WorkerInv, Attended, Active
<1>4. IdlersExact'
  BY <1>1, Uncounted DEF Reserved
<1> QED
  BY <1>2, <1>3, <1>4 DEF WorkerInv

LEMMA WorkerAlone ==
    ASSUME WorkerInv, UNCHANGED spurious,
           NEW w \in Workers, WorkerTop(w) \/ CheckExit(w) \/ PopNothing(w) \/ PopEnds(w) \/ Serve(w)
    PROVE  WorkerInv'

<1>1. CASE WorkerTop(w)
  <2>1. WorkerTypes' /\ Reserves' /\ Idling' /\ Ending'
    BY <1>1 DEF WorkerInv, WorkerTop, infoVars, queueVars, flagVars, listenerVars, workerVars, mainVars, Become, WorkerTypes, WorkerPCs, Reserves, Idling, Ending
  <2>2. Attended'
    BY <1>1 DEF WorkerInv, WorkerTop, infoVars, queueVars, flagVars, listenerVars, workerVars, mainVars, Become, WorkerTypes, Attended, Active
  <2>3. IdlersExact'
    BY <1>1, Uncounted DEF WorkerTop, infoVars, queueVars, flagVars, listenerVars, workerVars, mainVars, Reserved
  <2> QED
    BY <2>1, <2>2, <2>3 DEF WorkerInv
<1>2. CASE CheckExit(w)
  <2>1. WorkerTypes' /\ Reserves' /\ Idling' /\ Ending'
    BY <1>2 DEF WorkerInv, CheckExit, infoVars, queueVars, flagVars, listenerVars, workerVars, mainVars, Become, WorkerTypes, WorkerPCs, Reserves, Idling, Ending
  <2>2. Attended'
    BY <1>2 DEF WorkerInv, CheckExit, infoVars, queueVars, flagVars, listenerVars, workerVars, mainVars, Become, WorkerTypes, Attended, Active
  <2>3. IdlersExact'
    BY <1>2, Uncounted DEF CheckExit, infoVars, queueVars, flagVars, listenerVars, workerVars, mainVars, Reserved
  <2> QED
    BY <2>1, <2>2, <2>3 DEF WorkerInv
<1>3. CASE PopNothing(w)
  <2>1. WorkerTypes' /\ Reserves' /\ Idling' /\ Ending'
    BY <1>3 DEF WorkerInv, PopNothing, infoVars, queueVars, flagVars, listenerVars, workerVars, mainVars, Become, WorkerTypes, WorkerPCs, Reserves, Idling, Ending
  <2>2. Attended'
    BY <1>3 DEF WorkerInv, PopNothing, infoVars, queueVars, flagVars, listenerVars, workerVars, mainVars, Become, WorkerTypes, Attended, Active
  <2>3. IdlersExact'
    BY <1>3, Uncounted DEF PopNothing, infoVars, queueVars, flagVars, listenerVars, workerVars, mainVars, Reserved
  <2> QED
    BY <2>1, <2>2, <2>3 DEF WorkerInv
<1>4. CASE PopEnds(w)
  <2>1. WorkerTypes' /\ Reserves' /\ Idling' /\ Ending'
    BY <1>4 DEF WorkerInv, PopEnds, infoVars, queueVars, flagVars, listenerVars, workerVars, mainVars, Become, WorkerTypes, WorkerPCs, Reserves, Idling, Ending
  <2>2. Attended'
    BY <1>4 DEF WorkerInv, PopEnds, infoVars, queueVars, flagVars, listenerVars, workerVars, mainVars, Become, WorkerTypes, Attended, Active
  <2>3. IdlersExact'
    BY <1>4, Uncounted DEF PopEnds, infoVars, queueVars, flagVars, listenerVars, workerVars, mainVars, Reserved
  <2> QED
    BY <2>1, <2>2, <2>3 DEF WorkerInv
<1>5. CASE Serve(w)
  <2>1. WorkerTypes' /\ Reserves' /\ Idling' /\ Ending'
    BY <1>5 DEF WorkerInv, Serve, infoVars, queueVars, flagVars, listenerVars, workerVars, mainVars, Become, WorkerTypes, WorkerPCs, Reserves, Idling, Ending
  <2>2. Attended'
    BY <1>5 DEF WorkerInv, Serve, infoVars, queueVars, flagVars, listenerVars, workerVars, mainVars, Become, WorkerTypes, Attended, Active
  <2>3. IdlersExact'
    BY <1>5, Uncounted DEF Serve, infoVars, queueVars, flagVars, listenerVars, workerVars, mainVars, Reserved
  <2> QED
    BY <2>1, <2>2, <2>3 DEF WorkerInv
<1> QED
  BY <1>1, <1>2, <1>3, <1>4, <1>5

LEMMA SetIdleInv ==
    ASSUME WorkerInv, UNCHANGED spurious, NEW w \in Workers, SetIdle(w)
    PROVE  WorkerInv'
<1>1. WorkerTypes' /\ Reserves' /\ Idling' /\ Ending'
  BY DEF WorkerInv, SetIdle, WorkerTypes, ListenerPCs, WorkerPCs, Reserves, Idling, Ending, Become,
         infoVars, queueVars, flagVars, listenerVars, mainVars
<1>2. Attended'
  BY DEF WorkerInv, SetIdle, WorkerTypes, Attended, Active, Become, queueVars, flagVars
<1>3. IdleWorkers' = IdleWorkers \union {w} /\ w \notin IdleWorkers
  BY DEF WorkerInv, SetIdle, WorkerTypes, Idling, IdleWorkers
<1>4. Cardinality(IdleWorkers') = Cardinality(IdleWorkers) + 1
  BY <1>3, IdleFinite, FS_AddElement
<1>5. Reserved' = Reserved /\ idlers' = idlers + 1 /\ worker_queue' = worker_queue /\ infoTerminated' = infoTerminated
  BY DEF SetIdle, Reserved, queueVars
<1>6. IdlersExact'
  BY <1>4, <1>5, IdleFinite DEF WorkerInv, WorkerTypes, IdlersExact, Reserved, IdleWorkers
<1> QED
  BY <1>1, <1>2, <1>6 DEF WorkerInv

LEMMA PopInv ==
    ASSUME WorkerInv, UNCHANGED spurious, NEW w \in Workers, Pop(w)
    PROVE  WorkerInv'
<1>1. Len(worker_queue) \in Nat /\ Len(worker_queue) >= 1 /\ worker_queue' = SubSeq(worker_queue, 1, Len(worker_queue) - 1)
  BY DEF WorkerInv, WorkerTypes, Pop, Front
<1>2. worker_queue' \in Seq(Conns) /\ Len(worker_queue') = Len(worker_queue) - 1
  <2>1. worker_queue \in Seq(Conns)
    BY DEF WorkerInv, WorkerTypes
  <2>2. SubSeq(worker_queue, 1, Len(worker_queue) - 1) \in Seq(Conns)
    BY <1>1, <2>1
  <2>3. Len(SubSeq(worker_queue, 1, Len(worker_queue) - 1)) = Len(worker_queue) - 1
    <3>1. Len(worker_queue) - 1 \in Nat /\ Len(worker_queue) - 1 <= Len(worker_queue)
      BY <1>1
    <3> QED
      BY <2>1, <3>1, PrefixLength
  <2> QED
    BY <1>1, <2>2, <2>3
<1>3. WorkerTypes' /\ Reserves' /\ Idling' /\ Ending'
  BY <1>2 DEF WorkerInv, Pop, WorkerTypes, WorkerPCs, Reserves, Idling, Ending, Become, infoVars, flagVars,
              listenerVars, mainVars
<1>4. Attended'
  BY DEF WorkerInv, Pop, WorkerTypes, Attended, Active, Become
<1>5. IdleWorkers' = IdleWorkers \ {w} /\ w \in IdleWorkers
  BY DEF WorkerInv, Pop, WorkerTypes, Idling, IdleWorkers
<1>6. Cardinality(IdleWorkers') = Cardinality(IdleWorkers) - 1
  BY <1>5, IdleFinite, FS_RemoveElement
<1>7. UNCHANGED <<idlers, infoTerminated, lpc, have_idle_worker>>
  BY DEF Pop, infoVars, listenerVars
<1>8. IdlersExact'
  <2>1. Reserved' = Reserved /\ Reserved \in Nat /\ idlers \in Int
    BY <1>7 DEF Reserved, WorkerInv, WorkerTypes
  <2>2. ~infoTerminated => idlers + Reserved + Len(worker_queue) = Cardinality(IdleWorkers)
    BY DEF WorkerInv, IdlersExact, IdleWorkers
  <2>3. ~infoTerminated' => idlers' + Reserved' + Len(worker_queue') = Cardinality(IdleWorkers')
    <3> DEFINE n == Cardinality(IdleWorkers)
               m == Cardinality(IdleWorkers')
    <3>1. n \in Int /\ m = n - 1 /\ Len(worker_queue') = Len(worker_queue) - 1 /\ Len(worker_queue) \in Int
      BY <1>1, <1>2, <1>6, IdleFinite
    <3>2. ~infoTerminated => idlers + Reserved + Len(worker_queue) = n
      BY <2>2
    <3> HIDE DEF n, m
    <3>3. ~infoTerminated' => idlers' + Reserved' + Len(worker_queue') = m
      BY <1>7, <2>1, <3>1, <3>2
    <3> QED
      BY <3>3 DEF m
  <2> QED
    BY <2>3 DEF IdlersExact, IdleWorkers
<1> QED
  BY <1>3, <1>4, <1>8 DEF WorkerInv

LEMMA MainAlone ==
    ASSUME WorkerInv, UNCHANGED spurious,
           \/ PodCheck \/ PodInterrupted \/ PodMessage \/ SignalThreads
           \/ WorkersMayExit \/ QueueInfoTerm \/ SignalAgain \/ JoinThreads
    PROVE  WorkerInv'

<1>1. CASE PodCheck
  <2>1. WorkerTypes' /\ Reserves' /\ Ending'
    BY <1>1 DEF WorkerInv, PodCheck, infoVars, queueVars, flagVars, listenerVars, workerVars, mainVars, WorkerTypes, ListenerPCs, Reserves, Ending
  <2>2. Idling' /\ Attended'
    BY <1>1, WorkersUnmoved DEF PodCheck, infoVars, queueVars, flagVars, listenerVars, workerVars, mainVars
  <2>3. IdlersExact'
    BY <1>1, Uncounted DEF WorkerInv, PodCheck, infoVars, queueVars, flagVars, listenerVars, workerVars, mainVars, Reserves, Reserved
  <2> QED
    BY <2>1, <2>2, <2>3 DEF WorkerInv
<1>2. CASE PodInterrupted
  <2>1. WorkerTypes' /\ Reserves' /\ Ending'
    BY <1>2 DEF WorkerInv, PodInterrupted, infoVars, queueVars, flagVars, listenerVars, workerVars, mainVars, WorkerTypes, ListenerPCs, Reserves, Ending
  <2>2. Idling' /\ Attended'
    BY <1>2, WorkersUnmoved DEF PodInterrupted, infoVars, queueVars, flagVars, listenerVars, workerVars, mainVars
  <2>3. IdlersExact'
    BY <1>2, Uncounted DEF WorkerInv, PodInterrupted, infoVars, queueVars, flagVars, listenerVars, workerVars, mainVars, Reserves, Reserved
  <2> QED
    BY <2>1, <2>2, <2>3 DEF WorkerInv
<1>3. CASE PodMessage
  <2>1. WorkerTypes' /\ Reserves' /\ Ending'
    BY <1>3 DEF WorkerInv, PodMessage, infoVars, queueVars, flagVars, listenerVars, workerVars, mainVars, WorkerTypes, ListenerPCs, Reserves, Ending
  <2>2. Idling' /\ Attended'
    BY <1>3, WorkersUnmoved DEF PodMessage, infoVars, queueVars, flagVars, listenerVars, workerVars, mainVars
  <2>3. IdlersExact'
    BY <1>3, Uncounted DEF WorkerInv, PodMessage, infoVars, queueVars, flagVars, listenerVars, workerVars, mainVars, Reserves, Reserved
  <2> QED
    BY <2>1, <2>2, <2>3 DEF WorkerInv
<1>4. CASE SignalThreads
  <2>1. WorkerTypes' /\ Reserves' /\ Ending'
    BY <1>4 DEF WorkerInv, SignalThreads, infoVars, queueVars, flagVars, listenerVars, workerVars, mainVars, WakeupListener, WorkerTypes, ListenerPCs, Reserves, Ending
  <2>2. Idling' /\ Attended'
    BY <1>4, WorkersUnmoved DEF SignalThreads, infoVars, queueVars, flagVars, listenerVars, workerVars, mainVars, WakeupListener
  <2>3. IdlersExact'
    BY <1>4, Uncounted DEF WorkerInv, SignalThreads, infoVars, queueVars, flagVars, listenerVars, workerVars, mainVars, WakeupListener, Reserves, Reserved
  <2> QED
    BY <2>1, <2>2, <2>3 DEF WorkerInv
<1>5. CASE WorkersMayExit
  <2>1. WorkerTypes' /\ Reserves' /\ Ending'
    BY <1>5 DEF WorkerInv, WorkersMayExit, infoVars, queueVars, flagVars, listenerVars, workerVars, mainVars, WorkerTypes, ListenerPCs, Reserves, Ending
  <2>2. Idling' /\ Attended'
    BY <1>5, WorkersUnmoved DEF WorkersMayExit, infoVars, queueVars, flagVars, listenerVars, workerVars, mainVars
  <2>3. IdlersExact'
    BY <1>5, Uncounted DEF WorkerInv, WorkersMayExit, infoVars, queueVars, flagVars, listenerVars, workerVars, mainVars, Reserves, Reserved
  <2> QED
    BY <2>1, <2>2, <2>3 DEF WorkerInv
<1>6. CASE QueueInfoTerm
  <2>1. WorkerTypes' /\ Reserves' /\ Ending'
    BY <1>6 DEF WorkerInv, QueueInfoTerm, infoVars, queueVars, flagVars, listenerVars, workerVars, mainVars, WorkerTypes, ListenerPCs, Reserves, Ending
  <2>2. Idling' /\ Attended'
    BY <1>6, WorkersUnmoved DEF QueueInfoTerm, infoVars, queueVars, flagVars, listenerVars, workerVars, mainVars
  <2>3. IdlersExact'
    BY <1>6, Uncounted DEF WorkerInv, QueueInfoTerm, infoVars, queueVars, flagVars, listenerVars, workerVars, mainVars, Reserves, Reserved
  <2> QED
    BY <2>1, <2>2, <2>3 DEF WorkerInv
<1>7. CASE SignalAgain
  <2>1. WorkerTypes' /\ Reserves' /\ Ending'
    BY <1>7 DEF WorkerInv, SignalAgain, infoVars, queueVars, flagVars, listenerVars, workerVars, mainVars, WakeupListener, WorkerTypes, ListenerPCs, Reserves, Ending
  <2>2. Idling' /\ Attended'
    BY <1>7, WorkersUnmoved DEF SignalAgain, infoVars, queueVars, flagVars, listenerVars, workerVars, mainVars, WakeupListener
  <2>3. IdlersExact'
    BY <1>7, Uncounted DEF WorkerInv, SignalAgain, infoVars, queueVars, flagVars, listenerVars, workerVars, mainVars, WakeupListener, Reserves, Reserved
  <2> QED
    BY <2>1, <2>2, <2>3 DEF WorkerInv
<1>8. CASE JoinThreads
  <2>1. WorkerTypes' /\ Reserves' /\ Ending'
    BY <1>8 DEF WorkerInv, JoinThreads, infoVars, queueVars, flagVars, listenerVars, workerVars, mainVars, WorkerTypes, ListenerPCs, Reserves, Ending
  <2>2. Idling' /\ Attended'
    BY <1>8, WorkersUnmoved DEF JoinThreads, infoVars, queueVars, flagVars, listenerVars, workerVars, mainVars
  <2>3. IdlersExact'
    BY <1>8, Uncounted DEF WorkerInv, JoinThreads, infoVars, queueVars, flagVars, listenerVars, workerVars, mainVars, Reserves, Reserved
  <2> QED
    BY <2>1, <2>2, <2>3 DEF WorkerInv
<1> QED
  BY <1>1, <1>2, <1>3, <1>4, <1>5, <1>6, <1>7, <1>8

LEMMA WorkerNextInv ==
    ASSUME WorkerInv, [ChildNext]_childVars
    PROVE  WorkerInv'
<1>1. CASE UNCHANGED childVars
  BY <1>1 DEF WorkerInv, WorkerTypes, Reserves, Idling, Ending, Attended, Active, IdlersExact, Reserved, childVars,
              infoVars, queueVars, flagVars, listenerVars, workerVars, mainVars
<1>2. CASE UNCHANGED spurious /\ (Listener \/ RequestLimit \/ AcceptFails \/ \E c \in Conns : Accept(c))
  BY <1>2, ListenerAlone, PushInv, WakeupInv DEF Listener
<1>3. ASSUME UNCHANGED spurious, NEW w \in Workers, Worker(w)
      PROVE  WorkerInv'
  BY <1>3, WorkerAlone, SetIdleInv, PopInv DEF Worker
<1>4. CASE UNCHANGED spurious /\ (SpuriousWakeup \/ Main \/ PodMessage)
  BY <1>4, WakeupInv, MainAlone DEF Main
<1> QED
  BY <1>1, <1>2, <1>3, <1>4 DEF ChildNext

\* Until it is terminated, the count of idle workers is exact: each worker that
\* calls itself idle is counted, reserved, or has a connection in the queue.
THEOREM IdlersInvariant == ChildSpec => []IdlersExact
<1>1. WorkerInv => IdlersExact
  BY DEF WorkerInv
<1> QED
  BY <1>1, WorkerInitInv, WorkerNextInv, PTL DEF ChildSpec

\* Where waits end by a signal, a graceful end leaves no connection behind: the
\* workers are not all gone while one is in the queue.
THEOREM AllHandledInvariant == ChildSpec => []AllHandled
<1>1. WorkerInv => AllHandled
  BY DEF WorkerInv, Attended, Active, AllHandled
<1> QED
  BY <1>1, WorkerInitInv, WorkerNextInv, PTL DEF ChildSpec
=============================================================================
