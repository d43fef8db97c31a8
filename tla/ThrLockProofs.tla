---------------------------- MODULE ThrLockProofs ---------------------------
(***************************************************************************)
(* Proofs about ThrLock for any number of threads, locks and statements.   *)
(* The lists of every lock stay in order under every grant, wait, unlock,  *)
(* abort, upgrade and rescheduling (Calm); from that, locks that are held  *)
(* together go together, the count of locks that forbid inserts is exact,  *)
(* nobody waits for a lock that nobody holds, and the handler of INSERT    *)
(* DELAYED writes alone as long as nobody aborts locks.                    *)
(***************************************************************************)
EXTENDS ThrLock, FiniteSetTheorems, WellFoundedInduction, TLAPS

-----------------------------------------------------------------------------
(***************************************************************************)
(* Lists: what is left when elements are taken off, and other facts.       *)
(***************************************************************************)
\* A set of numbers has a least one.
LEMMA NatLeast ==
    ASSUME NEW T \in SUBSET Nat, T # {}
    PROVE  \E n \in T : \A m \in T : n <= m
<1>1. PICK x \in T : \A y \in T : ~(<<y, x>> \in OpToRel(<, Nat))
  BY NatLessThanWellFounded, WFMin, Zenon
<1>2. \A y \in T : ~(y < x)
  BY <1>1, Zenon DEF OpToRel
<1> QED
  BY <1>2

\* In a finite set of numbers each one has its rank: how many are not above it.
LEMMA Ranks ==
    ASSUME NEW n \in Nat, NEW K, \A h \in K : h \in 1..n
    PROVE  /\ Cardinality(K) \in Nat
           /\ \A j \in K : Cardinality({h \in K : h <= j}) \in 1..Cardinality(K)
           /\ \A i, j \in K : i < j => Cardinality({h \in K : h <= i}) < Cardinality({h \in K : h <= j})
           /\ \A c \in 1..Cardinality(K) : \E j \in K : Cardinality({h \in K : h <= j}) = c
<1> DEFINE U(j) == {h \in K : h <= j}
           C(j) == Cardinality(U(j))
<1>0. \A h \in K : h \in Int /\ 1 <= h /\ h <= n
  OBVIOUS
<1>1. IsFiniteSet(1..n)
  BY FS_Interval
<1>2. /\ IsFiniteSet(K) /\ Cardinality(K) \in Nat
      /\ \A j \in Int : IsFiniteSet(U(j)) /\ C(j) \in Nat /\ C(j) <= Cardinality(K)
  <2>1. IsFiniteSet(K) /\ Cardinality(K) \in Nat
    <3>1. K \subseteq 1..n
      BY <1>0
    <3> QED
      BY <3>1, <1>1, FS_Subset, FS_CardinalityType
  <2>2. ASSUME NEW j \in Int PROVE IsFiniteSet(U(j)) /\ C(j) \in Nat /\ C(j) <= Cardinality(K)
    BY <2>1, FS_Subset, FS_CardinalityType
  <2> QED
    BY <2>1, <2>2
<1>3. ASSUME NEW i \in Int, NEW j \in Int, i <= j
      PROVE  C(i) <= C(j)
  <2>1. U(i) \subseteq U(j)
    BY <1>0, <1>3
  <2> QED
    BY <2>1, <1>2, FS_Subset
<1>4. ASSUME NEW j \in Int, j \in K
      PROVE  C(j) = C(j - 1) + 1
  <2>1. U(j) = U(j - 1) \cup {j} /\ j \notin U(j - 1)
    <3>1. \A h \in Int : h <= j <=> (h <= j - 1 \/ h = j)
      OBVIOUS
    <3>2. \A h : h \in U(j) <=> h \in U(j - 1) \cup {j}
      BY <1>0, <1>4, <3>1
    <3> QED
      BY <3>2
  <2>2. j - 1 \in Int
    OBVIOUS
  <2>3. IsFiniteSet(U(j - 1))
    BY <1>2, <2>2
  <2>4. Cardinality(U(j - 1) \cup {j}) = Cardinality(U(j - 1)) + 1
    BY <2>1, <2>3, FS_AddElement
  <2> QED
    BY <2>1, <2>4
<1>5. ASSUME NEW j \in Int, j \notin K
      PROVE  C(j) = C(j - 1)
  <2>1. U(j) = U(j - 1)
    BY <1>0, <1>5
  <2> QED
    BY <2>1
<1>6. C(0) = 0 /\ C(n) = Cardinality(K)
  <2>1. U(0) = {} /\ U(n) = K
    BY <1>0
  <2> QED
    BY <2>1, FS_EmptySet
<1> HIDE DEF C, U
<1>c. \A j \in Int : C(j) \in Nat /\ C(j - 1) \in Nat /\ C(j) <= Cardinality(K)
  <2>1. \A j \in Int : j - 1 \in Int
    OBVIOUS
  <2> QED
    BY <1>2, <2>1
<1>7. ASSUME NEW i \in K, NEW j \in K, i < j
      PROVE  C(i) < C(j)
  <2>1. C(i) <= C(j - 1)
    <3>1. i \in Int /\ j - 1 \in Int /\ i <= j - 1
      BY <1>0, <1>7
    <3> QED
      BY <3>1, <1>3
  <2>2. C(j) = C(j - 1) + 1 /\ C(i) \in Nat /\ C(j - 1) \in Nat
    BY <1>4, <1>c, <1>0
  <2> QED
    BY <2>1, <2>2
<1>8. ASSUME NEW j \in K
      PROVE  C(j) \in 1..Cardinality(K)
  <2>1. C(j) = C(j - 1) + 1 /\ C(j) \in Nat /\ C(j - 1) \in Nat /\ C(j) <= Cardinality(K)
    BY <1>4, <1>c, <1>0
  <2> QED
    BY <2>1, <1>2
<1>9. ASSUME NEW c \in 1..Cardinality(K)
      PROVE  \E j \in K : C(j) = c
  <2> DEFINE T == {j \in 1..n : C(j) >= c}
  <2>1. T # {}
    <3>1. n # 0
      BY <1>6, <1>2
    <3>2. n \in 1..n /\ C(n) >= c
      BY <3>1, <1>6, <1>2
    <3> QED
      BY <3>2
  <2>2. PICK j \in T : \A h \in T : j <= h
    <3>1. T \in SUBSET Nat
      OBVIOUS
    <3> HIDE DEF T
    <3> QED
      BY <2>1, <3>1, NatLeast
  <2>3. C(j - 1) < c
    <3>1. CASE j = 1
      BY <3>1, <1>6, <1>2
    <3>2. CASE j # 1
      <4>1. j - 1 \in 1..n /\ ~(j <= j - 1)
        BY <3>2
      <4>2. ~(C(j - 1) >= c)
        BY <2>2, <4>1
      <4> QED
        BY <4>1, <4>2, <1>c
    <3> QED
      BY <3>1, <3>2
  <2>4. j \in Int /\ C(j) >= c /\ C(j) \in Nat /\ C(j - 1) \in Nat /\ c \in Nat
    BY <2>2, <1>2, <1>c
  <2>5. j \in K
    BY <1>5, <2>3, <2>4
  <2>6. C(j) = C(j - 1) + 1
    BY <1>4, <2>4, <2>5
  <2> QED
    BY <2>3, <2>4, <2>5, <2>6
<1> QED
  BY <1>2, <1>7, <1>8, <1>9 DEF C, U

\* Rest(s, W) is a sequence of the elements of s that are not in W, in their order.
LEMMA RestFacts ==
    ASSUME NEW S, NEW s \in Seq(S), NEW W
    PROVE  /\ Rest(s, W) \in Seq(S)
           /\ Range(Rest(s, W)) = Range(s) \ W
           /\ \E f \in [1..Len(Rest(s, W)) -> 1..Len(s)] :
                /\ \A i \in 1..Len(Rest(s, W)) : Rest(s, W)[i] = s[f[i]]
                /\ \A i, j \in 1..Len(Rest(s, W)) : i < j => f[i] < f[j]
<1> DEFINE n == Len(s)
           K == {i \in DOMAIN s : s[i] \notin W}
           R(j) == Cardinality({h \in K : h <= j})
           m == Cardinality(K)
           f == [i \in 1..m |-> CHOOSE j \in K : R(j) = i]
<1>0. n \in Nat /\ DOMAIN s = 1..n /\ (\A h \in K : h \in 1..n) /\ \A i \in 1..n : s[i] \in S
  OBVIOUS
<1>1. CASE ~\E i \in DOMAIN s : s[i] \in W
  <2>1. Rest(s, W) = s
    BY <1>1 DEF Rest
  <2>2. [i \in 1..n |-> i] \in [1..n -> 1..n]
    OBVIOUS
  <2>3. Range(s) = Range(s) \ W
    BY <1>1 DEF Range
  <2>4. \E g \in [1..n -> 1..n] : /\ \A i \in 1..n : s[i] = s[g[i]]
                                  /\ \A i, j \in 1..n : i < j => g[i] < g[j]
    BY <2>2, <1>0
  <2> QED
    BY <2>1, <2>3, <2>4
<1>2. CASE \E i \in DOMAIN s : s[i] \in W
  <2>1. Rest(s, W) = [i \in 1..m |-> s[f[i]]]
    <3>1. Rest(s, W) = [i \in 1..m |-> s[CHOOSE j \in K : R(j) = i]]
      BY <1>2, Zenon DEF Rest
    <3>2. \A i \in 1..m : f[i] = CHOOSE j \in K : R(j) = i
      OBVIOUS
    <3> HIDE DEF f, m, R, K
    <3> QED
      BY <3>1, <3>2
  <2>2. /\ m \in Nat
        /\ \A j \in K : R(j) \in 1..m
        /\ \A i, j \in K : i < j => R(i) < R(j)
        /\ \A c \in 1..m : \E j \in K : R(j) = c
    BY <1>0, Ranks
  <2> HIDE DEF m, R, K
  <2>3. \A i \in 1..m : f[i] \in K /\ R(f[i]) = i
    BY <2>2
  <2> HIDE DEF f
  <2>4. f \in [1..m -> 1..n]
    BY <2>3, <1>0 DEF f
  <2>5. \A i, j \in 1..m : i < j => f[i] < f[j]
    <3> SUFFICES ASSUME NEW i \in 1..m, NEW j \in 1..m, i < j, ~(f[i] < f[j]) PROVE FALSE
      OBVIOUS
    <3>1. f[i] \in 1..n /\ f[j] \in 1..n /\ f[i] \in K /\ f[j] \in K /\ R(f[i]) = i /\ R(f[j]) = j
      BY <2>3, <2>4
    <3>2. f[i] = f[j] \/ f[j] < f[i]
      BY <3>1
    <3>3. ~(f[j] < f[i])
      BY <3>1, <2>2
    <3> QED
      BY <3>1, <3>2, <3>3
  <2>6. \A j \in K : j \in 1..n /\ f[R(j)] = j
    <3> SUFFICES ASSUME NEW j \in K PROVE j \in 1..n /\ f[R(j)] = j
      OBVIOUS
    <3>1. R(j) \in 1..m
      BY <2>2
    <3> DEFINE e == f[R(j)]
    <3>2. e \in K /\ R(e) = R(j)
      BY <3>1, <2>3
    <3> HIDE DEF e
    <3>3. e \in 1..n /\ j \in 1..n
      BY <3>2, <1>0
    <3>4. ~(e < j) /\ ~(j < e)
      BY <3>1, <3>2, <2>2
    <3> QED
      BY <3>3, <3>4 DEF e
  <2>7. Rest(s, W) \in Seq(S) /\ Len(Rest(s, W)) = m /\ DOMAIN Rest(s, W) = 1..m
    <3>1. \A i \in 1..m : s[f[i]] \in S
      BY <1>0, <2>4
    <3> QED
      BY <2>1, <2>2, <3>1
  <2>8. \A i \in 1..m : Rest(s, W)[i] = s[f[i]]
    BY <2>1
  <2>9. Range(Rest(s, W)) = Range(s) \ W
    <3>1. \A i \in 1..m : s[f[i]] \in Range(s) \ W
      BY <2>3, <1>0 DEF K, Range
    <3>2. ASSUME NEW e \in Range(s) \ W PROVE \E i \in 1..m : s[f[i]] = e
      <4>1. PICK j \in K : s[j] = e
        BY <1>0 DEF Range, K
      <4>2. R(j) \in 1..m /\ f[R(j)] = j
        BY <2>2, <2>6
      <4> QED
        BY <4>1, <4>2
    <3>3. Range(Rest(s, W)) = {s[f[i]] : i \in 1..m}
      BY <2>7, <2>8 DEF Range
    <3> QED
      BY <3>1, <3>2, <3>3
  <2> QED
    BY <2>4, <2>5, <2>7, <2>8, <2>9
<1> QED
  BY <1>1, <1>2

\* What the thread of the lock d has asked for.
Asked(wn, d) == wn[d[1]][d[2]]

\* The type that a write lock has, given the one that was asked for.
Became(asks, ty) ==
    /\ asks \in TL_WRITE_ALLOW_WRITE..TL_WRITE_ONLY
    /\ \/ ty \in {asks, TL_WRITE_ONLY}
       \/ asks = TL_WRITE_CONCURRENT_INSERT /\ ty \in {TL_WRITE_LOW_PRIORITY, TL_WRITE}
       \/ asks = TL_WRITE_DELAYED /\ ty = TL_WRITE

\* The order of a list: nobody is on it twice, and a thread has its locks in the
\* order of its statement; the types of all but the first are those asked for.
Once(q) == \A i, j \in 1..Len(q) : q[i] = q[j] => i = j
InOrder(q) == \A i, j \in 1..Len(q) : i < j /\ q[i][1] = q[j][1] => q[i][2] < q[j][2]
TailAsked(q, ty, wn) == \A j \in 2..Len(q) : ty[q[j]] = Asked(wn, q[j]).type
OneEach(q) == \A i, j \in 1..Len(q) : i # j => q[i][1] # q[j][1]

\* The lists of a lock: reads, writes, what is held and what waits.
LockType == [read : Seq(Data), readWait : Seq(Data), write : Seq(Data), writeWait : Seq(Data),
             noInsert : Int, writeCount : Nat]
Reads(k) == Range(k.read) \cup Range(k.readWait)
Writes(k) == Range(k.write) \cup Range(k.writeWait)
Listed(k) == Reads(k) \cup Writes(k)
InWait(k) == Range(k.readWait) \cup Range(k.writeWait)
Fewer(k2, k) == InWait(k2) \subseteq InWait(k)

\* The parts of the invariant about one lock k, the one numbered l, given the
\* types and the statements.  Nobody is on two lists.
Lists(k) ==
    /\ k \in LockType
    /\ Once(k.read) /\ Once(k.readWait) /\ Once(k.write)
    /\ Range(k.read) \cap Range(k.readWait) = {} /\ Range(k.write) \cap Range(k.writeWait) = {}
\* Who is on the lists has a statement that names this lock.
Mine(k, l, ty, wn) ==
    \A d \in Listed(k) : d[2] <= Len(wn[d[1]]) /\ Asked(wn, d).lock = l /\ ty[d] # TL_UNLOCK
\* Reads are among reads, and writes among writes.
Kinds(k, ty, wn) ==
    /\ \A d \in Reads(k) : ty[d] \in Types /\ IsRead(ty[d]) /\ ty[d] = Asked(wn, d).type
    /\ \A d \in Writes(k) : Became(Asked(wn, d).type, ty[d])
Order(k, ty, wn) == InOrder(k.write) /\ TailAsked(k.write, ty, wn) /\ OneEach(k.writeWait)
\* The write lock w and the read lock r may be held together.
Goes(w, r, ty) == r[1] # w[1] => /\ ty[w] \notin {TL_WRITE_LOW_PRIORITY, TL_WRITE}
                                 /\ ~(ty[w] = TL_WRITE_CONCURRENT_INSERT /\ ty[r] = TL_READ_NO_INSERT)
Shared(k, ty, wn) ==
    /\ \A w \in Range(k.write) : \A r \in Range(k.read) : Goes(w, r, ty)
    /\ \A v, w \in Range(k.write) : v[1] # w[1] =>
          Asked(wn, v).type = TL_WRITE_ALLOW_WRITE /\ Asked(wn, w).type = TL_WRITE_ALLOW_WRITE
\* The count of read locks that forbid concurrent inserts is exact.
NoIns(D, ty) == {d \in D : ty[d] = TL_READ_NO_INSERT}
Count(k, ty) == k.noInsert = Cardinality(NoIns(Range(k.read), ty))
Calm(k, l, ty, wn) ==
    Lists(k) /\ Mine(k, l, ty, wn) /\ Kinds(k, ty, wn) /\ Order(k, ty, wn) /\ Shared(k, ty, wn) /\ Count(k, ty)
\* Nobody waits for a lock that nobody holds.
Held(k) == k.read # <<>> \/ k.write # <<>>
Busy(k) == Held(k) \/ (k.readWait = <<>> /\ k.writeWait = <<>>)

\* The numbers of the lock types, once for all proofs.
TypeValues == /\ TL_UNLOCK = 0 /\ TL_READ = 1 /\ TL_READ_HIGH_PRIORITY = 3 /\ TL_READ_NO_INSERT = 4
              /\ TL_WRITE_ALLOW_WRITE = 5 /\ TL_WRITE_ALLOW_READ = 6 /\ TL_WRITE_CONCURRENT_INSERT = 7
              /\ TL_WRITE_DELAYED = 8 /\ TL_WRITE_LOW_PRIORITY = 9 /\ TL_WRITE = 10 /\ TL_WRITE_ONLY = 11
\* The constants of thr_lock_type have the values that the enumeration gives them.
LEMMA TypeNumbers == TypeValues
  BY DEF TypeValues, TL_UNLOCK, TL_READ, TL_READ_HIGH_PRIORITY, TL_READ_NO_INSERT, TL_WRITE_ALLOW_WRITE,
         TL_WRITE_ALLOW_READ, TL_WRITE_CONCURRENT_INSERT, TL_WRITE_DELAYED, TL_WRITE_LOW_PRIORITY, TL_WRITE,
         TL_WRITE_ONLY
-----------------------------------------------------------------------------
\* The range of a list.
LEMMA RangeOf ==
    ASSUME NEW S, NEW q \in Seq(S)
    PROVE  /\ \A e : e \in Range(q) <=> \E i \in 1..Len(q) : q[i] = e
           /\ Range(q) \subseteq S
           /\ q = <<>> <=> Range(q) = {}
           /\ q # <<>> => Head(q) \in Range(q) /\ Head(q) = q[1] /\ Len(q) >= 1
           /\ Len(q) \in Nat
<1>1. Len(q) \in Nat /\ DOMAIN q = 1..Len(q) /\ \A i \in 1..Len(q) : q[i] \in S
  OBVIOUS
<1>2. \A e : e \in Range(q) <=> \E i \in 1..Len(q) : q[i] = e
  BY <1>1, Zenon DEF Range
<1>3. q # <<>> => Head(q) = q[1] /\ Len(q) >= 1
  OBVIOUS
<1>4. q = <<>> => Len(q) = 0
  OBVIOUS
<1>5. q # <<>> => Head(q) \in Range(q)
  <2>1. q # <<>> => 1 \in 1..Len(q)
    BY <1>1, <1>3
  <2> QED
    BY <2>1, <1>2, <1>3
<1>6. q = <<>> => Range(q) = {}
  <2>1. q = <<>> => \A e : e \notin Range(q)
    BY <1>2, <1>4
  <2> QED
    BY <2>1
<1> QED
  BY <1>1, <1>2, <1>3, <1>5, <1>6

\* A list with one more at its end.
LEMMA AppendFacts ==
    ASSUME NEW S, NEW q \in Seq(S), NEW d \in S
    PROVE  /\ Append(q, d) \in Seq(S) /\ Range(Append(q, d)) = Range(q) \cup {d}
           /\ Len(Append(q, d)) = Len(q) + 1 /\ Append(q, d)[Len(q) + 1] = d
           /\ \A i \in 1..Len(q) : Append(q, d)[i] = q[i]
<1>1. /\ Append(q, d) \in Seq(S) /\ Len(q) \in Nat
      /\ Len(Append(q, d)) = Len(q) + 1 /\ Append(q, d)[Len(q) + 1] = d
      /\ \A i \in 1..Len(q) : Append(q, d)[i] = q[i]
  OBVIOUS
<1>2. \A i \in 1..Len(q) + 1 : i \in 1..Len(q) \/ i = Len(q) + 1
  BY <1>1
<1>3. \A i \in 1..Len(q) : i \in 1..Len(q) + 1
  BY <1>1
<1>4. Len(q) + 1 \in 1..Len(q) + 1
  BY <1>1
<1> DEFINE p == Append(q, d)
           n == Len(q)
<1> HIDE DEF p
<1>5. \A e : e \in Range(p) <=> \E i \in 1..n + 1 : p[i] = e
  BY <1>1, RangeOf DEF p
<1>6. \A e : e \in Range(q) <=> \E i \in 1..n : q[i] = e
  BY RangeOf
<1>7. \A e : e \in Range(p) <=> e \in Range(q) \cup {d}
  <2> HIDE DEF n
  <2>1. (\A i \in 1..n : p[i] = q[i]) /\ p[n + 1] = d
    BY <1>1 DEF p, n
  <2>2. (\A i \in 1..n + 1 : i \in 1..n \/ i = n + 1) /\ (\A i \in 1..n : i \in 1..n + 1) /\ n + 1 \in 1..n + 1
    BY <1>2, <1>3, <1>4 DEF n
  <2> QED
    BY <1>5, <1>6, <2>1, <2>2, Zenon
<1> QED
  BY <1>1, <1>7 DEF p

\* One list after another.
LEMMA ConcatFacts ==
    ASSUME NEW S, NEW q \in Seq(S), NEW r \in Seq(S)
    PROVE  /\ q \o r \in Seq(S) /\ Range(q \o r) = Range(q) \cup Range(r)
           /\ Len(q \o r) = Len(q) + Len(r)
           /\ \A i \in 1..Len(q) : (q \o r)[i] = q[i]
           /\ \A i \in 1..Len(r) : (q \o r)[Len(q) + i] = r[i]
           /\ \A i \in 1..Len(q) + Len(r) : i \in 1..Len(q) \/ \E j \in 1..Len(r) : i = Len(q) + j
<1> DEFINE p == q \o r
           n == Len(q)
           m == Len(r)
<1>1. /\ p \in Seq(S) /\ n \in Nat /\ m \in Nat
      /\ Len(p) = n + m
      /\ \A i \in 1..n : p[i] = q[i]
      /\ \A i \in 1..m : p[n + i] = r[i]
  OBVIOUS
<1>5. \A e : e \in Range(p) <=> \E i \in 1..n + m : p[i] = e
  BY <1>1, RangeOf
<1>6. \A e : e \in Range(q) <=> \E i \in 1..n : q[i] = e
  BY RangeOf
<1>7. \A e : e \in Range(r) <=> \E i \in 1..m : r[i] = e
  BY RangeOf
<1> HIDE DEF p, n, m
<1>2. \A i \in 1..n + m : i \in 1..n \/ \E j \in 1..m : i = n + j
  <2> SUFFICES ASSUME NEW i \in 1..n + m, i \notin 1..n PROVE \E j \in 1..m : i = n + j
    OBVIOUS
  <2>1. i - n \in 1..m /\ i = n + (i - n)
    BY <1>1
  <2> QED
    BY <2>1
<1>3. (\A i \in 1..n : i \in 1..n + m) /\ (\A i \in 1..m : n + i \in 1..n + m)
  BY <1>1
<1>8. \A e : e \in Range(p) <=> e \in Range(q) \cup Range(r)
  <2>1. ASSUME NEW i \in 1..n + m PROVE p[i] \in Range(q) \cup Range(r)
    <3>1. CASE i \in 1..n
      BY <1>1, <1>6, <3>1
    <3>2. CASE i \notin 1..n
      <4>1. PICK j \in 1..m : i = n + j
        BY <1>2, <3>2
      <4>2. p[i] = r[j]
        BY <1>1, <4>1
      <4> QED
        BY <1>7, <4>2
    <3> QED
      BY <3>1, <3>2
  <2>2. \A e : e \in Range(q) => e \in Range(p)
    BY <1>1, <1>3, <1>5, <1>6
  <2>3. \A e : e \in Range(r) => e \in Range(p)
    BY <1>1, <1>3, <1>5, <1>7
  <2> QED
    BY <2>1, <2>2, <2>3, <1>5
<1> QED
  BY <1>1, <1>2, <1>8 DEF p, n, m

\* What is left of a list keeps its order, and nobody gets to its front from nowhere.
LEMMA RestOrder ==
    ASSUME NEW S, NEW s \in Seq(S), NEW W
    PROVE  /\ \A i, j \in 1..Len(Rest(s, W)) : i < j =>
                \E a, b \in 1..Len(s) : a < b /\ s[a] = Rest(s, W)[i] /\ s[b] = Rest(s, W)[j]
           /\ \A j \in 2..Len(Rest(s, W)) : \E b \in 2..Len(s) : s[b] = Rest(s, W)[j]
           /\ Len(Rest(s, W)) \in Nat
<1> DEFINE t == Rest(s, W)
<1>1. t \in Seq(S)
  BY RestFacts
<1>2. PICK f \in [1..Len(t) -> 1..Len(s)] :
        /\ \A i \in 1..Len(t) : t[i] = s[f[i]]
        /\ \A i, j \in 1..Len(t) : i < j => f[i] < f[j]
  BY RestFacts
<1>3. Len(t) \in Nat /\ Len(s) \in Nat
  BY <1>1
<1> DEFINE n == Len(t)
           m == Len(s)
<1> HIDE DEF t, n, m
<1>4. \A i, j \in 1..n : i < j => \E a, b \in 1..m : a < b /\ s[a] = t[i] /\ s[b] = t[j]
  BY <1>2 DEF n, m
<1>5. ASSUME NEW j \in 2..n PROVE \E b \in 2..m : s[b] = t[j]
  <2>1. 1 \in 1..n /\ j \in 1..n /\ 1 < j
    BY <1>3 DEF n
  <2>2. PICK a, b \in 1..m : a < b /\ s[b] = t[j]
    BY <2>1, <1>4
  <2>3. b \in 2..m
    BY <2>2, <1>3 DEF m
  <2> QED
    BY <2>2, <2>3
<1> QED
  BY <1>3, <1>4, <1>5 DEF t, n, m

\* What is left of a list has the properties of the list.
LEMMA RestLists ==
    ASSUME NEW S, NEW s \in Seq(S), NEW W, NEW ty, NEW wn
    PROVE  /\ Once(s) => Once(Rest(s, W))
           /\ InOrder(s) => InOrder(Rest(s, W))
           /\ OneEach(s) => OneEach(Rest(s, W))
           /\ TailAsked(s, ty, wn) => TailAsked(Rest(s, W), ty, wn)
<1> DEFINE t == Rest(s, W)
           n == Len(t)
           m == Len(s)
<1>1. /\ \A i, j \in 1..n : i < j => \E a, b \in 1..m : a < b /\ s[a] = t[i] /\ s[b] = t[j]
      /\ \A j \in 2..n : \E b \in 2..m : s[b] = t[j]
      /\ n \in Nat /\ m \in Nat
  <2>1. m \in Nat
    OBVIOUS
  <2>2. /\ \A i, j \in 1..Len(Rest(s, W)) : i < j =>
              \E a, b \in 1..Len(s) : a < b /\ s[a] = Rest(s, W)[i] /\ s[b] = Rest(s, W)[j]
        /\ \A j \in 2..Len(Rest(s, W)) : \E b \in 2..Len(s) : s[b] = Rest(s, W)[j]
        /\ Len(Rest(s, W)) \in Nat
    BY RestOrder
  <2> QED
    BY <2>1, <2>2
<1>2. /\ Once(s) <=> \A i, j \in 1..m : s[i] = s[j] => i = j
      /\ InOrder(s) <=> \A i, j \in 1..m : i < j /\ s[i][1] = s[j][1] => s[i][2] < s[j][2]
      /\ OneEach(s) <=> \A i, j \in 1..m : i # j => s[i][1] # s[j][1]
  BY DEF Once, InOrder, OneEach
<1> HIDE DEF t, n, m
<1>a. \A i, j \in 1..n : i # j => i < j \/ j < i
  BY <1>1
<1>b. \A a, b \in 1..m : a < b => a # b
  BY <1>1
<1>3. ASSUME Once(s) PROVE \A i, j \in 1..n : t[i] = t[j] => i = j
  BY <1>1, <1>2, <1>3, <1>a, <1>b
<1>4. ASSUME InOrder(s) PROVE \A i, j \in 1..n : i < j /\ t[i][1] = t[j][1] => t[i][2] < t[j][2]
  <2> SUFFICES ASSUME NEW i \in 1..n, NEW j \in 1..n, i < j, t[i][1] = t[j][1] PROVE t[i][2] < t[j][2]
    OBVIOUS
  <2>1. PICK a, b \in 1..m : a < b /\ s[a] = t[i] /\ s[b] = t[j]
    BY <1>1
  <2> QED
    BY <1>2, <1>4, <2>1
<1>5. ASSUME OneEach(s) PROVE \A i, j \in 1..n : i # j => t[i][1] # t[j][1]
  <2>1. ASSUME NEW i \in 1..n, NEW j \in 1..n, i < j PROVE t[i][1] # t[j][1]
    <3>1. PICK a, b \in 1..m : a < b /\ s[a] = t[i] /\ s[b] = t[j]
      BY <1>1, <2>1
    <3>2. a # b
      BY <3>1, <1>b
    <3> QED
      BY <1>2, <1>5, <3>1, <3>2
  <2> QED
    BY <2>1, <1>a
<1>6. TailAsked(s, ty, wn) => TailAsked(t, ty, wn)
  BY <1>1 DEF TailAsked, n, m
<1> QED
  BY <1>3, <1>4, <1>5, <1>6 DEF t, n, Once, InOrder, OneEach

-----------------------------------------------------------------------------
(***************************************************************************)
(* The lists of one lock, and what the operations make of them.            *)
(***************************************************************************)
\* A list has finitely many elements.
LEMMA RangeFinite ==
    ASSUME NEW S, NEW q \in Seq(S)
    PROVE  IsFiniteSet(Range(q))
<1>1. IsFiniteSet(1..Len(q))
  <2>1. Len(q) \in Nat
    OBVIOUS
  <2> QED
    BY <2>1, FS_Interval
<1>2. Range(q) = {q[i] : i \in 1..Len(q)}
  BY DEF Range
<1>3. q \in Surjection(1..Len(q), Range(q))
  <2>1. q \in [1..Len(q) -> Range(q)]
    BY <1>2
  <2> QED
    BY <2>1, <1>2 DEF Surjection
<1> QED
  BY <1>1, <1>3, FS_Surjection

\* The fields of a lock.
LEMMA LockFields ==
    ASSUME NEW k, Lists(k)
    PROVE  /\ k.read \in Seq(Data) /\ k.readWait \in Seq(Data)
           /\ k.write \in Seq(Data) /\ k.writeWait \in Seq(Data)
           /\ k.noInsert \in Int /\ k.writeCount \in Nat
  BY DEF Lists, LockType

\* The elements that are left of a list.
LEMMA RestRange ==
    ASSUME NEW S, NEW s \in Seq(S), NEW W
    PROVE  Rest(s, W) \in Seq(S) /\ Range(Rest(s, W)) = Range(s) \ W
  BY RestFacts

\* The count of TL_READ_NO_INSERT locks when one of them goes.
LEMMA FewerNoIns ==
    ASSUME NEW q \in Seq(Data), NEW d, NEW ty
    PROVE  /\ d \in NoIns(Range(q), ty) =>
                Cardinality(NoIns(Range(q) \ {d}, ty)) = Cardinality(NoIns(Range(q), ty)) - 1
           /\ d \notin NoIns(Range(q), ty) => NoIns(Range(q) \ {d}, ty) = NoIns(Range(q), ty)
           /\ Cardinality(NoIns(Range(q), ty)) \in Nat
<1> DEFINE D == NoIns(Range(q), ty)
<1>1. IsFiniteSet(Range(q)) /\ D \subseteq Range(q)
  BY RangeFinite DEF NoIns
<1>2. IsFiniteSet(D) /\ Cardinality(D) \in Nat
  BY <1>1, FS_Subset, FS_CardinalityType
<1>3. NoIns(Range(q) \ {d}, ty) = D \ {d}
  BY DEF NoIns
<1> HIDE DEF D
<1>4. d \in D => Cardinality(D \ {d}) = Cardinality(D) - 1
  BY <1>2, FS_RemoveElement
<1>5. d \notin D => D \ {d} = D
  OBVIOUS
<1> QED
  BY <1>2, <1>3, <1>4, <1>5 DEF D

\* A part of a lock's lists, in the same order: what holds of the lists holds of it.
Sub(k2, k) ==
    /\ k2 \in LockType
    /\ Range(k2.read) \subseteq Range(k.read) /\ Range(k2.readWait) \subseteq Range(k.readWait)
    /\ Range(k2.write) \subseteq Range(k.write) /\ Range(k2.writeWait) \subseteq Range(k.writeWait)

\* A part of the lists of a lock that is in order is in order.
LEMMA SubCalm ==
    ASSUME NEW k, NEW k2, NEW l, NEW ty, NEW wn, Calm(k, l, ty, wn), Sub(k2, k),
           Once(k2.read), Once(k2.readWait), Once(k2.write), Order(k2, ty, wn), Count(k2, ty)
    PROVE  Calm(k2, l, ty, wn)
<1>1. Lists(k2)
  BY DEF Calm, Lists, Sub
<1>2. Mine(k2, l, ty, wn)
  BY DEF Calm, Mine, Sub, Listed, Reads, Writes
<1>3. Kinds(k2, ty, wn)
  BY DEF Calm, Kinds, Sub, Reads, Writes
<1>4. Shared(k2, ty, wn)
  BY DEF Calm, Shared, Sub
<1> QED
  BY <1>1, <1>2, <1>3, <1>4 DEF Calm

\* A lock that is taken off its list leaves the rest in order.
LEMMA WithoutCalm ==
    ASSUME NEW k, NEW l, NEW d, Calm(k, l, type, want)
    PROVE  /\ Calm(Without(k, d), l, type, want)
           /\ Listed(Without(k, d)) = Listed(k) \ {d}
           /\ Range(Without(k, d).read) = Range(k.read) \ {d}
           /\ Range(Without(k, d).write) = Range(k.write) \ {d}
           /\ Range(Without(k, d).readWait) = Range(k.readWait) \ {d}
           /\ Range(Without(k, d).writeWait) = Range(k.writeWait) \ {d}
<1> DEFINE w == Without(k, d)
<1>1. Lists(k) /\ Order(k, type, want) /\ Count(k, type)
  BY DEF Calm
<1>2. /\ k.read \in Seq(Data) /\ k.readWait \in Seq(Data)
      /\ k.write \in Seq(Data) /\ k.writeWait \in Seq(Data)
      /\ k.noInsert \in Int /\ k.writeCount \in Nat /\ k \in LockType
  BY <1>1, LockFields DEF Lists
<1>3. /\ w.read = Rest(k.read, {d}) /\ w.readWait = Rest(k.readWait, {d})
      /\ w.write = Rest(k.write, {d}) /\ w.writeWait = Rest(k.writeWait, {d})
      /\ w.noInsert = (IF d \in NoInserts(Range(k.read)) THEN k.noInsert - 1 ELSE k.noInsert)
      /\ w.writeCount = k.writeCount
  BY <1>2 DEF Without, LockType
<1>a. /\ Rest(k.read, {d}) \in Seq(Data) /\ Range(Rest(k.read, {d})) = Range(k.read) \ {d}
      /\ Rest(k.readWait, {d}) \in Seq(Data) /\ Range(Rest(k.readWait, {d})) = Range(k.readWait) \ {d}
      /\ Rest(k.write, {d}) \in Seq(Data) /\ Range(Rest(k.write, {d})) = Range(k.write) \ {d}
      /\ Rest(k.writeWait, {d}) \in Seq(Data) /\ Range(Rest(k.writeWait, {d})) = Range(k.writeWait) \ {d}
  BY <1>2, RestRange
<1>b. w \in LockType
  <2>1. PICK r, rw, v, vw, n :
            /\ r = Rest(k.read, {d}) /\ rw = Rest(k.readWait, {d})
            /\ v = Rest(k.write, {d}) /\ vw = Rest(k.writeWait, {d})
            /\ n = IF d \in NoInserts(Range(k.read)) THEN k.noInsert - 1 ELSE k.noInsert
    OBVIOUS
  <2>2. r \in Seq(Data) /\ rw \in Seq(Data) /\ v \in Seq(Data) /\ vw \in Seq(Data) /\ n \in Int
    BY <2>1, <1>2, <1>a
  <2>3. w = [k EXCEPT !.read = r, !.readWait = rw, !.write = v, !.writeWait = vw, !.noInsert = n]
    BY <2>1, Zenon DEF Without
  <2> HIDE DEF w
  <2> QED
    BY <1>2, <2>2, <2>3 DEF LockType
<1> HIDE DEF w
<1>4. /\ w.read \in Seq(Data) /\ Range(w.read) = Range(k.read) \ {d}
      /\ w.readWait \in Seq(Data) /\ Range(w.readWait) = Range(k.readWait) \ {d}
      /\ w.write \in Seq(Data) /\ Range(w.write) = Range(k.write) \ {d}
      /\ w.writeWait \in Seq(Data) /\ Range(w.writeWait) = Range(k.writeWait) \ {d}
  BY <1>3, <1>a
<1>5. Sub(w, k)
  BY <1>b, <1>4 DEF Sub
<1>6. Once(w.read) /\ Once(w.readWait) /\ Once(w.write)
  BY <1>1, <1>2, <1>3, RestLists DEF Lists
<1>7. Order(w, type, want)
  <2>1. InOrder(k.write) /\ TailAsked(k.write, type, want) /\ OneEach(k.writeWait)
    BY <1>1 DEF Order
  <2>2. InOrder(w.write) /\ TailAsked(w.write, type, want)
    BY <2>1, <1>2, <1>3, RestLists
  <2>3. OneEach(w.writeWait)
    BY <2>1, <1>2, <1>3, RestLists
  <2> QED
    BY <2>2, <2>3 DEF Order
<1>8. Count(w, type)
  <2>1. NoInserts(Range(k.read)) = NoIns(Range(k.read), type)
    BY DEF NoInserts, NoIns
  <2>2. k.noInsert = Cardinality(NoIns(Range(k.read), type))
    BY <1>1 DEF Count
  <2>3. w.noInsert = Cardinality(NoIns(Range(k.read) \ {d}, type))
    <3>1. CASE d \in NoIns(Range(k.read), type)
      BY <3>1, <2>1, <2>2, <1>2, <1>3, FewerNoIns
    <3>2. CASE d \notin NoIns(Range(k.read), type)
      BY <3>2, <2>1, <2>2, <1>2, <1>3, FewerNoIns
    <3> QED
      BY <3>1, <3>2
  <2> QED
    BY <2>3, <1>4 DEF Count
<1>9. Calm(w, l, type, want)
  BY <1>5, <1>6, <1>7, <1>8, SubCalm
<1>10. Listed(w) = Listed(k) \ {d}
  BY <1>4 DEF Listed, Reads, Writes
<1> QED
  BY <1>4, <1>9, <1>10 DEF w

\* Two lists without common elements make one without repetition.
LEMMA OnceConcat ==
    ASSUME NEW S, NEW q \in Seq(S), NEW r \in Seq(S), Once(q), Once(r), Range(q) \cap Range(r) = {}
    PROVE  Once(q \o r)
<1> DEFINE p == q \o r
           n == Len(q)
           m == Len(r)
<1>1. /\ Len(p) = n + m /\ n \in Nat /\ m \in Nat
      /\ \A i \in 1..n : p[i] = q[i]
      /\ \A i \in 1..m : p[n + i] = r[i]
      /\ \A i \in 1..n + m : i \in 1..n \/ \E j \in 1..m : i = n + j
  <2>1. n \in Nat /\ m \in Nat
    OBVIOUS
  <2>2. /\ Len(q \o r) = Len(q) + Len(r)
        /\ \A i \in 1..Len(q) : (q \o r)[i] = q[i]
        /\ \A i \in 1..Len(r) : (q \o r)[Len(q) + i] = r[i]
        /\ \A i \in 1..Len(q) + Len(r) : i \in 1..Len(q) \/ \E j \in 1..Len(r) : i = Len(q) + j
    BY ConcatFacts
  <2> QED
    BY <2>1, <2>2
<1>2. \A i \in 1..n, j \in 1..m : q[i] # r[j]
  BY RangeOf
<1>3. (\A i, j \in 1..n : q[i] = q[j] => i = j) /\ (\A i, j \in 1..m : r[i] = r[j] => i = j)
  BY DEF Once
<1> HIDE DEF p, n, m
<1>4. ASSUME NEW i \in 1..n + m, NEW j \in 1..n + m, p[i] = p[j] PROVE i = j
  <2>1. CASE i \in 1..n /\ j \in 1..n
    BY <2>1, <1>1, <1>3, <1>4
  <2>2. CASE i \in 1..n /\ j \notin 1..n
    <3>1. PICK h \in 1..m : j = n + h
      BY <2>2, <1>1
    <3> QED
      BY <2>2, <3>1, <1>1, <1>2, <1>4
  <2>3. CASE i \notin 1..n /\ j \in 1..n
    <3>1. PICK h \in 1..m : i = n + h
      BY <2>3, <1>1
    <3> QED
      BY <2>3, <3>1, <1>1, <1>2, <1>4
  <2>4. CASE i \notin 1..n /\ j \notin 1..n
    <3>1. PICK g \in 1..m : i = n + g
      BY <2>4, <1>1
    <3>2. PICK h \in 1..m : j = n + h
      BY <2>4, <1>1
    <3>3. r[g] = r[h]
      BY <3>1, <3>2, <1>1, <1>4
    <3>4. g = h
      BY <3>3, <1>3
    <3> QED
      BY <3>1, <3>2, <3>4
  <2> QED
    BY <2>1, <2>2, <2>3, <2>4
<1> QED
  BY <1>1, <1>4 DEF Once, p

\* The count of TL_READ_NO_INSERT locks of two sets.
LEMMA MoreNoIns ==
    ASSUME NEW D, NEW E, NEW C, NEW ty, IsFiniteSet(D), IsFiniteSet(E), C = D \cup E, D \cap E = {}
    PROVE  Cardinality(NoIns(C, ty)) = Cardinality(NoIns(D, ty)) + Cardinality(NoIns(E, ty))
<1> DEFINE A == NoIns(D, ty)
           B == NoIns(E, ty)
<1>1. IsFiniteSet(A) /\ IsFiniteSet(B)
  <2>1. A \subseteq D /\ B \subseteq E
    BY DEF NoIns
  <2> QED
    BY <2>1, FS_Subset
<1>2. A \cap B = {} /\ NoIns(C, ty) = A \cup B
  BY DEF NoIns
<1> HIDE DEF A, B
<1>3. Cardinality(A \cup B) = Cardinality(A) + Cardinality(B) - Cardinality(A \cap B)
  BY <1>1, FS_Union
<1>4. Cardinality(A) \in Nat /\ Cardinality(B) \in Nat /\ Cardinality(A \cap B) = 0
  BY <1>1, <1>2, FS_CardinalityType, FS_EmptySet
<1>5. Cardinality(A \cup B) = Cardinality(A) + Cardinality(B)
  BY <1>3, <1>4
<1> QED
  BY <1>2, <1>5 DEF A, B

\* The waiting read locks that free_all_read_locks leaves waiting.
Stays(k, inserting) == IF inserting THEN NoInserts(Range(k.readWait)) ELSE {}

\* The fields of a lock after free_all_read_locks.
LEMMA FreeAllFields ==
    ASSUME NEW k, NEW ins \in BOOLEAN, Lists(k), NEW f, f = FreeAllReadLocks(k, ins)
    PROVE  /\ f.read = k.read \o Rest(k.readWait, Stays(k, ins))
           /\ f.readWait = Rest(k.readWait, Range(k.readWait) \ Stays(k, ins))
           /\ f.write = k.write /\ f.writeWait = k.writeWait
           /\ f.noInsert = k.noInsert + Cardinality(NoInserts(Range(k.readWait) \ Stays(k, ins)))
           /\ f \in LockType
<1>1. /\ k.read \in Seq(Data) /\ k.readWait \in Seq(Data)
      /\ k.noInsert \in Int /\ k.writeCount \in Nat /\ k \in LockType
  BY LockFields DEF Lists
<1>2. PICK r, rw, n, c :
        /\ r = k.read \o Rest(k.readWait, Stays(k, ins))
        /\ rw = Rest(k.readWait, Range(k.readWait) \ Stays(k, ins))
        /\ n = k.noInsert + Cardinality(NoInserts(Range(k.readWait) \ Stays(k, ins)))
        /\ c = IF Range(k.readWait) # {} /\ Stays(k, ins) = {} THEN 0 ELSE k.writeCount
  OBVIOUS
<1>3. f = [k EXCEPT !.read = r, !.readWait = rw, !.noInsert = n, !.writeCount = c]
  BY <1>2, Zenon DEF FreeAllReadLocks, Stays
<1>4. r \in Seq(Data) /\ rw \in Seq(Data) /\ c \in Nat
  <2>1. Rest(k.readWait, Stays(k, ins)) \in Seq(Data)
    BY <1>1, RestRange
  <2>2. Rest(k.readWait, Range(k.readWait) \ Stays(k, ins)) \in Seq(Data)
    BY <1>1, RestRange
  <2> QED
    BY <2>1, <2>2, <1>1, <1>2, ConcatFacts
<1>5. n \in Int
  <2>1. IsFiniteSet(Range(k.readWait))
    BY <1>1, RangeFinite
  <2>2. NoInserts(Range(k.readWait) \ Stays(k, ins)) \subseteq Range(k.readWait)
    BY DEF NoInserts
  <2>3. Cardinality(NoInserts(Range(k.readWait) \ Stays(k, ins))) \in Nat
    BY <2>1, <2>2, FS_Subset, FS_CardinalityType
  <2> QED
    BY <2>3, <1>1, <1>2
<1>6. f.read = r /\ f.readWait = rw /\ f.write = k.write /\ f.writeWait = k.writeWait /\ f.noInsert = n
  BY <1>1, <1>3 DEF LockType
<1>7. f \in LockType
  BY <1>1, <1>3, <1>4, <1>5 DEF LockType
<1> QED
  BY <1>2, <1>6, <1>7

\* free_all_read_locks leaves the lists in order where no write lock forbids it.
LEMMA FreeAllCalm ==
    ASSUME NEW k, NEW l, NEW ins \in BOOLEAN, Calm(k, l, type, want),
           \A w \in Range(k.write) : /\ type[w] \notin {TL_WRITE_LOW_PRIORITY, TL_WRITE}
                                     /\ type[w] = TL_WRITE_CONCURRENT_INSERT => ins,
           NEW f, f = FreeAllReadLocks(k, ins)
    PROVE  /\ Calm(f, l, type, want)
           /\ Listed(f) = Listed(k)
           /\ f.write = k.write /\ f.writeWait = k.writeWait
           /\ Range(f.read) = Range(k.read) \cup (Range(k.readWait) \ Stays(k, ins))
           /\ Range(f.readWait) = Stays(k, ins)
           /\ Fewer(f, k)
<1>1. Lists(k) /\ Mine(k, l, type, want) /\ Kinds(k, type, want) /\ Order(k, type, want)
      /\ Shared(k, type, want) /\ Count(k, type)
  BY DEF Calm
<1>2. /\ k.read \in Seq(Data) /\ k.readWait \in Seq(Data)
      /\ k.write \in Seq(Data) /\ k.writeWait \in Seq(Data) /\ k.noInsert \in Int
  BY <1>1, LockFields
<1> DEFINE R == Range(k.read)
           Q == Range(k.readWait)
           U == Stays(k, ins)
<1>3. /\ f.read = k.read \o Rest(k.readWait, U)
      /\ f.readWait = Rest(k.readWait, Q \ U)
      /\ f.write = k.write /\ f.writeWait = k.writeWait
      /\ f.noInsert = k.noInsert + Cardinality(NoInserts(Q \ U))
      /\ f \in LockType
  BY <1>1, FreeAllFields
<1>4. U \subseteq Q /\ (ins => U = NoInserts(Q)) /\ R \cap Q = {}
  BY <1>1 DEF Stays, NoInserts, Lists
<1>5. /\ Rest(k.readWait, U) \in Seq(Data) /\ Range(Rest(k.readWait, U)) = Q \ U
      /\ Rest(k.readWait, Q \ U) \in Seq(Data) /\ Range(Rest(k.readWait, Q \ U)) = Q \ (Q \ U)
  BY <1>2, RestRange
<1> HIDE DEF U
<1>6. Range(f.read) = R \cup (Q \ U) /\ Range(f.readWait) = U
  <2>1. Range(f.read) = R \cup (Q \ U)
    BY <1>2, <1>3, <1>5, ConcatFacts
  <2>2. Q \ (Q \ U) = U
    BY <1>4
  <2> QED
    BY <2>1, <2>2, <1>3, <1>5
<1>7. Lists(f)
  <2>1. Once(Rest(k.readWait, U)) /\ Once(Rest(k.readWait, Q \ U))
    BY <1>1, <1>2, RestLists DEF Lists
  <2>2. Once(k.read \o Rest(k.readWait, U))
    <3>1. R \cap Range(Rest(k.readWait, U)) = {}
      BY <1>4, <1>5
    <3> QED
      BY <2>1, <3>1, <1>1, <1>2, <1>5, OnceConcat DEF Lists
  <2>3. Range(f.read) \cap Range(f.readWait) = {}
    BY <1>4, <1>6
  <2> QED
    BY <2>1, <2>2, <2>3, <1>1, <1>3 DEF Lists
<1>8. Reads(f) = Reads(k) /\ Writes(f) = Writes(k) /\ Listed(f) = Listed(k)
  BY <1>3, <1>4, <1>6 DEF Reads, Writes, Listed
<1>9. Mine(f, l, type, want) /\ Kinds(f, type, want)
  BY <1>1, <1>8 DEF Mine, Kinds
<1>10. Order(f, type, want)
  BY <1>1, <1>3 DEF Order
<1>11. Shared(f, type, want)
  <2>1. ASSUME NEW w \in Range(f.write), NEW r \in Range(f.read) PROVE Goes(w, r, type)
    <3>1. CASE r \in R
      BY <3>1, <1>1, <1>3 DEF Shared
    <3>2. CASE r \in Q \ U
      <4>1. w \in Range(k.write)
        BY <1>3
      <4>2. ins => type[r] # TL_READ_NO_INSERT
        BY <3>2, <1>4 DEF NoInserts
      <4> QED
        BY <4>1, <4>2 DEF Goes
    <3> QED
      BY <3>1, <3>2, <1>6
  <2> QED
    BY <2>1, <1>1, <1>3 DEF Shared
<1>12. Count(f, type)
  <2>1. NoInserts(Q \ U) = NoIns(Q \ U, type)
    BY DEF NoInserts, NoIns
  <2>2. Cardinality(NoIns(R \cup (Q \ U), type)) = Cardinality(NoIns(R, type)) + Cardinality(NoIns(Q \ U, type))
    <3>1. PICK D, E, C : D = R /\ E = Q \ U /\ C = R \cup (Q \ U)
      OBVIOUS
    <3>2. IsFiniteSet(D) /\ IsFiniteSet(E)
      <4>1. IsFiniteSet(R) /\ IsFiniteSet(Q) /\ E \subseteq Q
        BY <1>2, <3>1, RangeFinite
      <4> QED
        BY <3>1, <4>1, FS_Subset
    <3>3. D \cap E = {} /\ C = D \cup E
      BY <1>4, <3>1
    <3>4. Cardinality(NoIns(C, type)) = Cardinality(NoIns(D, type)) + Cardinality(NoIns(E, type))
      BY <3>2, <3>3, MoreNoIns
    <3> QED
      BY <3>1, <3>4, Zenon
  <2> QED
    BY <2>1, <2>2, <1>1, <1>3, <1>6 DEF Count
<1>13. Fewer(f, k)
  BY <1>3, <1>4, <1>6 DEF Fewer, InWait
<1> QED
  BY <1>3, <1>6, <1>7, <1>8, <1>9, <1>10, <1>11, <1>12, <1>13 DEF Calm, U

\* A set of numbers below a bound has a greatest one.
LEMMA Greatest ==
    ASSUME NEW n \in Nat, NEW T \in SUBSET (1..n), T # {}
    PROVE  \E m \in T : \A i \in T : i <= m
<1> DEFINE U == {u \in Nat : \E i \in T : u = n - i}
<1>0. \A i \in T : i \in Int /\ 1 <= i /\ i <= n
  OBVIOUS
<1>1. U # {}
  <2>1. PICK i \in T : TRUE
    OBVIOUS
  <2>2. n - i \in U
    BY <1>0, <2>1
  <2> QED
    BY <2>2
<1>2. U \in SUBSET Nat
  OBVIOUS
<1>3. PICK u \in U : \A v \in U : u <= v
  <2> HIDE DEF U
  <2> QED
    BY <1>1, <1>2, NatLeast
<1>4. PICK m \in T : u = n - m
  BY <1>3
<1>5. ASSUME NEW i \in T PROVE i <= m
  <2>1. n - i \in U
    BY <1>0
  <2>2. n - m <= n - i
    BY <1>3, <1>4, <2>1
  <2> QED
    BY <2>2, <1>0
<1> QED
  BY <1>5

\* The number of write locks that start together, and their types.
LEMMA TogetherFacts ==
    ASSUME NEW k, k.writeWait \in Seq(Data), k.writeWait # <<>>
    PROVE  /\ Together(k) \in 1..Len(k.writeWait)
           /\ Together(k) = 1 \/ \A j \in 1..Together(k) : type[k.writeWait[j]] = TL_WRITE_ALLOW_WRITE
<1> DEFINE n == Len(k.writeWait)
           A(j) == type[k.writeWait[j]] = TL_WRITE_ALLOW_WRITE
           P(m) == \A i \in 1..m : i = 1 \/ \A j \in 1..i : A(j)
           T == {m \in 1..n : P(m)}
<1>1. n \in Nat /\ n >= 1
  BY RangeOf
<1> HIDE DEF A, n
<1>2. 1 \in T
  BY <1>1
<1>3. PICK m \in T : \A i \in T : i <= m
  <2>1. T \in SUBSET (1..n)
    OBVIOUS
  <2> HIDE DEF T
  <2> QED
    BY <1>1, <1>2, <2>1, Greatest
<1>4. m = n \/ ~A(m) \/ ~A(m + 1)
  <2> SUFFICES ASSUME m # n, A(m), A(m + 1) PROVE FALSE
    OBVIOUS
  <2>1. m + 1 \in 1..n /\ ~(m + 1 <= m) /\ m \in 1..n
    BY <1>1, <1>3
  <2>2. \A j \in 1..m + 1 : A(j)
    <3>1. \A j \in 1..m : A(j)
      BY <1>3, <2>1
    <3>2. \A j \in 1..m + 1 : j \in 1..m \/ j = m + 1
      BY <2>1
    <3> QED
      BY <3>1, <3>2
  <2>3. \A i \in 1..m + 1 : \A j \in 1..i : j \in 1..m + 1
    BY <2>1
  <2>4. P(m + 1)
    BY <2>2, <2>3
  <2> QED
    BY <2>1, <2>4, <1>3
<1> DEFINE C(x) == /\ \A i \in 1..x : i = 1 \/ \A j \in 1..i : A(j)
                   /\ x = n \/ ~A(x) \/ ~A(x + 1)
<1>5. \E x \in 1..n : C(x)
  BY <1>3, <1>4
<1>6. Together(k) = CHOOSE x \in 1..n : C(x)
  BY Zenon DEF Together, A, n
<1>7. Together(k) \in 1..n /\ C(Together(k))
  <2> HIDE DEF C
  <2> QED
    BY <1>5, <1>6, Zenon
<1>8. Together(k) = 1 \/ \A j \in 1..Together(k) : A(j)
  <2>1. PICK x : x = Together(k)
    OBVIOUS
  <2>2. x \in 1..n /\ x \in 1..x /\ (\A i \in 1..x : i = 1 \/ \A j \in 1..i : A(j))
    BY <1>1, <1>7, <2>1
  <2>3. x = 1 \/ \A j \in 1..x : A(j)
    BY <2>2
  <2> QED
    BY <2>1, <2>3
<1> QED
  BY <1>7, <1>8 DEF A, n

\* A list in two parts.
LEMMA Cut ==
    ASSUME NEW S, NEW q \in Seq(S), NEW m \in 1..Len(q)
    PROVE  /\ SubSeq(q, 1, m) \in Seq(S) /\ Len(SubSeq(q, 1, m)) = m
           /\ \A i \in 1..m : SubSeq(q, 1, m)[i] = q[i]
           /\ SubSeq(q, m + 1, Len(q)) \in Seq(S) /\ Len(SubSeq(q, m + 1, Len(q))) = Len(q) - m
           /\ \A i \in 1..Len(q) - m : SubSeq(q, m + 1, Len(q))[i] = q[m + i]
           /\ Range(q) = Range(SubSeq(q, 1, m)) \cup Range(SubSeq(q, m + 1, Len(q)))
<1> DEFINE a == SubSeq(q, 1, m)
           b == SubSeq(q, m + 1, Len(q))
           n == Len(q)
<1>1. /\ a \in Seq(S) /\ Len(a) = m /\ \A i \in 1..m : a[i] = q[i]
      /\ n \in Nat /\ m \in Nat /\ m <= n
  OBVIOUS
<1>2. b \in Seq(S) /\ Len(b) = n - m /\ \A i \in 1..n - m : b[i] = q[m + i]
  OBVIOUS
<1>3. /\ \A e : e \in Range(q) <=> \E i \in 1..n : q[i] = e
      /\ \A e : e \in Range(a) <=> \E i \in 1..m : a[i] = e
      /\ \A e : e \in Range(b) <=> \E i \in 1..n - m : b[i] = e
  <2> HIDE DEF a, b
  <2>1. \A e : e \in Range(q) <=> \E i \in 1..n : q[i] = e
    BY RangeOf
  <2>2. \A e : e \in Range(a) <=> \E i \in 1..Len(a) : a[i] = e
    BY <1>1, RangeOf
  <2>3. \A e : e \in Range(b) <=> \E i \in 1..Len(b) : b[i] = e
    BY <1>2, RangeOf
  <2> QED
    BY <2>1, <2>2, <2>3, <1>1, <1>2
<1> HIDE DEF a, b, n
<1>4. \A i \in 1..n : i \in 1..m \/ \E j \in 1..n - m : i = m + j
  <2> SUFFICES ASSUME NEW i \in 1..n, i \notin 1..m PROVE \E j \in 1..n - m : i = m + j
    OBVIOUS
  <2>1. i - m \in 1..n - m /\ i = m + (i - m)
    BY <1>1
  <2> QED
    BY <2>1
<1>5. (\A i \in 1..m : i \in 1..n) /\ (\A i \in 1..n - m : m + i \in 1..n)
  BY <1>1
<1>6. Range(q) = Range(a) \cup Range(b)
  <2>1. ASSUME NEW i \in 1..n PROVE q[i] \in Range(a) \cup Range(b)
    <3>1. CASE i \in 1..m
      BY <3>1, <1>1, <1>3
    <3>2. CASE \E j \in 1..n - m : i = m + j
      BY <3>2, <1>2, <1>3
    <3> QED
      BY <3>1, <3>2, <1>4
  <2>2. \A e : e \in Range(a) => e \in Range(q)
    BY <1>1, <1>3, <1>5
  <2>3. \A e : e \in Range(b) => e \in Range(q)
    BY <1>2, <1>3, <1>5
  <2> QED
    BY <2>1, <2>2, <2>3, <1>3
<1> QED
  BY <1>1, <1>2, <1>6 DEF a, b, n

\* The fields of a lock after the first waiting write locks start.
LEMMA StartFields ==
    ASSUME NEW k, Lists(k), k.write = <<>>, k.writeWait # <<>>, NEW s, s = StartWrites(k),
           NEW m, m = Together(k)
    PROVE  /\ m \in 1..Len(k.writeWait)
           /\ s.write = SubSeq(k.writeWait, 1, m) /\ s.writeWait = SubSeq(k.writeWait, m + 1, Len(k.writeWait))
           /\ s.read = k.read /\ s.readWait = k.readWait /\ s.noInsert = k.noInsert
           /\ s \in LockType
<1>1. /\ k.writeWait \in Seq(Data) /\ k \in LockType
  BY LockFields DEF Lists
<1>2. m \in 1..Len(k.writeWait)
  BY <1>1, TogetherFacts
<1>3. PICK w, ww : /\ w = k.write \o SubSeq(k.writeWait, 1, m)
                   /\ ww = SubSeq(k.writeWait, m + 1, Len(k.writeWait))
  OBVIOUS
<1>4. s = [k EXCEPT !.write = w, !.writeWait = ww]
  BY <1>3, Zenon DEF StartWrites
<1>5. SubSeq(k.writeWait, 1, m) \in Seq(Data) /\ SubSeq(k.writeWait, m + 1, Len(k.writeWait)) \in Seq(Data)
  BY <1>1, <1>2, Cut
<1>6. w = SubSeq(k.writeWait, 1, m)
  BY <1>3, <1>5
<1>7. w \in Seq(Data) /\ ww \in Seq(Data)
  BY <1>3, <1>5, <1>6
<1>8. s \in LockType
  BY <1>1, <1>4, <1>7 DEF LockType
<1>9. s.write = w /\ s.writeWait = ww /\ s.read = k.read /\ s.readWait = k.readWait /\ s.noInsert = k.noInsert
  BY <1>1, <1>4 DEF LockType
<1> QED
  BY <1>2, <1>3, <1>6, <1>8, <1>9

\* All write locks that are held have the type of h, which is one of them.
Leads(s, h) ==
    /\ h \in Range(s.write)
    /\ \A w \in Range(s.write) : type[w] = type[h]
    /\ type[h] # TL_WRITE_ALLOW_WRITE => Range(s.write) = {h}

\* Waiting write locks start: the lists are in order where the read locks allow them.
LEMMA StartCalm ==
    ASSUME NEW k, NEW l, Calm(k, l, type, want), k.write = <<>>, k.writeWait # <<>>,
           NEW h, h = Head(k.writeWait), k.read = <<>> \/ WithReads(k, type[h]),
           NEW s, s = StartWrites(k)
    PROVE  /\ Calm(s, l, type, want) /\ Listed(s) = Listed(k)
           /\ s.read = k.read /\ s.readWait = k.readWait
           /\ Leads(s, h)
           /\ Fewer(s, k)
<1>1. Lists(k) /\ Mine(k, l, type, want) /\ Kinds(k, type, want) /\ Order(k, type, want)
      /\ Shared(k, type, want) /\ Count(k, type)
  BY DEF Calm
<1>2. /\ k.read \in Seq(Data) /\ k.readWait \in Seq(Data)
      /\ k.write \in Seq(Data) /\ k.writeWait \in Seq(Data) /\ k.noInsert \in Int
  BY <1>1, LockFields
<1> DEFINE q == k.writeWait
           n == Len(q)
<1>3. PICK m : m = Together(k)
  OBVIOUS
<1>4. /\ m \in 1..n
      /\ s.write = SubSeq(q, 1, m) /\ s.writeWait = SubSeq(q, m + 1, n)
      /\ s.read = k.read /\ s.readWait = k.readWait /\ s.noInsert = k.noInsert
      /\ s \in LockType
  BY <1>1, <1>3, StartFields
<1>5. m = 1 \/ \A j \in 1..m : type[q[j]] = TL_WRITE_ALLOW_WRITE
  BY <1>2, <1>3, TogetherFacts
<1>6. /\ s.write \in Seq(Data) /\ Len(s.write) = m /\ \A i \in 1..m : s.write[i] = q[i]
      /\ s.writeWait \in Seq(Data) /\ Len(s.writeWait) = n - m /\ \A i \in 1..n - m : s.writeWait[i] = q[m + i]
      /\ Range(q) = Range(s.write) \cup Range(s.writeWait)
  BY <1>2, <1>4, Cut
<1>7. \A i, j \in 1..n : i # j => q[i][1] # q[j][1]
  BY <1>1 DEF Order, OneEach
<1> HIDE DEF q, n
<1>8. /\ \A e : e \in Range(s.write) <=> \E i \in 1..m : q[i] = e
      /\ \A e : e \in Range(s.writeWait) <=> \E i \in 1..n - m : q[m + i] = e
  <2>1. PICK v, vw : v = s.write /\ vw = s.writeWait
    OBVIOUS
  <2>2. v \in Seq(Data) /\ Len(v) = m /\ \A i \in 1..m : v[i] = q[i]
    BY <2>1, <1>6
  <2>3. vw \in Seq(Data) /\ Len(vw) = n - m /\ \A i \in 1..n - m : vw[i] = q[m + i]
    BY <2>1, <1>6
  <2>4. \A e : e \in Range(v) <=> \E i \in 1..m : v[i] = e
    BY <2>2, RangeOf
  <2>5. \A e : e \in Range(vw) <=> \E i \in 1..n - m : vw[i] = e
    BY <2>3, RangeOf
  <2>6. \A e : e \in Range(v) <=> \E i \in 1..m : q[i] = e
    BY <2>2, <2>4
  <2>7. \A e : e \in Range(vw) <=> \E i \in 1..n - m : q[m + i] = e
    BY <2>3, <2>5
  <2> QED
    BY <2>1, <2>6, <2>7
<1>9. h = q[1] /\ n \in Nat /\ m \in Nat /\ m >= 1 /\ m <= n
  BY <1>2, <1>4, RangeOf DEF q, n
<1>10. (\A i \in 1..m : i \in 1..n) /\ (\A i \in 1..n - m : m + i \in 1..n)
       /\ (\A i \in 1..m : \A j \in 1..n - m : i # m + j) /\ 1 \in 1..m
  BY <1>9
<1>11. \A i \in 1..m : i = 1 \/ (type[q[i]] = TL_WRITE_ALLOW_WRITE /\ type[q[1]] = TL_WRITE_ALLOW_WRITE)
  <2>1. CASE m = 1
    <3>1. \A i \in 1..m : i = 1
      BY <2>1
    <3> QED
      BY <3>1, Zenon
  <2>2. CASE \A j \in 1..m : type[q[j]] = TL_WRITE_ALLOW_WRITE
    BY <2>2, <1>10
  <2> QED
    BY <2>1, <2>2, <1>5 DEF q
<1>12. h \in Range(s.write) /\ \A w \in Range(s.write) : type[w] = type[h]
  BY <1>8, <1>9, <1>10, <1>11
<1>13. type[h] # TL_WRITE_ALLOW_WRITE => Range(s.write) = {h}
  <2>1. type[h] # TL_WRITE_ALLOW_WRITE => \A e : e \in Range(s.write) => e = h
    BY <1>8, <1>9, <1>11
  <2> QED
    BY <2>1, <1>12
<1>14. Lists(s)
  <2>1. \A i, j \in 1..m : s.write[i] = s.write[j] => i = j
    <3> SUFFICES ASSUME NEW i \in 1..m, NEW j \in 1..m, i # j PROVE s.write[i] # s.write[j]
      OBVIOUS
    <3>1. i \in 1..n /\ j \in 1..n
      BY <1>10
    <3>2. q[i][1] # q[j][1]
      BY <3>1, <1>7
    <3> QED
      BY <3>2, <1>6
  <2>2. Once(s.write)
    BY <2>1, <1>6 DEF Once
  <2>3. Range(s.write) \cap Range(s.writeWait) = {}
    <3> SUFFICES ASSUME NEW e, e \in Range(s.write), e \in Range(s.writeWait) PROVE FALSE
      OBVIOUS
    <3>1. PICK i \in 1..m : q[i] = e
      BY <1>8
    <3>2. PICK j \in 1..n - m : q[m + j] = e
      BY <1>8
    <3> QED
      BY <3>1, <3>2, <1>7, <1>10
  <2> QED
    BY <2>2, <2>3, <1>1, <1>4 DEF Lists
<1>15. Reads(s) = Reads(k) /\ Writes(s) = Writes(k) /\ Listed(s) = Listed(k)
  <2>1. Range(k.write) = {}
    BY <1>2, RangeOf
  <2> QED
    BY <2>1, <1>4, <1>6 DEF Reads, Writes, Listed, q
<1>16. Mine(s, l, type, want) /\ Kinds(s, type, want)
  BY <1>1, <1>15 DEF Mine, Kinds
<1>17. Order(s, type, want)
  <2>1. \A i, j \in 1..m : i < j => s.write[i][1] # s.write[j][1]
    <3> SUFFICES ASSUME NEW i \in 1..m, NEW j \in 1..m, i < j PROVE s.write[i][1] # s.write[j][1]
      OBVIOUS
    <3>1. i # j
      BY <1>9
    <3> QED
      BY <3>1, <1>6, <1>7, <1>10
  <2>2. InOrder(s.write)
    BY <2>1, <1>6 DEF InOrder
  <2>3. TailAsked(s.write, type, want)
    <3> SUFFICES ASSUME NEW j \in 2..m PROVE type[s.write[j]] = Asked(want, s.write[j]).type
      BY <1>6 DEF TailAsked
    <3>1. j \in 1..m /\ j # 1
      BY <1>9
    <3>2. s.write[j] = q[j] /\ type[q[j]] = TL_WRITE_ALLOW_WRITE /\ q[j] \in Range(s.write)
      BY <3>1, <1>6, <1>8, <1>11
    <3>3. q[j] \in Writes(s)
      BY <3>2 DEF Writes
    <3>4. Became(Asked(want, q[j]).type, TL_WRITE_ALLOW_WRITE)
      BY <3>2, <3>3, <1>16 DEF Kinds
    <3>5. Asked(want, q[j]).type = TL_WRITE_ALLOW_WRITE
      BY <3>4, TypeNumbers DEF Became, TypeValues
    <3> QED
      BY <3>2, <3>5
  <2>4. OneEach(s.writeWait)
    <3>1. \A i, j \in 1..n - m : i # j => m + i # m + j
      BY <1>9
    <3>2. ASSUME NEW i \in 1..n - m, NEW j \in 1..n - m, i # j PROVE s.writeWait[i][1] # s.writeWait[j][1]
      <4>1. m + i \in 1..n /\ m + j \in 1..n
        BY <1>10
      <4>2. q[m + i][1] # q[m + j][1]
        BY <3>1, <3>2, <4>1, <1>7
      <4> QED
        BY <4>2, <1>6
    <3> QED
      BY <3>2, <1>6 DEF OneEach
  <2> QED
    BY <2>2, <2>3, <2>4 DEF Order
<1>18. Count(s, type)
  BY <1>1, <1>4 DEF Count
<1>19. Shared(s, type, want)
  <2>1. ASSUME NEW w \in Range(s.write), NEW r \in Range(s.read) PROVE Goes(w, r, type)
    <3>1. k.read # <<>> /\ r \in Range(k.read)
      BY <2>1, <1>2, <1>4, RangeOf
    <3>2. WithReads(k, type[w])
      BY <3>1, <1>12
    <3>3. type[w] <= TL_WRITE_DELAYED
      BY <3>2 DEF WithReads
    <3>4. type[w] = TL_WRITE_CONCURRENT_INSERT => type[r] # TL_READ_NO_INSERT
      <4> SUFFICES ASSUME type[w] = TL_WRITE_CONCURRENT_INSERT, type[r] = TL_READ_NO_INSERT PROVE FALSE
        OBVIOUS
      <4>1. k.noInsert = 0
        BY <3>2 DEF WithReads, Inserting
      <4>2. IsFiniteSet(NoIns(Range(k.read), type))
        <5>1. IsFiniteSet(Range(k.read)) /\ NoIns(Range(k.read), type) \subseteq Range(k.read)
          BY <1>2, RangeFinite DEF NoIns
        <5> QED
          BY <5>1, FS_Subset
      <4>3. NoIns(Range(k.read), type) = {}
        BY <4>1, <4>2, <1>1, FS_EmptySet DEF Count
      <4> QED
        BY <4>3, <3>1 DEF NoIns
    <3>5. type[w] \notin {TL_WRITE_LOW_PRIORITY, TL_WRITE}
      BY <3>3, TypeNumbers DEF TypeValues
    <3> QED
      BY <3>4, <3>5 DEF Goes
  <2>2. ASSUME NEW v \in Range(s.write), NEW w \in Range(s.write), v[1] # w[1]
        PROVE  Asked(want, v).type = TL_WRITE_ALLOW_WRITE
    <3>1. type[h] = TL_WRITE_ALLOW_WRITE
      BY <2>2, <1>13
    <3>2. v \in Writes(s) /\ type[v] = TL_WRITE_ALLOW_WRITE
      BY <3>1, <1>12 DEF Writes
    <3>3. Became(Asked(want, v).type, TL_WRITE_ALLOW_WRITE)
      BY <3>2, <1>16 DEF Kinds
    <3> QED
      BY <3>3, TypeNumbers DEF Became, TypeValues
  <2> QED
    BY <2>1, <2>2 DEF Shared
<1>20. Fewer(s, k)
  BY <1>4, <1>6 DEF Fewer, InWait, q
<1> QED
  BY <1>4, <1>12, <1>13, <1>14, <1>15, <1>16, <1>17, <1>18, <1>19, <1>20 DEF Calm, Leads

\* The count of write locks in a row is no part of the order.
LEMMA CountedCalm ==
    ASSUME NEW k, NEW l, Calm(k, l, type, want), NEW c, c = Counted(k)
    PROVE  /\ Calm(c, l, type, want) /\ Listed(c) = Listed(k)
           /\ c.read = k.read /\ c.readWait = k.readWait /\ c.write = k.write /\ c.writeWait = k.writeWait
           /\ \A ty : WithReads(c, ty) <=> WithReads(k, ty)
<1>1. k \in LockType
  BY DEF Calm, Lists
<1>2. PICK n : n = IF TooMany(k) THEN 0 ELSE k.writeCount + 1
  OBVIOUS
<1>3. c = [k EXCEPT !.writeCount = n]
  BY <1>2, Zenon DEF Counted
<1>4. n \in Nat
  BY <1>1, <1>2 DEF LockType
<1>5. c.read = k.read /\ c.readWait = k.readWait /\ c.write = k.write /\ c.writeWait = k.writeWait
      /\ c.noInsert = k.noInsert
  BY <1>1, <1>3 DEF LockType
<1>6. c \in LockType
  BY <1>1, <1>3, <1>4 DEF LockType
<1>7. Listed(c) = Listed(k) /\ Reads(c) = Reads(k) /\ Writes(c) = Writes(k)
  BY <1>5 DEF Listed, Reads, Writes
<1>8. Lists(c) /\ Mine(c, l, type, want) /\ Kinds(c, type, want) /\ Order(c, type, want)
  BY <1>5, <1>6, <1>7 DEF Calm, Lists, Mine, Kinds, Order
<1>9. Shared(c, type, want) /\ Count(c, type)
  BY <1>5 DEF Calm, Shared, Count
<1> QED
  BY <1>5, <1>7, <1>8, <1>9 DEF Calm, WithReads

\* The write lock h may get a higher type: it waits, or has the table for itself.
Upward(g, h) ==
    \/ h \in Range(g.writeWait)
    \/ g.read = <<>> /\ Range(g.write) = {h}

\* What a change of type in thr_unlock presupposes.
Turned(f, k, g, h) ==
    f.up => k.writeWait # <<>> /\ type[h] = TL_WRITE_CONCURRENT_INSERT /\ Upward(g, h)

\* thr_unlock: whichever locks it starts, the lists are in order, and somebody
\* holds the lock if anybody waits.
LEMMA FreedCalm ==
    ASSUME NEW k, NEW l, Calm(k, l, type, want), NEW full \in BOOLEAN,
           NEW f, f = Freed(k, full), NEW g, g = f.lock, NEW h, h = Head(k.writeWait)
    PROVE  /\ Calm(g, l, type, want) /\ Busy(g) /\ Listed(g) = Listed(k)
           /\ Range(k.write) \subseteq Range(g.write)
           /\ f.up \in BOOLEAN /\ Fewer(g, k)
           /\ Turned(f, k, g, h)
<1> USE DEF Turned
<1>1. Lists(k) /\ k.read \in Seq(Data) /\ k.readWait \in Seq(Data)
      /\ k.write \in Seq(Data) /\ k.writeWait \in Seq(Data)
  BY LockFields DEF Calm
<1> DEFINE gets == IF type[h] = TL_WRITE_CONCURRENT_INSERT /\ full THEN TL_WRITE ELSE type[h]
<1>2. k.write = <<>> => Range(k.write) = {}
  BY <1>1, RangeOf
<1>3. \A x : x = FreeAllReadLocks(k, FALSE) /\ k.write = <<>> =>
        /\ Calm(x, l, type, want) /\ Listed(x) = Listed(k)
        /\ x.write = k.write /\ x.writeWait = k.writeWait
        /\ Range(x.read) = Range(k.read) \cup Range(k.readWait) /\ Fewer(x, k)
  <2> SUFFICES ASSUME NEW x, x = FreeAllReadLocks(k, FALSE), k.write = <<>>
               PROVE  /\ Calm(x, l, type, want) /\ Listed(x) = Listed(k)
                      /\ x.write = k.write /\ x.writeWait = k.writeWait
                      /\ Range(x.read) = Range(k.read) \cup Range(k.readWait) /\ Fewer(x, k)
    OBVIOUS
  <2>1. Stays(k, FALSE) = {}
    BY DEF Stays
  <2>2. /\ Calm(x, l, type, want) /\ Listed(x) = Listed(k)
        /\ x.write = k.write /\ x.writeWait = k.writeWait
        /\ Range(x.read) = Range(k.read) \cup (Range(k.readWait) \ Stays(k, FALSE)) /\ Fewer(x, k)
    BY <1>2, FreeAllCalm
  <2> QED
    BY <2>1, <2>2
<1>4. CASE k.write # <<>>
  <2>1. f = [lock |-> k, up |-> FALSE]
    BY <1>4 DEF Freed
  <2>2. g = k /\ f.up = FALSE
    BY <2>1
  <2> QED
    BY <2>2, <1>4 DEF Busy, Held, Fewer, InWait
<1>5. CASE k.write = <<>> /\ k.read = <<>> /\ ~WriteTurn(k)
  <2>1. f = [lock |-> FreeAllReadLocks(k, FALSE), up |-> FALSE]
    BY <1>5, <1>4 DEF Freed
  <2>2. g = FreeAllReadLocks(k, FALSE) /\ f.up = FALSE
    BY <2>1
  <2>3. /\ Calm(g, l, type, want) /\ Listed(g) = Listed(k)
        /\ g.write = k.write /\ g.writeWait = k.writeWait
        /\ Range(g.read) = Range(k.read) \cup Range(k.readWait) /\ Fewer(g, k)
    BY <2>2, <1>3, <1>5
  <2>4. Busy(g)
    <3>1. CASE k.readWait = <<>>
      <4>1. k.writeWait = <<>>
        BY <1>5, <3>1 DEF WriteTurn
      <4>2. Range(k.read) = {} /\ Range(k.readWait) = {}
        BY <3>1, <1>1, <1>5, RangeOf
      <4>3. g.readWait = <<>>
        <5>1. Reads(g) = {} \/ Range(g.readWait) = {}
          <6>1. Range(g.readWait) = Stays(k, FALSE)
            BY <2>2, <1>2, <1>5, FreeAllCalm
          <6> QED
            BY <6>1 DEF Stays
        <5>2. Range(g.readWait) = {}
          BY <5>1 DEF Reads
        <5>3. g.readWait \in Seq(Data)
          BY <2>3, LockFields DEF Calm
        <5> QED
          BY <5>2, <5>3, RangeOf
      <4> QED
        BY <4>1, <4>3, <2>3 DEF Busy
    <3>2. CASE k.readWait # <<>>
      <4>1. Range(g.read) # {}
        <5>1. Range(k.readWait) # {}
          <6>1. k.readWait # <<>> /\ k.readWait \in Seq(Data)
            BY <3>2, <1>1
          <6> QED
            BY <6>1, RangeOf
        <5> QED
          BY <5>1, <2>3
      <4>2. g.read # <<>>
        <5>1. g.read \in Seq(Data)
          BY <2>3, LockFields DEF Calm
        <5> QED
          BY <4>1, <5>1, RangeOf
      <4> QED
        BY <4>2 DEF Busy, Held
    <3> QED
      BY <3>1, <3>2
  <2> QED
    BY <2>2, <2>3, <2>4
<1>6. CASE k.write = <<>> /\ k.read = <<>> /\ WriteTurn(k) /\ TooMany(k) /\ k.readWait # <<>>
  <2>1. f = [lock |-> FreeAllReadLocks(Counted(k), FALSE), up |-> FALSE]
    BY <1>6 DEF Freed
  <2>2. PICK c : c = Counted(k)
    OBVIOUS
  <2>3. g = FreeAllReadLocks(c, FALSE) /\ f.up = FALSE
    BY <2>1, <2>2
  <2>4. Calm(c, l, type, want) /\ Listed(c) = Listed(k) /\ c.read = k.read /\ c.readWait = k.readWait
        /\ c.write = k.write /\ c.writeWait = k.writeWait
    BY <2>2, CountedCalm
  <2>5. /\ Calm(g, l, type, want) /\ Listed(g) = Listed(c)
        /\ g.write = c.write /\ Range(g.read) = Range(c.read) \cup (Range(c.readWait) \ Stays(c, FALSE)) /\ Fewer(g, c)
    <3>1. \A w \in Range(c.write) : FALSE
      BY <1>2, <1>6, <2>4
    <3> QED
      BY <2>3, <2>4, <3>1, FreeAllCalm
  <2>6. Range(g.read) # {}
    <3>1. Range(k.readWait) # {} /\ Stays(c, FALSE) = {}
      BY <1>1, <1>6, RangeOf DEF Stays
    <3> QED
      BY <3>1, <2>4, <2>5
  <2>7. g.read # <<>>
    <3>1. g.read \in Seq(Data)
      BY <2>5, LockFields DEF Calm
    <3> QED
      BY <2>6, <3>1, RangeOf
  <2> QED
    BY <2>3, <2>4, <2>5, <2>7 DEF Busy, Held, Fewer, InWait
<1>7. CASE k.write = <<>> /\ k.read = <<>> /\ WriteTurn(k) /\ ~(TooMany(k) /\ k.readWait # <<>>)
  <2>1. k.writeWait # <<>>
    BY <1>7 DEF WriteTurn
  <2>2. PICK c : c = Counted(k)
    OBVIOUS
  <2>3. Calm(c, l, type, want) /\ Listed(c) = Listed(k) /\ c.read = k.read /\ c.readWait = k.readWait
        /\ c.write = k.write /\ c.writeWait = k.writeWait
    BY <2>2, CountedCalm
  <2>4. PICK s : s = StartWrites(c)
    OBVIOUS
  <2>5. /\ Calm(s, l, type, want) /\ Listed(s) = Listed(c)
        /\ s.read = c.read /\ s.readWait = c.readWait
        /\ h \in Range(s.write) /\ \A w \in Range(s.write) : type[w] = type[h]
        /\ type[h] # TL_WRITE_ALLOW_WRITE => Range(s.write) = {h}
        /\ Fewer(s, c)
    <3>1. c.write = <<>> /\ c.writeWait # <<>> /\ h = Head(c.writeWait)
      BY <1>7, <2>1, <2>3
    <3>2. c.read = <<>> \/ WithReads(c, type[h])
      BY <1>7, <2>3
    <3>3. Calm(c, l, type, want)
      BY <2>3
    <3>4. /\ Calm(s, l, type, want) /\ Listed(s) = Listed(c)
          /\ s.read = c.read /\ s.readWait = c.readWait
          /\ Leads(s, h) /\ Fewer(s, c)
      BY <2>4, <3>1, <3>2, <3>3, StartCalm
    <3> QED
      BY <3>4 DEF Leads
  <2>6. PICK up \in BOOLEAN : up <=> gets # type[h]
    OBVIOUS
  <2>7. f = [lock |-> IF gets >= TL_WRITE_LOW_PRIORITY THEN s ELSE FreeAllReadLocks(s, Inserting(gets)),
             up |-> up]
    BY <1>7, <2>2, <2>4, <2>6 DEF Freed
  <2>8. f.up = up /\ g = IF gets >= TL_WRITE_LOW_PRIORITY THEN s ELSE FreeAllReadLocks(s, Inserting(gets))
    BY <2>7
  <2>9. s.write \in Seq(Data)
    BY <2>5, LockFields DEF Calm
  <2>10. s.write # <<>> /\ Range(k.write) \subseteq Range(s.write)
    BY <1>2, <1>7, <2>5, <2>9, RangeOf
  <2>11. up => type[h] = TL_WRITE_CONCURRENT_INSERT /\ gets = TL_WRITE
    BY <2>6
  <2>12. CASE gets >= TL_WRITE_LOW_PRIORITY
    <3>1. g = s
      BY <2>8, <2>12
    <3>2. up => Upward(s, h)
      <4>1. up => Range(s.write) = {h} /\ s.read = <<>>
        BY <2>3, <2>5, <2>11, <1>7, TypeNumbers DEF TypeValues
      <4> QED
        BY <4>1 DEF Upward
    <3> QED
      BY <2>1, <2>3, <2>5, <2>8, <2>10, <2>11, <3>1, <3>2 DEF Busy, Held, Fewer, InWait
  <2>13. CASE ~(gets >= TL_WRITE_LOW_PRIORITY)
    <3>1. ~up
      BY <2>11, <2>13, TypeNumbers DEF TypeValues
    <3>2. PICK ins \in BOOLEAN : ins <=> Inserting(gets)
      OBVIOUS
    <3>3. g = FreeAllReadLocks(s, ins)
      <4>1. g = FreeAllReadLocks(s, Inserting(gets))
        BY <2>8, <2>13
      <4>2. Inserting(gets) = ins
        BY <3>2 DEF Inserting
      <4> QED
        BY <4>1, <4>2
    <3>4. gets = type[h] /\ type[h] \notin {TL_WRITE_LOW_PRIORITY, TL_WRITE}
          /\ (type[h] = TL_WRITE_CONCURRENT_INSERT => ins)
      <4>1. gets = type[h]
        BY <2>6, <3>1
      <4>2. ~(type[h] >= 9)
        BY <4>1, <2>13, TypeNumbers DEF TypeValues
      <4>3. type[h] \notin {TL_WRITE_LOW_PRIORITY, TL_WRITE}
        BY <4>2, TypeNumbers DEF TypeValues
      <4> QED
        BY <4>1, <4>3, <3>2 DEF Inserting
    <3>5. Calm(g, l, type, want) /\ Listed(g) = Listed(s) /\ g.write = s.write /\ Fewer(g, s)
      <4>1. \A w \in Range(s.write) : /\ type[w] \notin {TL_WRITE_LOW_PRIORITY, TL_WRITE}
                                      /\ type[w] = TL_WRITE_CONCURRENT_INSERT => ins
        BY <2>5, <3>4
      <4>2. Calm(s, l, type, want)
        BY <2>5
      <4> QED
        BY <3>3, <4>1, <4>2, FreeAllCalm
    <3> QED
      BY <2>3, <2>5, <2>8, <2>10, <3>1, <3>5 DEF Busy, Held, Fewer, InWait
  <2> QED
    BY <2>12, <2>13
<1>8. CASE k.write = <<>> /\ k.read # <<>> /\ k.writeWait = <<>>
  <2>1. f = [lock |-> FreeAllReadLocks(k, FALSE), up |-> FALSE]
    BY <1>8 DEF Freed
  <2>2. g = FreeAllReadLocks(k, FALSE) /\ f.up = FALSE
    BY <2>1
  <2>3. /\ Calm(g, l, type, want) /\ Listed(g) = Listed(k)
        /\ g.write = k.write /\ Range(g.read) = Range(k.read) \cup Range(k.readWait) /\ Fewer(g, k)
    BY <2>2, <1>3, <1>8
  <2>4. g.read # <<>>
    <3>1. g.read \in Seq(Data)
      BY <2>3, LockFields DEF Calm
    <3>2. Range(k.read) # {}
      BY <1>1, <1>8, RangeOf
    <3> QED
      BY <2>3, <3>1, <3>2, RangeOf
  <2> QED
    BY <2>2, <2>3, <2>4 DEF Busy, Held
<1>9. CASE k.write = <<>> /\ k.read # <<>> /\ k.writeWait # <<>> /\ ~WithReads(k, type[h])
  <2>1. f = [lock |-> k, up |-> FALSE]
    BY <1>9 DEF Freed
  <2>2. g = k /\ f.up = FALSE
    BY <2>1
  <2> QED
    BY <2>2, <1>9 DEF Busy, Held, Fewer, InWait
<1>10. CASE k.write = <<>> /\ k.read # <<>> /\ k.writeWait # <<>> /\ WithReads(k, type[h]) /\ gets # type[h]
  <2>1. f = [lock |-> FreeAllReadLocks(k, FALSE), up |-> TRUE]
    BY <1>10 DEF Freed
  <2>2. g = FreeAllReadLocks(k, FALSE) /\ f.up = TRUE
    BY <2>1
  <2>3. /\ Calm(g, l, type, want) /\ Listed(g) = Listed(k)
        /\ g.write = k.write /\ g.writeWait = k.writeWait
        /\ Range(g.read) = Range(k.read) \cup Range(k.readWait) /\ Fewer(g, k)
    BY <2>2, <1>3, <1>10
  <2>4. g.read # <<>>
    <3>1. g.read \in Seq(Data)
      BY <2>3, LockFields DEF Calm
    <3>2. Range(k.read) # {}
      <4>1. k.read # <<>> /\ k.read \in Seq(Data)
        BY <1>1, <1>10
      <4> QED
        BY <4>1, RangeOf
    <3> QED
      BY <2>3, <3>1, <3>2, RangeOf
  <2>5. type[h] = TL_WRITE_CONCURRENT_INSERT
    BY <1>10
  <2>6. h \in Range(g.writeWait)
    BY <1>1, <1>10, <2>3, RangeOf
  <2> QED
    BY <1>10, <2>2, <2>3, <2>4, <2>5, <2>6 DEF Busy, Held, Upward
<1>11. CASE k.write = <<>> /\ k.read # <<>> /\ k.writeWait # <<>> /\ WithReads(k, type[h]) /\ gets = type[h]
  <2>1. f = [lock |-> FreeAllReadLocks(StartWrites(k), Inserting(type[h])), up |-> FALSE]
    BY <1>11 DEF Freed
  <2>2. PICK s : s = StartWrites(k)
    OBVIOUS
  <2>3. g = FreeAllReadLocks(s, Inserting(type[h])) /\ f.up = FALSE
    BY <2>1, <2>2
  <2>4. /\ Calm(s, l, type, want) /\ Listed(s) = Listed(k)
        /\ h \in Range(s.write) /\ (\A w \in Range(s.write) : type[w] = type[h])
        /\ Fewer(s, k)
    <3>1. k.write = <<>> /\ k.writeWait # <<>>
      BY <1>11
    <3>2. k.read = <<>> \/ WithReads(k, type[h])
      BY <1>11
    <3>3. /\ Calm(s, l, type, want) /\ Listed(s) = Listed(k)
          /\ Leads(s, h) /\ Fewer(s, k)
      BY <2>2, <3>1, <3>2, StartCalm
    <3> QED
      BY <3>3 DEF Leads
  <2>5. PICK ins \in BOOLEAN : ins = Inserting(type[h])
    <3>1. PICK ins \in BOOLEAN : ins <=> Inserting(type[h])
      OBVIOUS
    <3>2. ins = Inserting(type[h])
      BY <3>1 DEF Inserting
    <3> QED
      BY <3>2
  <2>6. type[h] \notin {TL_WRITE_LOW_PRIORITY, TL_WRITE} /\ (type[h] = TL_WRITE_CONCURRENT_INSERT => ins)
    <3>1. type[h] <= TL_WRITE_DELAYED
      BY <1>11 DEF WithReads
    <3>2. type[h] \notin {TL_WRITE_LOW_PRIORITY, TL_WRITE}
      BY <3>1, TypeNumbers DEF TypeValues
    <3> QED
      BY <3>2, <2>5 DEF Inserting
  <2>7. Calm(g, l, type, want) /\ Listed(g) = Listed(s) /\ g.write = s.write /\ Fewer(g, s)
    BY <2>3, <2>4, <2>5, <2>6, FreeAllCalm
  <2>8. g.write # <<>>
    <3>1. g.write \in Seq(Data)
      BY <2>7, LockFields DEF Calm
    <3> QED
      BY <3>1, <2>4, <2>7, RangeOf
  <2> QED
    BY <1>2, <1>11, <2>3, <2>4, <2>7, <2>8 DEF Busy, Held, Fewer, InWait
<1> QED
  BY <1>4, <1>5, <1>6, <1>7, <1>8, <1>9, <1>10, <1>11

-----------------------------------------------------------------------------
(***************************************************************************)
(* Types and statements.                                                   *)
(***************************************************************************)
\* Statements as thr_multi_lock sorts them: where a lock is named twice, the higher
\* type comes first, and a delayed insert names its lock once.
Wanted == [lock : Locks, type : Types \ {TL_UNLOCK}]
Wants(wn) ==
    /\ wn \in [Threads -> Seq(Wanted)]
    /\ \A t \in Threads : \A i, j \in 1..Len(wn[t]) :
          i < j /\ wn[t][i].lock = wn[t][j].lock =>
             wn[t][j].type <= wn[t][i].type /\ wn[t][i].type # TL_WRITE_DELAYED
\* The lock d may be put on a list of k: it is on none, and comes after the others
\* of its thread.
Fits(k, l, d, wn) ==
    /\ d \in Data /\ d \notin Listed(k) /\ d[2] <= Len(wn[d[1]]) /\ Asked(wn, d).lock = l
    /\ \A e \in Listed(k) : e[1] = d[1] => e[2] < d[2]

\* Calm looks at no other lock's types.
LEMMA CalmFrame ==
    ASSUME NEW k, NEW l, NEW ty, NEW wn, NEW ty2, NEW wn2, Calm(k, l, ty, wn),
           \A e \in Listed(k) : ty2[e] = ty[e] /\ wn2[e[1]] = wn[e[1]]
    PROVE  Calm(k, l, ty2, wn2)
<1>1. Lists(k) /\ Mine(k, l, ty, wn) /\ Kinds(k, ty, wn) /\ Order(k, ty, wn) /\ Shared(k, ty, wn) /\ Count(k, ty)
  BY DEF Calm
<1>2. k.read \in Seq(Data) /\ k.write \in Seq(Data)
  BY <1>1, LockFields
<1>3. \A e \in Listed(k) : Asked(wn2, e) = Asked(wn, e)
  BY DEF Asked
<1>4. Mine(k, l, ty2, wn2)
  BY <1>1, <1>3 DEF Mine
<1>5. Kinds(k, ty2, wn2)
  BY <1>1, <1>3 DEF Kinds, Listed
<1>6. Range(k.write) \subseteq Listed(k) /\ Range(k.read) \subseteq Listed(k)
  BY DEF Listed, Writes, Reads
<1>7. TailAsked(k.write, ty2, wn2)
  <2>1. TailAsked(k.write, ty, wn)
    BY <1>1 DEF Order
  <2>2. PICK q : q = k.write
    OBVIOUS
  <2>3. ASSUME NEW j \in 2..Len(q) PROVE q[j] \in Range(q)
    <3>1. j \in 1..Len(q) /\ q \in Seq(Data)
      BY <1>2, <2>2
    <3> QED
      BY <3>1, RangeOf
  <2> QED
    BY <2>1, <2>2, <2>3, <1>3, <1>6 DEF TailAsked
<1>8. Order(k, ty2, wn2)
  BY <1>1, <1>7 DEF Order
<1>9. Shared(k, ty2, wn2)
  BY <1>1, <1>3, <1>6 DEF Shared, Goes
<1>10. NoIns(Range(k.read), ty2) = NoIns(Range(k.read), ty)
  BY <1>6 DEF NoIns
<1> QED
  BY <1>1, <1>4, <1>5, <1>8, <1>9, <1>10 DEF Calm, Count

\* A write lock gets another type.
LEMMA RetypeCalm ==
    ASSUME NEW k, NEW l, NEW ty, NEW wn, NEW ty2, NEW d, Calm(k, l, ty, wn),
           d \in Writes(k), Became(Asked(wn, d).type, ty2[d]),
           \A e \in Listed(k) : e # d => ty2[e] = ty[e],
           d \in Range(k.write) => d = Head(k.write) /\ \A r \in Range(k.read) : Goes(d, r, ty2)
    PROVE  Calm(k, l, ty2, wn)
<1>1. Lists(k) /\ Mine(k, l, ty, wn) /\ Kinds(k, ty, wn) /\ Order(k, ty, wn) /\ Shared(k, ty, wn) /\ Count(k, ty)
  BY DEF Calm
<1>2. k.read \in Seq(Data) /\ k.write \in Seq(Data)
  BY <1>1, LockFields
<1>3. d \notin Reads(k)
  <2> SUFFICES ASSUME d \in Reads(k) PROVE FALSE
    OBVIOUS
  <2>1. ty[d] \in Types /\ IsRead(ty[d]) /\ Became(Asked(wn, d).type, ty[d])
    BY <1>1 DEF Kinds
  <2> QED
    BY <2>1, TypeNumbers DEF TypeValues, IsRead, Became
<1>4. Mine(k, l, ty2, wn)
  <2>1. ty2[d] # TL_UNLOCK
    BY TypeNumbers DEF Became, TypeValues
  <2> QED
    BY <1>1, <2>1 DEF Mine
<1>5. Kinds(k, ty2, wn)
  BY <1>1, <1>3 DEF Kinds, Listed
<1>6. Range(k.write) \subseteq Listed(k) /\ Range(k.read) \subseteq Listed(k) /\ d \notin Range(k.read)
  BY <1>3 DEF Listed, Writes, Reads
<1>7. TailAsked(k.write, ty2, wn)
  <2>1. TailAsked(k.write, ty, wn) /\ Once(k.write)
    BY <1>1 DEF Order, Lists
  <2>2. PICK q : q = k.write
    OBVIOUS
  <2>3. ASSUME NEW j \in 2..Len(q) PROVE q[j] \in Range(q) /\ q[j] # d
    <3>1. j \in 1..Len(q) /\ q \in Seq(Data) /\ 1 \in 1..Len(q) /\ j # 1
      BY <1>2, <2>2
    <3>2. q[j] \in Range(q) /\ q # <<>>
      BY <3>1, RangeOf
    <3>3. q[j] # q[1]
      BY <3>1, <2>1, <2>2 DEF Once
    <3>4. q[1] = Head(q)
      BY <3>1, <3>2
    <3> QED
      BY <3>2, <3>3, <3>4, <2>2
  <2> QED
    BY <2>1, <2>2, <2>3, <1>6 DEF TailAsked
<1>8. Order(k, ty2, wn)
  BY <1>1, <1>7 DEF Order
<1>9. Shared(k, ty2, wn)
  <2>1. ASSUME NEW w \in Range(k.write), NEW r \in Range(k.read) PROVE Goes(w, r, ty2)
    <3>1. CASE w = d
      BY <3>1
    <3>2. CASE w # d
      BY <3>2, <1>1, <1>6 DEF Shared, Goes
    <3> QED
      BY <3>1, <3>2
  <2> QED
    BY <2>1, <1>1 DEF Shared
<1>10. NoIns(Range(k.read), ty2) = NoIns(Range(k.read), ty)
  BY <1>6 DEF NoIns
<1> QED
  BY <1>1, <1>4, <1>5, <1>8, <1>9, <1>10 DEF Calm, Count

\* What the first write lock that is held says of the others.
LEMMA HeadRule ==
    ASSUME NEW k, NEW l, NEW ty, NEW wn, Calm(k, l, ty, wn), Wants(wn), k.write # <<>>,
           NEW v, v = Head(k.write), NEW w \in Range(k.write)
    PROVE  /\ v \in Range(k.write)
           /\ \/ w = v
              \/ /\ ty[w] = Asked(wn, w).type /\ Asked(wn, w).type <= Asked(wn, v).type
                 /\ w[1] = v[1] => Asked(wn, v).type # TL_WRITE_DELAYED
           /\ w[1] # v[1] => /\ Asked(wn, v).type = TL_WRITE_ALLOW_WRITE
                             /\ Asked(wn, w).type = TL_WRITE_ALLOW_WRITE
<1>1. Mine(k, l, ty, wn) /\ Order(k, ty, wn) /\ Shared(k, ty, wn) /\ k.write \in Seq(Data)
  BY LockFields DEF Calm
<1>2. PICK q : q = k.write
  OBVIOUS
<1>3. q \in Seq(Data) /\ v \in Range(q) /\ v = q[1] /\ Len(q) \in Nat /\ Len(q) >= 1
  BY <1>1, <1>2, RangeOf
<1>4. PICK j \in 1..Len(q) : q[j] = w
  BY <1>2, <1>3, RangeOf
<1>5. w[1] # v[1] => Asked(wn, v).type = TL_WRITE_ALLOW_WRITE /\ Asked(wn, w).type = TL_WRITE_ALLOW_WRITE
  BY <1>1, <1>2, <1>3 DEF Shared
<1>6. ASSUME w # v
      PROVE  /\ ty[w] = Asked(wn, w).type /\ Asked(wn, w).type <= Asked(wn, v).type
             /\ w[1] = v[1] => Asked(wn, v).type # TL_WRITE_DELAYED
  <2>1. j \in 2..Len(q)
    BY <1>3, <1>4, <1>6
  <2>2. ty[w] = Asked(wn, w).type
    BY <1>1, <1>2, <1>4, <2>1 DEF Order, TailAsked
  <2>3. CASE w[1] # v[1]
    BY <2>2, <2>3, <1>5, TypeNumbers DEF TypeValues
  <2>4. CASE w[1] = v[1]
    <3>1. v[2] < w[2]
      <4>1. InOrder(q) /\ 1 \in 1..Len(q) /\ 1 < j
        BY <1>1, <1>2, <1>3, <2>1 DEF Order
      <4> QED
        BY <4>1, <1>3, <1>4, <2>4 DEF InOrder
    <3>2. w \in Listed(k) /\ v \in Listed(k) /\ w \in Data /\ v \in Data
      <4>1. Range(q) \subseteq Data
        BY <1>3, RangeOf
      <4> QED
        BY <4>1, <1>2, <1>3 DEF Listed, Writes
    <3>3. w[2] <= Len(wn[w[1]]) /\ v[2] <= Len(wn[w[1]]) /\ Asked(wn, w).lock = Asked(wn, v).lock
      BY <3>2, <1>1, <2>4 DEF Mine
    <3>4. w[1] \in Threads /\ w[2] \in 1..MaxLocks /\ v[2] \in 1..MaxLocks
      BY <3>2 DEF Data
    <3>5. wn[w[1]] \in Seq(Wanted)
      BY <3>4 DEF Wants
    <3>6. Len(wn[w[1]]) \in Nat /\ w[2] \in Nat \ {0} /\ v[2] \in Nat \ {0}
      BY <3>4, <3>5, MaxLocksNatural
    <3>7. w[2] \in 1..Len(wn[w[1]]) /\ v[2] \in 1..Len(wn[w[1]])
      BY <3>3, <3>6
    <3> QED
      BY <2>2, <2>4, <3>1, <3>3, <3>4, <3>7 DEF Wants, Asked
  <2> QED
    BY <2>3, <2>4
<1> QED
  BY <1>2, <1>3, <1>5, <1>6

\* A new element makes no repetition.
LEMMA OnceAppend ==
    ASSUME NEW S, NEW q \in Seq(S), NEW d \in S, Once(q), d \notin Range(q)
    PROVE  Once(Append(q, d))
<1>1. PICK p : p = Append(q, d)
  OBVIOUS
<1>2. p \in Seq(S) /\ Len(p) = Len(q) + 1 /\ p[Len(q) + 1] = d /\ \A i \in 1..Len(q) : p[i] = q[i]
  BY <1>1, AppendFacts
<1>3. Len(q) \in Nat /\ \A i \in 1..Len(q) : q[i] # d
  BY RangeOf
<1>4. \A i, j \in 1..Len(q) : q[i] = q[j] => i = j
  BY DEF Once
<1>5. PICK n : n = Len(q)
  OBVIOUS
<1>6. \A i \in 1..n + 1 : i \in 1..n \/ i = n + 1
  BY <1>3, <1>5
<1>7. \A i, j \in 1..n + 1 : p[i] = p[j] => i = j
  BY <1>2, <1>3, <1>4, <1>5, <1>6
<1> QED
  BY <1>1, <1>2, <1>5, <1>7 DEF Once

\* The fields of a lock after a read lock is given.
LEMMA ReadFields ==
    ASSUME NEW k, Lists(k), NEW d \in Data, NEW v, NEW n, n \in Int,
           n = IF v = TL_READ_NO_INSERT THEN k.noInsert + 1 ELSE k.noInsert, NEW g, g = AddedRead(k, d, v)
    PROVE  /\ g \in LockType /\ g.read = Append(k.read, d) /\ g.noInsert = n
           /\ g.readWait = k.readWait /\ g.write = k.write /\ g.writeWait = k.writeWait
           /\ Range(g.read) = Range(k.read) \cup {d}
           /\ Once(k.read) /\ d \notin Range(k.read) => Once(g.read)
<1>1. k \in LockType /\ k.read \in Seq(Data)
  BY LockFields DEF Lists
<1>2. PICK q : q = Append(k.read, d)
  OBVIOUS
<1>3. q \in Seq(Data) /\ Range(q) = Range(k.read) \cup {d}
  BY <1>1, <1>2, AppendFacts
<1>4. g = [k EXCEPT !.read = q, !.noInsert = n]
  BY <1>2, Zenon DEF AddedRead
<1>5. /\ g \in LockType /\ g.read = q /\ g.noInsert = n
      /\ g.readWait = k.readWait /\ g.write = k.write /\ g.writeWait = k.writeWait
  BY <1>1, <1>3, <1>4 DEF LockType
<1>6. Once(k.read) /\ d \notin Range(k.read) => Once(q)
  BY <1>1, <1>2, OnceAppend
<1> QED
  BY <1>2, <1>3, <1>5, <1>6

\* A read lock is given.
LEMMA ReadCalm ==
    ASSUME NEW k, NEW l, Calm(k, l, type, want), Wants(want), NEW d, Fits(k, l, d, want),
           NEW t2, NEW v, v \in Types \ {TL_UNLOCK}, IsRead(v), v = Asked(want, d).type, ReadAllowed(k, d, v),
           t2[d] = v, \A e \in Data \ {d} : t2[e] = type[e],
           NEW n, n = IF v = TL_READ_NO_INSERT THEN k.noInsert + 1 ELSE k.noInsert,
           NEW g, g = AddedRead(k, d, v)
    PROVE  /\ Calm(g, l, t2, want) /\ Busy(g) /\ Listed(g) = Listed(k) \cup {d} /\ InWait(g) = InWait(k)
           /\ Range(g.write) = Range(k.write)
<1>1. Lists(k) /\ Mine(k, l, type, want) /\ Kinds(k, type, want) /\ Order(k, type, want)
      /\ Shared(k, type, want) /\ Count(k, type)
  BY DEF Calm
<1>2. /\ k.read \in Seq(Data) /\ k.readWait \in Seq(Data)
      /\ k.write \in Seq(Data) /\ k.writeWait \in Seq(Data) /\ k.noInsert \in Int
  BY <1>1, LockFields
<1>3. /\ d \in Data /\ d \notin Listed(k) /\ d[2] <= Len(want[d[1]]) /\ Asked(want, d).lock = l
      /\ \A e \in Listed(k) : e[1] = d[1] => e[2] < d[2]
  BY DEF Fits
<1>4. /\ g \in LockType /\ g.read = Append(k.read, d) /\ g.noInsert = n
      /\ g.readWait = k.readWait /\ g.write = k.write /\ g.writeWait = k.writeWait
      /\ Range(g.read) = Range(k.read) \cup {d}
      /\ Once(k.read) /\ d \notin Range(k.read) => Once(g.read)
  <2>1. n \in Int
    BY <1>2
  <2> QED
    <3>1. d \in Data /\ Lists(k)
      BY <1>1, <1>3
    <3> QED
      BY <2>1, <3>1, ReadFields
<1>5. Range(k.read) \subseteq Listed(k) /\ Range(k.readWait) \subseteq Listed(k)
      /\ Range(k.write) \subseteq Listed(k) /\ Range(k.writeWait) \subseteq Listed(k)
  BY DEF Listed, Reads, Writes
<1>6. Reads(g) = Reads(k) \cup {d} /\ Writes(g) = Writes(k) /\ Listed(g) = Listed(k) \cup {d} /\ InWait(g) = InWait(k)
  BY <1>4 DEF Reads, Writes, Listed, InWait
<1>7. Listed(k) \subseteq Data
  <2>1. Range(k.read) \subseteq Data /\ Range(k.readWait) \subseteq Data
        /\ Range(k.write) \subseteq Data /\ Range(k.writeWait) \subseteq Data
    BY <1>2, RangeOf
  <2> QED
    BY <2>1 DEF Listed, Reads, Writes
<1>8. \A e \in Listed(k) : t2[e] = type[e]
  BY <1>3, <1>7
<1>9. Calm(k, l, t2, want)
  BY <1>8, CalmFrame
<1>10. Lists(k) /\ Mine(k, l, t2, want) /\ Kinds(k, t2, want) /\ Order(k, t2, want)
      /\ Shared(k, t2, want) /\ Count(k, t2)
  BY <1>9 DEF Calm
<1>11. Lists(g)
  BY <1>1, <1>3, <1>4, <1>5 DEF Lists
<1>12. Mine(g, l, t2, want) /\ Kinds(g, t2, want) /\ Order(g, t2, want)
  BY <1>3, <1>4, <1>6, <1>10 DEF Mine, Kinds, Order
<1>13. Count(g, t2)
  <2>1. PICK C, D : D = Range(k.read) /\ C = Range(g.read)
    OBVIOUS
  <2>2. C = D \cup {d} /\ d \notin D /\ IsFiniteSet(D)
    BY <2>1, <1>2, <1>3, <1>4, <1>5, RangeFinite
  <2>3. IsFiniteSet(NoIns(D, t2)) /\ d \notin NoIns(D, t2)
    <3>1. NoIns(D, t2) \subseteq D
      BY DEF NoIns
    <3> QED
      BY <2>2, <3>1, FS_Subset
  <2>4. k.noInsert = Cardinality(NoIns(D, t2))
    BY <1>10, <2>1 DEF Count
  <2>5. CASE v = TL_READ_NO_INSERT
    <3>1. NoIns(C, t2) = NoIns(D, t2) \cup {d}
      BY <2>2, <2>5 DEF NoIns
    <3>2. Cardinality(NoIns(D, t2) \cup {d}) = Cardinality(NoIns(D, t2)) + 1
      BY <2>3, FS_AddElement
    <3> QED
      BY <1>4, <2>1, <2>4, <2>5, <3>1, <3>2 DEF Count
  <2>6. CASE v # TL_READ_NO_INSERT
    <3>1. NoIns(C, t2) = NoIns(D, t2)
      BY <2>2, <2>6 DEF NoIns
    <3> QED
      BY <1>4, <2>1, <2>4, <2>6, <3>1 DEF Count
  <2> QED
    BY <2>5, <2>6
<1>14. ASSUME NEW w \in Range(k.write) PROVE Goes(w, d, t2)
  <2> SUFFICES ASSUME w[1] # d[1]
               PROVE  /\ type[w] \notin {TL_WRITE_LOW_PRIORITY, TL_WRITE}
                      /\ ~(type[w] = TL_WRITE_CONCURRENT_INSERT /\ v = TL_READ_NO_INSERT)
    BY <1>5, <1>8 DEF Goes
  <2>1. k.write # <<>>
    BY <1>2, RangeOf
  <2>2. PICK h : h = Head(k.write)
    OBVIOUS
  <2>3. /\ h \in Range(k.write)
        /\ \/ w = h
           \/ /\ type[w] = Asked(want, w).type /\ Asked(want, w).type <= Asked(want, h).type
              /\ w[1] = h[1] => Asked(want, h).type # TL_WRITE_DELAYED
        /\ w[1] # h[1] => /\ Asked(want, h).type = TL_WRITE_ALLOW_WRITE
                          /\ Asked(want, w).type = TL_WRITE_ALLOW_WRITE
    BY <2>1, <2>2, HeadRule
  <2>4. \/ h[1] = d[1]
        \/ /\ type[h] <= TL_WRITE_DELAYED
           /\ v <= TL_READ_HIGH_PRIORITY \/ type[h] \notin {TL_WRITE_CONCURRENT_INSERT, TL_WRITE_ALLOW_READ}
    BY <2>1, <2>2 DEF ReadAllowed
  <2>5. Became(Asked(want, h).type, type[h]) /\ Became(Asked(want, w).type, type[w])
    BY <2>3, <1>1 DEF Kinds, Writes
  <2>6. CASE w = h
    BY <2>4, <2>6, TypeNumbers DEF TypeValues
  <2>7. CASE w # h /\ w[1] = h[1]
    <3>1. type[h] <= TL_WRITE_DELAYED
          /\ (v <= TL_READ_HIGH_PRIORITY \/ type[h] \notin {TL_WRITE_CONCURRENT_INSERT, TL_WRITE_ALLOW_READ})
      BY <2>4, <2>7
    <3>2. Asked(want, h).type = type[h]
      BY <2>5, <3>1, TypeNumbers DEF Became, TypeValues
    <3>3. type[w] = Asked(want, w).type /\ type[w] <= type[h] /\ type[h] # TL_WRITE_DELAYED
      BY <2>3, <2>7, <3>2
    <3>4. type[w] \in 5..11 /\ type[h] \in 5..11
      BY <2>5, <3>2, <3>3, TypeNumbers DEF Became, TypeValues
    <3> QED
      BY <3>1, <3>3, <3>4, TypeNumbers DEF TypeValues
  <2>8. CASE w # h /\ w[1] # h[1]
    BY <2>3, <2>8, TypeNumbers DEF TypeValues
  <2> QED
    BY <2>6, <2>7, <2>8
<1>15. Shared(g, t2, want)
  BY <1>4, <1>10, <1>14 DEF Shared
<1>16. Busy(g)
  <2>1. g.read \in Seq(Data)
    BY <1>4 DEF LockType
  <2>2. Range(g.read) # {}
    BY <1>4
  <2>3. g.read # <<>>
    BY <2>1, <2>2, RangeOf
  <2> QED
    BY <2>3 DEF Busy, Held
<1> QED
  BY <1>4, <1>6, <1>11, <1>12, <1>13, <1>15, <1>16 DEF Calm

\* The fields of a lock after a write lock is given.
LEMMA WriteFields ==
    ASSUME NEW k, Lists(k), NEW d \in Data, NEW g, g = AddedWrite(k, d)
    PROVE  /\ g \in LockType /\ g.write = Append(k.write, d) /\ g.noInsert = k.noInsert
           /\ g.readWait = k.readWait /\ g.read = k.read /\ g.writeWait = k.writeWait
           /\ Range(g.write) = Range(k.write) \cup {d}
           /\ Once(k.write) /\ d \notin Range(k.write) => Once(g.write)
<1>1. k \in LockType /\ k.write \in Seq(Data)
  BY LockFields DEF Lists
<1>2. PICK q : q = Append(k.write, d)
  OBVIOUS
<1>3. q \in Seq(Data) /\ Range(q) = Range(k.write) \cup {d}
  BY <1>1, <1>2, AppendFacts
<1>4. g = [k EXCEPT !.write = q]
  BY <1>2, Zenon DEF AddedWrite
<1>5. /\ g \in LockType /\ g.write = q /\ g.noInsert = k.noInsert
      /\ g.readWait = k.readWait /\ g.read = k.read /\ g.writeWait = k.writeWait
  BY <1>1, <1>3, <1>4 DEF LockType
<1>6. Once(k.write) /\ d \notin Range(k.write) => Once(q)
  BY <1>1, <1>2, OnceAppend
<1> QED
  BY <1>2, <1>3, <1>5, <1>6

\* The fields of a lock after another one waits.
LEMMA WaitFields ==
    ASSUME NEW k, Lists(k), NEW d \in Data
    PROVE  /\ \A g : g = AddedReadWait(k, d) =>
                /\ g \in LockType /\ g.write = k.write /\ g.noInsert = k.noInsert
                /\ g.readWait = Append(k.readWait, d) /\ g.read = k.read /\ g.writeWait = k.writeWait
           /\ \A g : g = AddedWriteWait(k, d) =>
                /\ g \in LockType /\ g.write = k.write /\ g.noInsert = k.noInsert
                /\ g.readWait = k.readWait /\ g.read = k.read /\ g.writeWait = Append(k.writeWait, d)
<1>1. k \in LockType /\ k.readWait \in Seq(Data) /\ k.writeWait \in Seq(Data)
  BY LockFields DEF Lists
<1>2. PICK q, p : q = Append(k.readWait, d) /\ p = Append(k.writeWait, d)
  OBVIOUS
<1>3. q \in Seq(Data) /\ p \in Seq(Data)
  BY <1>1, <1>2, AppendFacts
<1>4. ASSUME NEW g, g = AddedReadWait(k, d)
      PROVE  /\ g \in LockType /\ g.write = k.write /\ g.noInsert = k.noInsert
             /\ g.readWait = Append(k.readWait, d) /\ g.read = k.read /\ g.writeWait = k.writeWait
  <2>1. g = [k EXCEPT !.readWait = q]
    BY <1>2, <1>4, Zenon DEF AddedReadWait
  <2>2. /\ g \in LockType /\ g.write = k.write /\ g.noInsert = k.noInsert
        /\ g.readWait = q /\ g.read = k.read /\ g.writeWait = k.writeWait
    BY <1>1, <1>3, <2>1 DEF LockType
  <2> QED
    BY <1>2, <2>2
<1>5. ASSUME NEW g, g = AddedWriteWait(k, d)
      PROVE  /\ g \in LockType /\ g.write = k.write /\ g.noInsert = k.noInsert
             /\ g.readWait = k.readWait /\ g.read = k.read /\ g.writeWait = Append(k.writeWait, d)
  <2>1. g = [k EXCEPT !.writeWait = p]
    BY <1>2, <1>5, Zenon DEF AddedWriteWait
  <2>2. /\ g \in LockType /\ g.write = k.write /\ g.noInsert = k.noInsert
        /\ g.readWait = k.readWait /\ g.read = k.read /\ g.writeWait = p
    BY <1>1, <1>3, <2>1 DEF LockType
  <2> QED
    BY <1>2, <2>2
<1> QED
  BY <1>4, <1>5

\* A lock is given and none of the others' types changes.
LEMMA FitsFacts ==
    ASSUME NEW k, NEW l, Calm(k, l, type, want), NEW d, Fits(k, l, d, want),
           NEW t2, \A e \in Data \ {d} : t2[e] = type[e]
    PROVE  /\ Calm(k, l, t2, want) /\ d \in Data /\ d \notin Listed(k)
           /\ Listed(k) \subseteq Data
           /\ \A e \in Listed(k) : t2[e] = type[e]
<1>1. Lists(k)
  BY DEF Calm
<1>2. /\ k.read \in Seq(Data) /\ k.readWait \in Seq(Data)
      /\ k.write \in Seq(Data) /\ k.writeWait \in Seq(Data) /\ k.noInsert \in Int
  BY <1>1, LockFields
<1>3. d \in Data /\ d \notin Listed(k)
  BY DEF Fits
<1>7. Listed(k) \subseteq Data
  <2>1. Range(k.read) \subseteq Data /\ Range(k.readWait) \subseteq Data
        /\ Range(k.write) \subseteq Data /\ Range(k.writeWait) \subseteq Data
    BY <1>2, RangeOf
  <2> QED
    BY <2>1 DEF Listed, Reads, Writes
<1>8. \A e \in Listed(k) : t2[e] = type[e]
  BY <1>3, <1>7
<1>9. Calm(k, l, t2, want)
  BY <1>8, CalmFrame
<1> QED
  BY <1>3, <1>7, <1>8, <1>9

\* A write lock is given.
LEMMA WriteCalm ==
    ASSUME NEW k, NEW l, Calm(k, l, type, want), Wants(want), NEW d, Fits(k, l, d, want),
           NEW t2, NEW v, Became(Asked(want, d).type, v), ~Only(k), WriteAllowed(k, d, v),
           k.write # <<>> => v = Asked(want, d).type,
           t2[d] = v, \A e \in Data \ {d} : t2[e] = type[e],
           NEW g, g = AddedWrite(k, d)
    PROVE  /\ Calm(g, l, t2, want) /\ Busy(g) /\ Listed(g) = Listed(k) \cup {d} /\ InWait(g) = InWait(k)
           /\ Range(g.write) = Range(k.write) \cup {d}
<1> DEFINE A(e) == Asked(want, e).type
<1>1. Lists(k) /\ Mine(k, l, type, want) /\ Kinds(k, type, want) /\ Order(k, type, want)
      /\ Shared(k, type, want) /\ Count(k, type)
  BY DEF Calm
<1>2. /\ k.read \in Seq(Data) /\ k.readWait \in Seq(Data)
      /\ k.write \in Seq(Data) /\ k.writeWait \in Seq(Data) /\ k.noInsert \in Int
  BY <1>1, LockFields
<1>3. /\ d \in Data /\ d \notin Listed(k) /\ d[2] <= Len(want[d[1]]) /\ Asked(want, d).lock = l
      /\ \A e \in Listed(k) : e[1] = d[1] => e[2] < d[2]
  BY DEF Fits
<1>4. /\ g \in LockType /\ g.write = Append(k.write, d) /\ g.noInsert = k.noInsert
      /\ g.readWait = k.readWait /\ g.read = k.read /\ g.writeWait = k.writeWait
      /\ Range(g.write) = Range(k.write) \cup {d}
      /\ Once(k.write) /\ d \notin Range(k.write) => Once(g.write)
  <2>1. d \in Data /\ Lists(k)
    BY <1>1, <1>3
  <2> QED
    BY <2>1, WriteFields
<1>5. Range(k.read) \subseteq Listed(k) /\ Range(k.readWait) \subseteq Listed(k)
      /\ Range(k.write) \subseteq Listed(k) /\ Range(k.writeWait) \subseteq Listed(k)
  BY DEF Listed, Reads, Writes
<1>6. Reads(g) = Reads(k) /\ Writes(g) = Writes(k) \cup {d} /\ Listed(g) = Listed(k) \cup {d} /\ InWait(g) = InWait(k)
  BY <1>4 DEF Reads, Writes, Listed, InWait
<1>8. Listed(k) \subseteq Data /\ \A e \in Listed(k) : t2[e] = type[e]
  BY FitsFacts
<1>9. Calm(k, l, t2, want)
  BY FitsFacts
<1>10. Lists(k) /\ Mine(k, l, t2, want) /\ Kinds(k, t2, want) /\ Order(k, t2, want)
      /\ Shared(k, t2, want) /\ Count(k, t2)
  BY <1>9 DEF Calm
<1>11. Lists(g)
  BY <1>1, <1>3, <1>4, <1>5 DEF Lists
<1>12. Mine(g, l, t2, want)
  <2>1. t2[d] # TL_UNLOCK
    BY TypeNumbers DEF Became, TypeValues
  <2> QED
    BY <2>1, <1>3, <1>6, <1>10 DEF Mine
<1>13. Kinds(g, t2, want) /\ Count(g, t2)
  BY <1>3, <1>4, <1>6, <1>10 DEF Kinds, Count
<1>14. Order(g, t2, want)
  <2>1. PICK q, p : q = k.write /\ p = Append(q, d)
    OBVIOUS
  <2>2. PICK n : n = Len(q)
    OBVIOUS
  <2>3. /\ Len(p) = n + 1 /\ p[n + 1] = d /\ \A i \in 1..n : p[i] = q[i]
        /\ n \in Nat /\ \A i \in 1..n : q[i] \in Range(q)
    <3>1. q \in Seq(Data) /\ d \in Data
      BY <1>2, <1>3, <2>1
    <3> QED
      BY <3>1, <2>1, <2>2, AppendFacts, RangeOf
  <2>4. \A i \in 1..n + 1 : i \in 1..n \/ i = n + 1
    BY <2>3
  <2>5. InOrder(p)
    <3>1. \A i, j \in 1..n : i < j /\ q[i][1] = q[j][1] => q[i][2] < q[j][2]
      BY <1>10, <2>1, <2>2 DEF Order, InOrder
    <3>2. \A i \in 1..n : q[i][1] = d[1] => q[i][2] < d[2]
      BY <1>3, <1>5, <2>1, <2>3
    <3>3. ASSUME NEW i \in 1..n + 1, NEW j \in 1..n + 1, i < j, p[i][1] = p[j][1] PROVE p[i][2] < p[j][2]
      <4>1. i \in 1..n
        BY <2>3, <3>3
      <4>2. CASE j \in 1..n
        BY <2>3, <3>1, <3>3, <4>1, <4>2
      <4>3. CASE j = n + 1
        BY <2>3, <3>2, <3>3, <4>1, <4>3
      <4> QED
        BY <4>2, <4>3, <2>4
    <3> QED
      BY <2>3, <3>3 DEF InOrder
  <2>6. TailAsked(p, t2, want)
    <3>1. \A j \in 2..n : t2[q[j]] = A(q[j])
      BY <1>10, <2>1, <2>2 DEF Order, TailAsked
    <3>2. ASSUME NEW j \in 2..n + 1 PROVE t2[p[j]] = A(p[j])
      <4>1. CASE j = n + 1
        <5>1. n # 0
          BY <2>3, <4>1
        <5>2. q # <<>>
          BY <5>1, <2>2
        <5> QED
          BY <5>2, <2>1, <2>3, <4>1
      <4>2. CASE j # n + 1
        <5>1. j \in 2..n /\ j \in 1..n
          BY <2>3, <4>2
        <5> QED
          BY <5>1, <2>3, <3>1
      <4> QED
        BY <4>1, <4>2
    <3> QED
      BY <2>3, <3>2 DEF TailAsked
  <2> QED
    BY <1>4, <1>10, <2>1, <2>5, <2>6 DEF Order
<1>15. ASSUME k.write # <<>>
       PROVE  /\ \A w \in Range(k.write) : w[1] # d[1] => A(w) = TL_WRITE_ALLOW_WRITE /\ A(d) = TL_WRITE_ALLOW_WRITE
              /\ \A r \in Range(k.read) : r[1] # d[1] =>
                    /\ v \notin {TL_WRITE_LOW_PRIORITY, TL_WRITE}
                    /\ ~(v = TL_WRITE_CONCURRENT_INSERT /\ type[r] = TL_READ_NO_INSERT)
  <2>1. PICK h : h = Head(k.write)
    OBVIOUS
  <2>2. h \in Range(k.write)
    BY <1>2, <1>15, <2>1, RangeOf
  <2>3. v = A(d) /\ type[h] # TL_WRITE_ONLY /\ (h[1] = d[1] \/ (v = TL_WRITE_ALLOW_WRITE /\ type[h] = TL_WRITE_ALLOW_WRITE))
    BY <1>15, <2>1 DEF Only, WriteAllowed
  <2>4. \A w \in Range(k.write) : Became(A(w), type[w])
    BY <1>1 DEF Kinds, Writes
  <2>5. h[1] = d[1] => A(d) <= A(h) /\ A(h) # TL_WRITE_DELAYED
    <3> SUFFICES ASSUME h[1] = d[1] PROVE A(d) <= A(h) /\ A(h) # TL_WRITE_DELAYED
      OBVIOUS
    <3>1. h \in Listed(k) /\ h \in Data /\ d \in Data
      BY <1>3, <1>5, <1>8, <2>2
    <3>2. h[2] < d[2] /\ h[2] <= Len(want[d[1]]) /\ d[2] <= Len(want[d[1]]) /\ Asked(want, h).lock = Asked(want, d).lock
      BY <1>1, <1>3, <3>1 DEF Mine
    <3>3. d[1] \in Threads /\ h[2] \in 1..MaxLocks /\ d[2] \in 1..MaxLocks
      BY <3>1 DEF Data
    <3>4. want[d[1]] \in Seq(Wanted)
      BY <3>3 DEF Wants
    <3>5. Len(want[d[1]]) \in Nat /\ h[2] \in Nat \ {0} /\ d[2] \in Nat \ {0}
      BY <3>3, <3>4, MaxLocksNatural
    <3>6. h[2] \in 1..Len(want[d[1]]) /\ d[2] \in 1..Len(want[d[1]])
      BY <3>2, <3>5
    <3> QED
      BY <3>2, <3>3, <3>6 DEF Wants, Asked
  <2>6. Became(A(d), v) /\ Became(A(h), type[h])
    BY <2>2, <2>4
  <2>7. ASSUME NEW w \in Range(k.write), w[1] # d[1] PROVE A(w) = TL_WRITE_ALLOW_WRITE /\ A(d) = TL_WRITE_ALLOW_WRITE
    <3>1. /\ \/ w = h
             \/ type[w] = A(w) /\ A(w) <= A(h)
          /\ w[1] # h[1] => A(h) = TL_WRITE_ALLOW_WRITE /\ A(w) = TL_WRITE_ALLOW_WRITE
      BY <1>15, <2>1, <2>7, HeadRule
    <3>2. Became(A(w), type[w])
      BY <2>4, <2>7
    <3>3. CASE h[1] = d[1]
      <4>1. A(h) = TL_WRITE_ALLOW_WRITE /\ A(w) = TL_WRITE_ALLOW_WRITE /\ A(d) <= A(h)
        BY <2>5, <2>7, <3>1, <3>3
      <4> QED
        BY <4>1, <2>6, TypeNumbers DEF Became, TypeValues
    <3>4. CASE v = TL_WRITE_ALLOW_WRITE /\ type[h] = TL_WRITE_ALLOW_WRITE
      <4>1. A(h) = TL_WRITE_ALLOW_WRITE
        BY <2>6, <3>4, TypeNumbers DEF Became, TypeValues
      <4>2. A(w) <= A(h)
        <5>1. CASE w = h
          BY <4>1, <5>1, TypeNumbers DEF TypeValues
        <5>2. CASE w # h
          BY <5>2, <3>1
        <5> QED
          BY <5>1, <5>2
      <4>3. A(w) = TL_WRITE_ALLOW_WRITE
        BY <4>1, <4>2, <3>2, TypeNumbers DEF Became, TypeValues
      <4> QED
        BY <4>3, <2>3, <3>4
    <3> QED
      BY <3>3, <3>4, <2>3
  <2>8. ASSUME NEW r \in Range(k.read), r[1] # d[1]
        PROVE  /\ v \notin {TL_WRITE_LOW_PRIORITY, TL_WRITE}
               /\ ~(v = TL_WRITE_CONCURRENT_INSERT /\ type[r] = TL_READ_NO_INSERT)
    <3>1. CASE h[1] = d[1]
      <4>1. /\ type[h] \notin {TL_WRITE_LOW_PRIORITY, TL_WRITE}
            /\ ~(type[h] = TL_WRITE_CONCURRENT_INSERT /\ type[r] = TL_READ_NO_INSERT)
        BY <1>1, <2>2, <2>8, <3>1 DEF Shared, Goes
      <4>2. A(h) = type[h]
        BY <4>1, <2>3, <2>6, TypeNumbers DEF Became, TypeValues
      <4>3. A(h) \in 5..7
        BY <4>1, <4>2, <2>3, <2>5, <2>6, <3>1, TypeNumbers DEF Became, TypeValues
      <4>4. v \in 5..11 /\ v <= A(h)
        BY <2>3, <2>5, <2>6, <3>1, TypeNumbers DEF Became, TypeValues
      <4> QED
        BY <4>1, <4>2, <4>3, <4>4, TypeNumbers DEF TypeValues
    <3>2. CASE v = TL_WRITE_ALLOW_WRITE
      BY <3>2, TypeNumbers DEF TypeValues
    <3> QED
      BY <3>1, <3>2, <2>3
  <2> QED
    BY <2>7, <2>8
<1>16. ASSUME k.write = <<>>, NEW r \in Range(k.read)
       PROVE  /\ v \notin {TL_WRITE_LOW_PRIORITY, TL_WRITE}
              /\ ~(v = TL_WRITE_CONCURRENT_INSERT /\ type[r] = TL_READ_NO_INSERT)
  <2>1. k.read # <<>>
    BY <1>2, <1>16, RangeOf
  <2>2. WithReads(k, v)
    BY <1>16, <2>1 DEF WriteAllowed
  <2>3. v <= TL_WRITE_DELAYED
    BY <2>2 DEF WithReads
  <2>4. ASSUME v = TL_WRITE_CONCURRENT_INSERT, type[r] = TL_READ_NO_INSERT PROVE FALSE
    <3>1. k.noInsert = 0
      BY <2>2, <2>4 DEF WithReads, Inserting
    <3>2. IsFiniteSet(NoIns(Range(k.read), type))
      <4>1. IsFiniteSet(Range(k.read)) /\ NoIns(Range(k.read), type) \subseteq Range(k.read)
        BY <1>2, RangeFinite DEF NoIns
      <4> QED
        BY <4>1, FS_Subset
    <3>3. NoIns(Range(k.read), type) = {}
      BY <3>1, <3>2, <1>1, FS_EmptySet DEF Count
    <3> QED
      BY <3>3, <2>4, <1>16 DEF NoIns
  <2> QED
    BY <2>3, <2>4, TypeNumbers DEF TypeValues
<1>17. \A w \in Range(k.write) : w[1] # d[1] => A(w) = TL_WRITE_ALLOW_WRITE /\ A(d) = TL_WRITE_ALLOW_WRITE
  <2>1. k.write = <<>> => Range(k.write) = {}
    BY <1>2, RangeOf
  <2> QED
    BY <2>1, <1>15
<1>18. \A r \in Range(k.read) : Goes(d, r, t2)
  <2> SUFFICES ASSUME NEW r \in Range(k.read), r[1] # d[1]
               PROVE  /\ v \notin {TL_WRITE_LOW_PRIORITY, TL_WRITE}
                      /\ ~(v = TL_WRITE_CONCURRENT_INSERT /\ type[r] = TL_READ_NO_INSERT)
    BY <1>5, <1>8 DEF Goes
  <2> QED
    BY <1>15, <1>16
<1>19. Shared(g, t2, want)
  <2>1. ASSUME NEW w \in Range(g.write), NEW r \in Range(g.read) PROVE Goes(w, r, t2)
    BY <1>4, <1>10, <1>18 DEF Shared
  <2>2. ASSUME NEW w \in Range(g.write), NEW u \in Range(g.write), w[1] # u[1]
        PROVE  A(w) = TL_WRITE_ALLOW_WRITE /\ A(u) = TL_WRITE_ALLOW_WRITE
    <3>1. w \in Range(k.write) \/ w = d
      BY <1>4
    <3>2. u \in Range(k.write) \/ u = d
      BY <1>4
    <3>3. CASE w \in Range(k.write) /\ u \in Range(k.write)
      BY <3>3, <2>2, <1>10 DEF Shared
    <3>4. CASE w = d \/ u = d
      BY <3>1, <3>2, <3>4, <2>2, <1>17
    <3> QED
      BY <3>1, <3>2, <3>3, <3>4
  <2> QED
    BY <2>1, <2>2 DEF Shared
<1>20. Busy(g)
  <2>1. g.write \in Seq(Data)
    BY <1>4 DEF LockType
  <2>2. Range(g.write) # {}
    BY <1>4
  <2>3. g.write # <<>>
    BY <2>1, <2>2, RangeOf
  <2> QED
    BY <2>3 DEF Busy, Held
<1> QED
  BY <1>4, <1>6, <1>11, <1>12, <1>13, <1>14, <1>19, <1>20 DEF Calm

\* A list with one lock of each thread, and one of another thread.
LEMMA OneEachAppend ==
    ASSUME NEW q \in Seq(Data), NEW d \in Data, OneEach(q), \A e \in Range(q) : e[1] # d[1]
    PROVE  OneEach(Append(q, d)) /\ OneEach(<<d>> \o q)
<1>1. PICK p, r, n : p = Append(q, d) /\ r = <<d>> \o q /\ n = Len(q)
  OBVIOUS
<1>2. n \in Nat /\ \A i \in 1..n : q[i] \in Range(q)
  BY <1>1, RangeOf
<1>3. /\ \A i, j \in 1..n : i # j => q[i][1] # q[j][1]
      /\ \A i \in 1..n : q[i][1] # d[1]
  BY <1>1, <1>2 DEF OneEach
<1>4. Len(p) = n + 1 /\ p[n + 1] = d /\ \A i \in 1..n : p[i] = q[i]
  BY <1>1, AppendFacts
<1>5. Len(r) = n + 1 /\ r[1] = d /\ \A i \in 2..n + 1 : r[i] = q[i - 1]
  BY <1>1
<1>6. \A i, j \in 1..n + 1 : i # j => p[i][1] # p[j][1]
  <2>1. \A i \in 1..n + 1 : i \in 1..n \/ i = n + 1
    BY <1>2
  <2> QED
    BY <2>1, <1>3, <1>4
<1>7. \A i, j \in 1..n + 1 : i # j => r[i][1] # r[j][1]
  <2>1. \A i \in 1..n + 1 : i = 1 \/ (i \in 2..n + 1 /\ i - 1 \in 1..n)
    BY <1>2
  <2>2. \A i, j \in 2..n + 1 : i # j => i - 1 # j - 1
    BY <1>2
  <2>3. \A i, j \in 2..n + 1 : i # j => r[i][1] # r[j][1]
    BY <2>1, <2>2, <1>2, <1>3, <1>5
  <2>4. \A i \in 2..n + 1 : r[i][1] # r[1][1]
    <3>1. \A i \in 2..n + 1 : i - 1 \in 1..n
      BY <1>2
    <3> QED
      BY <3>1, <1>3, <1>5
  <2> QED
    BY <2>1, <2>3, <2>4
<1> QED
  BY <1>1, <1>4, <1>5, <1>6, <1>7 DEF OneEach

\* A read lock waits.
LEMMA QueueReadCalm ==
    ASSUME NEW k, NEW l, Calm(k, l, type, want), NEW d, Fits(k, l, d, want),
           NEW t2, NEW v, v \in Types \ {TL_UNLOCK}, IsRead(v), v = Asked(want, d).type, Held(k),
           t2[d] = v, \A e \in Data \ {d} : t2[e] = type[e],
           NEW g, g = AddedReadWait(k, d)
    PROVE  /\ Calm(g, l, t2, want) /\ Busy(g) /\ Listed(g) = Listed(k) \cup {d} /\ InWait(g) = InWait(k) \cup {d}
           /\ Range(g.write) = Range(k.write)
<1>1. Calm(k, l, t2, want) /\ d \in Data /\ d \notin Listed(k)
  BY FitsFacts
<1>2. Lists(k) /\ Mine(k, l, t2, want) /\ Kinds(k, t2, want) /\ Order(k, t2, want)
      /\ Shared(k, t2, want) /\ Count(k, t2)
  BY <1>1 DEF Calm
<1>3. d[2] <= Len(want[d[1]]) /\ Asked(want, d).lock = l
  BY DEF Fits
<1>4. /\ g \in LockType /\ g.write = k.write /\ g.noInsert = k.noInsert
      /\ g.readWait = Append(k.readWait, d) /\ g.read = k.read /\ g.writeWait = k.writeWait
  BY <1>1, <1>2, WaitFields
<1>5. Range(g.readWait) = Range(k.readWait) \cup {d}
      /\ (Once(k.readWait) /\ d \notin Range(k.readWait) => Once(g.readWait))
  <2>1. k.readWait \in Seq(Data)
    BY <1>2, LockFields
  <2> QED
    BY <2>1, <1>1, <1>4, AppendFacts, OnceAppend
<1>6. Range(k.read) \subseteq Listed(k) /\ Range(k.readWait) \subseteq Listed(k)
  BY DEF Listed, Reads
<1>7. Reads(g) = Reads(k) \cup {d} /\ Writes(g) = Writes(k) /\ Listed(g) = Listed(k) \cup {d}
      /\ InWait(g) = InWait(k) \cup {d}
  BY <1>4, <1>5 DEF Reads, Writes, Listed, InWait
<1>8. Lists(g)
  BY <1>1, <1>2, <1>4, <1>5, <1>6 DEF Lists
<1>9. Mine(g, l, t2, want) /\ Kinds(g, t2, want)
  BY <1>2, <1>3, <1>7 DEF Mine, Kinds
<1>10. Order(g, t2, want) /\ Shared(g, t2, want) /\ Count(g, t2)
  BY <1>2, <1>4 DEF Order, Shared, Count
<1>11. Busy(g)
  BY <1>4 DEF Busy, Held
<1> QED
  BY <1>4, <1>7, <1>8, <1>9, <1>10, <1>11 DEF Calm

\* A write lock waits.
LEMMA QueueWriteCalm ==
    ASSUME NEW k, NEW l, Calm(k, l, type, want), NEW d, Fits(k, l, d, want),
           NEW t2, NEW v, Became(Asked(want, d).type, v), Held(k),
           t2[d] = v, \A e \in Data \ {d} : t2[e] = type[e],
           \A e \in Range(k.writeWait) : e[1] # d[1],
           NEW g, g = AddedWriteWait(k, d)
    PROVE  /\ Calm(g, l, t2, want) /\ Busy(g) /\ Listed(g) = Listed(k) \cup {d} /\ InWait(g) = InWait(k) \cup {d}
           /\ Range(g.write) = Range(k.write)
<1>1. Calm(k, l, t2, want) /\ d \in Data /\ d \notin Listed(k)
  BY FitsFacts
<1>2. Lists(k) /\ Mine(k, l, t2, want) /\ Kinds(k, t2, want) /\ Order(k, t2, want)
      /\ Shared(k, t2, want) /\ Count(k, t2)
  BY <1>1 DEF Calm
<1>3. d[2] <= Len(want[d[1]]) /\ Asked(want, d).lock = l
  BY DEF Fits
<1>4. /\ g \in LockType /\ g.write = k.write /\ g.noInsert = k.noInsert
      /\ g.readWait = k.readWait /\ g.read = k.read /\ g.writeWait = Append(k.writeWait, d)
  BY <1>1, <1>2, WaitFields
<1>5. Range(g.writeWait) = Range(k.writeWait) \cup {d} /\ OneEach(g.writeWait)
  <2>1. k.writeWait \in Seq(Data) /\ OneEach(k.writeWait)
    BY <1>2, LockFields DEF Order
  <2> QED
    <3>1. PICK q : q = k.writeWait
      OBVIOUS
    <3>2. q \in Seq(Data) /\ OneEach(q) /\ (\A e \in Range(q) : e[1] # d[1]) /\ d \in Data
      BY <2>1, <3>1, <1>1
    <3>3. Range(Append(q, d)) = Range(q) \cup {d}
      BY <3>2, AppendFacts
    <3>4. OneEach(Append(q, d))
      BY <3>2, OneEachAppend
    <3> QED
      BY <3>1, <3>3, <3>4, <1>4
<1>6. Range(k.write) \subseteq Listed(k) /\ Range(k.writeWait) \subseteq Listed(k)
  BY DEF Listed, Writes
<1>7. Reads(g) = Reads(k) /\ Writes(g) = Writes(k) \cup {d} /\ Listed(g) = Listed(k) \cup {d}
      /\ InWait(g) = InWait(k) \cup {d}
  BY <1>4, <1>5 DEF Reads, Writes, Listed, InWait
<1>8. Lists(g)
  BY <1>1, <1>2, <1>4, <1>5, <1>6 DEF Lists
<1>9. Mine(g, l, t2, want)
  <2>1. t2[d] # TL_UNLOCK
    BY TypeNumbers DEF Became, TypeValues
  <2> QED
    BY <2>1, <1>2, <1>3, <1>7 DEF Mine
<1>10. Kinds(g, t2, want)
  BY <1>2, <1>7 DEF Kinds
<1>11. Order(g, t2, want) /\ Shared(g, t2, want) /\ Count(g, t2)
  BY <1>2, <1>4, <1>5 DEF Order, Shared, Count
<1>12. Busy(g)
  BY <1>4 DEF Busy, Held
<1> QED
  BY <1>4, <1>7, <1>8, <1>9, <1>10, <1>11, <1>12 DEF Calm

\* The lock d has the table for itself, and its thread does not wait for another.
Solo(k, d) == Range(k.write) = {d} /\ \A e \in Range(k.writeWait) : e[1] # d[1]

\* Then it goes back to the front of those that wait.
LEMMA BackCalm ==
    ASSUME NEW k, NEW l, NEW ty, NEW wn, Calm(k, l, ty, wn), NEW d \in Data, Solo(k, d),
           NEW g, g = Back(k, d)
    PROVE  /\ Calm(g, l, ty, wn) /\ Listed(g) = Listed(k)
           /\ g.write = <<>> /\ g.read = k.read /\ g.readWait = k.readWait
           /\ Range(g.writeWait) = Range(k.writeWait) \cup {d}
<1>0. Range(k.write) = {d} /\ \A e \in Range(k.writeWait) : e[1] # d[1]
  BY DEF Solo
<1>1. Lists(k) /\ Mine(k, l, ty, wn) /\ Kinds(k, ty, wn) /\ Order(k, ty, wn) /\ Shared(k, ty, wn) /\ Count(k, ty)
  BY DEF Calm
<1>2. k \in LockType /\ k.write \in Seq(Data) /\ k.writeWait \in Seq(Data)
  BY <1>1, LockFields DEF Lists
<1>3. PICK w, ww : w = Rest(k.write, {d}) /\ ww = <<d>> \o k.writeWait
  OBVIOUS
<1>4. w \in Seq(Data) /\ w = <<>>
  <2>1. w \in Seq(Data) /\ Range(w) = {}
    BY <1>0, <1>2, <1>3, RestRange
  <2> QED
    BY <2>1, RangeOf
<1>5. ww \in Seq(Data) /\ Range(ww) = Range(k.writeWait) \cup {d} /\ OneEach(ww)
  <2>1. <<d>> \in Seq(Data) /\ Len(<<d>>) = 1 /\ <<d>>[1] = d
    OBVIOUS
  <2>2. PICK o : o = <<d>>
    OBVIOUS
  <2>3. o \in Seq(Data) /\ Range(o) = {d}
    <3>1. \A e : e \in Range(o) <=> \E i \in 1..1 : o[i] = e
      BY <2>1, <2>2, RangeOf
    <3> QED
      BY <2>1, <2>2, <3>1
  <2>4. ww \in Seq(Data) /\ Range(ww) = Range(o) \cup Range(k.writeWait)
    <3>1. PICK q : q = k.writeWait
      OBVIOUS
    <3>2. q \in Seq(Data)
      BY <3>1, <1>2
    <3>3. o \o q \in Seq(Data) /\ Range(o \o q) = Range(o) \cup Range(q)
      BY <3>2, <2>3, ConcatFacts
    <3> QED
      BY <3>1, <3>3, <1>3, <2>2
  <2>5. OneEach(ww)
    <3>1. OneEach(k.writeWait)
      BY <1>1 DEF Order
    <3> QED
      BY <3>1, <1>0, <1>2, <1>3, OneEachAppend
  <2> QED
    BY <2>3, <2>4, <2>5
<1>6. g = [k EXCEPT !.write = w, !.writeWait = ww]
  BY <1>3, Zenon DEF Back
<1>7. /\ g \in LockType /\ g.write = w /\ g.noInsert = k.noInsert
      /\ g.readWait = k.readWait /\ g.read = k.read /\ g.writeWait = ww
  BY <1>2, <1>4, <1>5, <1>6 DEF LockType
<1>8. Range(w) = {}
  BY <1>4, RangeOf
<1>9. Reads(g) = Reads(k) /\ Writes(g) = Writes(k) /\ Listed(g) = Listed(k)
  BY <1>0, <1>5, <1>7, <1>8 DEF Reads, Writes, Listed
<1>10. Once(w) /\ InOrder(w) /\ TailAsked(w, ty, wn)
  <2>1. Len(w) = 0
    BY <1>4
  <2>2. \A i \in 1..0 : FALSE
    OBVIOUS
  <2>3. \A i \in 2..0 : FALSE
    OBVIOUS
  <2> QED
    BY <2>1, <2>2, <2>3 DEF Once, InOrder, TailAsked
<1>11. Lists(g)
  BY <1>1, <1>7, <1>8, <1>10 DEF Lists
<1>12. Mine(g, l, ty, wn) /\ Kinds(g, ty, wn)
  BY <1>1, <1>9 DEF Mine, Kinds
<1>13. Order(g, ty, wn) /\ Shared(g, ty, wn) /\ Count(g, ty)
  BY <1>1, <1>5, <1>7, <1>8, <1>10 DEF Order, Shared, Count
<1> QED
  BY <1>4, <1>5, <1>7, <1>9, <1>11, <1>12, <1>13 DEF Calm

-----------------------------------------------------------------------------
(***************************************************************************)
(* The inductive invariant.                                                *)
(***************************************************************************)
\* The places of a thread; those at the end only a handler gets to.
PCs == {"idle", "lock", "wait", "locked", "unlock", "writing", "upgrade", "reupgrade", "reschedule"}
Late == {"writing", "upgrade", "reupgrade", "reschedule"}
Free(t, i) == type[<<t, i>>] = TL_UNLOCK

\* The parts of the inductive invariant: types; the lists of every lock are in
\* order; a lock that has a type is on a list; what a thread has at each place; what
\* a handler asks for; only who waits is queued; what a handler has, while nobody aborts.
TypeOK ==
    /\ lock \in [Locks -> LockType] /\ type \in [Data -> Types]
    /\ Wants(want) /\ \A t \in Threads : Len(want[t]) <= MaxLocks
    /\ pos \in [Threads -> Nat \ {0}] /\ last \in [Threads -> Nat] /\ pc \in [Threads -> PCs]
    /\ aborts \in BOOLEAN
AllCalm == \A l \in Locks : Calm(lock[l], l, type, want) /\ Busy(lock[l])
Located ==
    \A d \in Data : type[d] # TL_UNLOCK => d[2] <= Len(want[d[1]]) /\ d \in Listed(lock[LockOf(d)])
Call(t) ==
    /\ pc[t] = "idle" => \A i \in 1..MaxLocks : Free(t, i)
    /\ pc[t] = "lock" => /\ pos[t] \in 1..Len(want[t])
                         /\ \A i \in 1..MaxLocks : i >= pos[t] => Free(t, i)
    /\ pc[t] = "wait" => /\ pos[t] \in 1..Len(want[t])
                         /\ \A i \in 1..MaxLocks : i > pos[t] => Free(t, i)
    /\ pc[t] = "unlock" => /\ pos[t] <= last[t] + 1 /\ last[t] <= Len(want[t])
                           /\ \A i \in 1..MaxLocks : i < pos[t] \/ i > last[t] => Free(t, i)
Role(t) ==
    /\ t \in Handlers /\ pc[t] # "idle" => Len(want[t]) = 1 /\ want[t][1].type = TL_WRITE_DELAYED
    /\ t \notin Handlers => /\ pc[t] \notin Late
                            /\ \A i \in 1..Len(want[t]) : want[t][i].type # TL_WRITE_DELAYED
Queued ==
    \A l \in Locks : \A d \in InWait(lock[l]) : d[1] \notin Handlers => pc[d[1]] = "wait" /\ d[2] = pos[d[1]]
Keeps(t) ==
    /\ pc[t] \in {"wait", "locked", "reschedule"} => type[<<t, 1>>] = TL_WRITE_DELAYED
    /\ pc[t] \in {"writing", "upgrade", "reupgrade"} => type[<<t, 1>>] = TL_WRITE
    /\ pc[t] = "writing" => <<t, 1>> \in Range(lock[LockOf(<<t, 1>>)].write)
AllKeep == ~aborts => \A t \in Handlers : Keeps(t)
IInv == /\ TypeOK /\ AllCalm /\ Located /\ Queued /\ AllKeep
        /\ \A t \in Threads : Call(t) /\ Role(t)

\* What is listed is the data of a thread that has a statement.
LEMMA ListedFacts ==
    ASSUME TypeOK, AllCalm, Located, NEW l \in Locks, NEW d \in Listed(lock[l])
    PROVE  /\ d \in Data /\ type[d] # TL_UNLOCK /\ LockOf(d) = l
           /\ d[1] \in Threads /\ d[2] \in 1..MaxLocks /\ d[2] \in 1..Len(want[d[1]]) /\ d = <<d[1], d[2]>>
           /\ want[d[1]][d[2]] \in Wanted
<1>1. Calm(lock[l], l, type, want)
  BY DEF AllCalm
<1>2. d[2] <= Len(want[d[1]]) /\ Asked(want, d).lock = l /\ type[d] # TL_UNLOCK
  BY <1>1 DEF Calm, Mine
<1>3. d \in Data
  <2>1. PICK k : k = lock[l]
    OBVIOUS
  <2>2. Lists(k)
    BY <1>1, <2>1 DEF Calm
  <2>3. k.read \in Seq(Data) /\ k.readWait \in Seq(Data) /\ k.write \in Seq(Data) /\ k.writeWait \in Seq(Data)
    BY <2>2, LockFields
  <2>4. Range(k.read) \subseteq Data /\ Range(k.readWait) \subseteq Data
        /\ Range(k.write) \subseteq Data /\ Range(k.writeWait) \subseteq Data
    BY <2>3, RangeOf
  <2> QED
    BY <2>1, <2>4 DEF Listed, Reads, Writes
<1>4. d[1] \in Threads /\ d[2] \in 1..MaxLocks /\ d = <<d[1], d[2]>>
  BY <1>3 DEF Data
<1>5. want[d[1]] \in Seq(Wanted)
  BY <1>4 DEF TypeOK, Wants
<1>6. d[2] \in 1..Len(want[d[1]])
  BY <1>2, <1>4, <1>5, MaxLocksNatural
<1>7. want[d[1]][d[2]] \in Wanted
  BY <1>5, <1>6
<1> QED
  BY <1>2, <1>3, <1>4, <1>6, <1>7 DEF LockOf, Asked

\* A step that changes one lock, and types of what is or was on its lists.
LEMMA OneLock ==
    ASSUME TypeOK, AllCalm, Located, NEW l \in Locks, NEW g, NEW ty2,
           lock' = [lock EXCEPT ![l] = g], type' = ty2, want' = want,
           ty2 \in [Data -> Types], Calm(g, l, ty2, want), Busy(g),
           \A e \in Data : ty2[e] # type[e] => e \in Listed(lock[l]) \/ e \in Listed(g),
           \A e \in Listed(lock[l]) : e \in Listed(g) \/ ty2[e] = TL_UNLOCK
    PROVE  /\ AllCalm' /\ Located' /\ lock' \in [Locks -> LockType] /\ type' \in [Data -> Types]
           /\ lock'[l] = g /\ \A m \in Locks : m # l => lock'[m] = lock[m]
<1>1. lock'[l] = g /\ \A m \in Locks : m # l => lock'[m] = lock[m]
  BY DEF TypeOK
<1>2. lock' \in [Locks -> LockType]
  <2>1. g \in LockType
    BY DEF Calm, Lists
  <2> QED
    BY <2>1 DEF TypeOK
<1>3. \A e \in Listed(g) : Asked(want, e).lock = l /\ e[2] <= Len(want[e[1]])
  BY DEF Calm, Mine
<1>4. ASSUME NEW m \in Locks, m # l PROVE Calm(lock'[m], m, type', want') /\ Busy(lock'[m])
  <2>1. Calm(lock[m], m, type, want) /\ Busy(lock[m])
    BY DEF AllCalm
  <2>2. ASSUME NEW e \in Listed(lock[m]) PROVE ty2[e] = type[e] /\ want[e[1]] = want[e[1]]
    <3>1. e \in Data /\ LockOf(e) = m
      BY ListedFacts
    <3>2. e \notin Listed(lock[l])
      BY <3>1, <1>4, ListedFacts
    <3>3. e \notin Listed(g)
      BY <3>1, <1>3, <1>4 DEF LockOf, Asked
    <3> QED
      BY <3>1, <3>2, <3>3
  <2>3. Calm(lock[m], m, ty2, want)
    BY <2>1, <2>2, CalmFrame
  <2> QED
    BY <2>1, <2>3, <1>1, <1>4
<1>5. Calm(lock'[l], l, type', want') /\ Busy(lock'[l])
  BY <1>1
<1>6. AllCalm'
  BY <1>4, <1>5 DEF AllCalm
<1>7. ASSUME NEW d \in Data, ty2[d] # TL_UNLOCK
      PROVE  d[2] <= Len(want[d[1]]) /\ d \in Listed(lock'[want[d[1]][d[2]].lock])
  <2>1. CASE d \in Listed(g)
    <3>1. want[d[1]][d[2]].lock = l /\ d[2] <= Len(want[d[1]])
      BY <1>3, <2>1 DEF Asked
    <3> QED
      BY <3>1, <1>1, <2>1
  <2>2. CASE d \notin Listed(g)
    <3>1. d \notin Listed(lock[l])
      BY <1>7, <2>2
    <3>2. type[d] # TL_UNLOCK
      BY <1>7, <2>2, <3>1
    <3>3. d[2] <= Len(want[d[1]]) /\ d \in Listed(lock[want[d[1]][d[2]].lock])
      BY <3>2 DEF Located, LockOf
    <3>4. want[d[1]][d[2]].lock # l
      BY <3>1, <3>3
    <3>5. want[d[1]][d[2]].lock \in Locks
      <4>1. d[1] \in Threads /\ d[2] \in 1..MaxLocks
        BY DEF Data
      <4>2. want[d[1]] \in Seq(Wanted)
        BY <4>1 DEF TypeOK, Wants
      <4>3. d[2] \in 1..Len(want[d[1]])
        BY <3>3, <4>1, <4>2, MaxLocksNatural
      <4>4. want[d[1]][d[2]] \in Wanted
        BY <4>2, <4>3
      <4> QED
        BY <4>4 DEF Wanted
    <3> QED
      BY <3>3, <3>4, <3>5, <1>1
  <2> QED
    BY <2>1, <2>2
<1>8. Located'
  BY <1>7 DEF Located, LockOf
<1> QED
  BY <1>1, <1>2, <1>6, <1>8

\* What a step of the thread t leaves alone: the other threads, their locks, and
\* their places in the lists.
Others(t) == \A u \in Threads : u # t =>
                 pc'[u] = pc[u] /\ pos'[u] = pos[u] /\ last'[u] = last[u] /\ want'[u] = want[u]
NoLocks(t) == \A e \in Data : e[1] # t /\ type[e] = TL_UNLOCK => type'[e] = TL_UNLOCK
OthersKeep(t) ==
    /\ aborts' = aborts
    /\ ~aborts => \A e \in Data : e[1] \in Handlers /\ e[1] # t => type'[e] = type[e]
    /\ \A l \in Locks : \A e \in Range(lock[l].write) : e[1] # t => e \in Range(lock'[l].write)
OthersQueued(t) == \A l \in Locks : \A d \in InWait(lock'[l]) : d \in InWait(lock[l]) \/ d[1] = t
MineQueued(t) == t \notin Handlers => \A l \in Locks : \A d \in InWait(lock'[l]) :
                     d[1] = t => pc'[t] = "wait" /\ d[2] = pos'[t]
MineKeep(t) == ~aborts /\ t \in Handlers => Keeps(t)'

\* The invariant after a step of t, from its parts.
LEMMA StepInv ==
    ASSUME IInv, NEW t \in Threads, Others(t), NoLocks(t), OthersKeep(t), OthersQueued(t), MineQueued(t), MineKeep(t),
           TypeOK', AllCalm', Located', Call(t)', Role(t)'
    PROVE  IInv'
<1>1. ASSUME NEW u \in Threads, u # t PROVE Call(u)' /\ Role(u)'
  <2>1. pc'[u] = pc[u] /\ pos'[u] = pos[u] /\ last'[u] = last[u] /\ want'[u] = want[u]
    BY <1>1 DEF Others
  <2>2. Call(u) /\ Role(u)
    BY DEF IInv
  <2>3. \A i \in 1..MaxLocks : Free(u, i) => Free(u, i)'
    <3>1. \A i \in 1..MaxLocks : <<u, i>> \in Data /\ <<u, i>>[1] # t
      BY <1>1 DEF Data
    <3> QED
      BY <3>1 DEF NoLocks, Free
  <2>4. Call(u)'
    BY <2>1, <2>2, <2>3 DEF Call
  <2>5. Role(u)'
    BY <2>1, <2>2 DEF Role
  <2> QED
    BY <2>4, <2>5
<1>2. Queued'
  <2> SUFFICES ASSUME NEW l \in Locks, NEW d \in InWait(lock'[l]), d[1] \notin Handlers
               PROVE  pc'[d[1]] = "wait" /\ d[2] = pos'[d[1]]
    BY DEF Queued
  <2>1. CASE d[1] = t
    BY <2>1 DEF MineQueued
  <2>2. CASE d[1] # t
    <3>1. d \in InWait(lock[l])
      BY <2>2 DEF OthersQueued
    <3>2. pc[d[1]] = "wait" /\ d[2] = pos[d[1]]
      BY <3>1 DEF IInv, Queued
    <3>3. d[1] \in Threads
      <4>1. d \in Listed(lock[l])
        BY <3>1 DEF InWait, Listed, Reads, Writes
      <4> QED
        BY <4>1, ListedFacts DEF IInv
    <3> QED
      BY <2>2, <3>2, <3>3 DEF Others
  <2> QED
    BY <2>1, <2>2
<1>3. AllKeep'
  <2> SUFFICES ASSUME ~aborts, NEW u \in Handlers PROVE Keeps(u)'
    BY DEF AllKeep, OthersKeep
  <2>1. CASE u = t
    BY <2>1 DEF MineKeep
  <2>2. CASE u # t
    <3>1. u \in Threads /\ Keeps(u)
      BY HandlersAreThreads DEF IInv, AllKeep
    <3>2. pc'[u] = pc[u] /\ want'[u] = want[u]
      BY <2>2, <3>1 DEF Others
    <3>3. type'[<<u, 1>>] = type[<<u, 1>>]
      <4>1. <<u, 1>> \in Data
        BY <3>1, MaxLocksNatural DEF Data
      <4> QED
        BY <4>1, <2>2 DEF OthersKeep
    <3>4. ASSUME pc[u] = "writing"
          PROVE  <<u, 1>> \in Range(lock'[want'[u][1].lock].write)
      <4>1. Len(want[u]) = 1 /\ want[u] \in Seq(Wanted)
        BY <3>1, <3>4 DEF IInv, Role, TypeOK, Wants
      <4>2. want[u][1] \in Wanted
        BY <4>1
      <4>3. want[u][1].lock \in Locks
        BY <4>2 DEF Wanted
      <4>4. <<u, 1>> \in Range(lock[want[u][1].lock].write)
        BY <3>1, <3>4 DEF Keeps, LockOf
      <4> QED
        BY <2>2, <3>2, <4>3, <4>4 DEF OthersKeep
    <3> QED
      BY <3>1, <3>2, <3>3, <3>4 DEF Keeps, LockOf
  <2> QED
    BY <2>1, <2>2
<1> QED
  BY <1>1, <1>2, <1>3 DEF IInv

-----------------------------------------------------------------------------
(***************************************************************************)
(* The steps of a thread.                                                  *)
(***************************************************************************)
\* The thread t itself after its step.
Typed == pos' \in [Threads -> Nat \ {0}] /\ last' \in [Threads -> Nat] /\ pc' \in [Threads -> PCs]
Thread(t) == Typed /\ Others(t) /\ Call(t)' /\ Role(t)' /\ MineKeep(t)

\* The types after a step.
LEMMA TypeStep ==
    ASSUME TypeOK, Typed, lock' \in [Locks -> LockType], type' \in [Data -> Types], want' = want, aborts' = aborts
    PROVE  TypeOK'
  BY DEF TypeOK, Typed

\* thr_multi_lock and thr_multi_unlock begin to unlock the first n locks.
LEMMA UnlockStep ==
    ASSUME IInv, NEW t \in Threads, NEW n \in Nat, n <= Len(want[t]), pc[t] # "idle",
           UnlockFirst(t, n), want' = want, \A i \in 1..MaxLocks : i > n => Free(t, i)'
    PROVE  Thread(t)
<1>1. /\ pos \in [Threads -> Nat \ {0}] /\ last \in [Threads -> Nat] /\ pc \in [Threads -> PCs]
  BY DEF IInv, TypeOK
<1>2. /\ pos' = [pos EXCEPT ![t] = 1] /\ last' = [last EXCEPT ![t] = n] /\ pc' = [pc EXCEPT ![t] = "unlock"]
  BY DEF UnlockFirst, Goto
<1>3. pos'[t] = 1 /\ last'[t] = n /\ pc'[t] = "unlock"
  BY <1>1, <1>2
<1>4. Typed
  BY <1>1, <1>2 DEF Typed, PCs
<1>5. Others(t)
  BY <1>1, <1>2 DEF Others
<1>6. Call(t)'
  <2>1. \A i \in 1..MaxLocks : ~(i < 1)
    OBVIOUS
  <2> QED
    BY <1>3, <2>1 DEF Call
<1>7. Role(t)'
  <2>1. Role(t)
    BY DEF IInv
  <2> QED
    BY <1>3, <2>1 DEF Role, Late
<1>8. MineKeep(t)
  BY <1>3 DEF MineKeep, Keeps
<1> QED
  BY <1>4, <1>5, <1>6, <1>7, <1>8 DEF Thread

\* A thread gets on to the next lock of its statement.
LEMMA AdvanceStep ==
    ASSUME IInv, NEW t \in Threads, pc[t] \in {"lock", "wait"},
           Advance(t), last' = last, want' = want, \A i \in 1..MaxLocks : i > pos[t] => Free(t, i)',
           ~aborts /\ t \in Handlers => type'[<<t, 1>>] = TL_WRITE_DELAYED
    PROVE  Thread(t)
<1>1. /\ pos \in [Threads -> Nat \ {0}] /\ last \in [Threads -> Nat] /\ pc \in [Threads -> PCs]
  BY DEF IInv, TypeOK
<1>2. pos[t] \in 1..Len(want[t]) /\ want[t] \in Seq(Wanted) /\ Role(t)
  BY DEF IInv, Call, TypeOK, Wants
<1>3. Len(want[t]) \in Nat
  BY <1>2
<1>4. CASE pos[t] = Len(want[t])
  <2>1. pos' = pos /\ pc' = [pc EXCEPT ![t] = "locked"]
    BY <1>4 DEF Advance, Goto
  <2>2. pc'[t] = "locked"
    BY <1>1, <2>1
  <2>3. Typed /\ Others(t)
    BY <1>1, <2>1 DEF Typed, PCs, Others
  <2>4. Call(t)' /\ Role(t)'
    BY <1>2, <2>2 DEF Call, Role, Late
  <2>5. MineKeep(t)
    BY <2>2 DEF MineKeep, Keeps
  <2> QED
    BY <2>3, <2>4, <2>5 DEF Thread
<1>5. CASE pos[t] # Len(want[t])
  <2>1. pos' = [pos EXCEPT ![t] = pos[t] + 1] /\ pc' = [pc EXCEPT ![t] = "lock"]
    BY <1>5 DEF Advance, Goto
  <2>2. pc'[t] = "lock" /\ pos'[t] = pos[t] + 1
    BY <1>1, <2>1
  <2>3. Typed
    BY <1>1, <2>1 DEF Typed, PCs
  <2>4. Others(t)
    BY <1>1, <2>1 DEF Others
  <2>5. Call(t)'
    <3>1. pos[t] + 1 \in 1..Len(want[t])
      BY <1>2, <1>3, <1>5
    <3>2. \A i \in 1..MaxLocks : i >= pos[t] + 1 => i > pos[t]
      BY <1>2, <1>3, MaxLocksNatural
    <3> QED
      BY <2>2, <3>1, <3>2 DEF Call
  <2>6. Role(t)'
    BY <1>2, <2>2 DEF Role, Late
  <2>7. MineKeep(t)
    BY <2>2 DEF MineKeep, Keeps
  <2> QED
    BY <2>3, <2>4, <2>5, <2>6, <2>7 DEF Thread
<1> QED
  BY <1>4, <1>5

\* A step that leaves the locks alone.
LEMMA StillStep ==
    ASSUME IInv, NEW t \in Threads, lock' = lock, type' = type, want' = want, aborts' = aborts,
           Thread(t), MineQueued(t)
    PROVE  IInv'
<1>1. TypeOK'
  BY TypeStep DEF IInv, Thread, TypeOK
<1>2. AllCalm'
  BY DEF IInv, AllCalm
<1>3. Located'
  BY DEF IInv, Located, LockOf
<1>4. NoLocks(t) /\ OthersKeep(t) /\ OthersQueued(t)
  BY DEF NoLocks, OthersKeep, OthersQueued
<1> QED
  BY <1>1, <1>2, <1>3, <1>4, StepInv DEF Thread

\* A thread that does not wait, and is no handler, is on no list of those that wait.
LEMMA NotQueued ==
    ASSUME IInv, NEW t \in Threads, pc[t] # "wait", lock' = lock
    PROVE  MineQueued(t)
  BY DEF IInv, Queued, MineQueued

\* A step of wait_for_lock keeps the invariant.
LEMMA WakeupStep ==
    ASSUME IInv, NEW t \in Threads, Wakeup(t), aborts' = aborts
    PROVE  IInv'
<1>1. /\ pc[t] = "wait" /\ ~Waits(Here(t)) /\ lock' = lock /\ type' = type /\ want' = want
  BY DEF Wakeup
<1>2. pos[t] \in 1..Len(want[t]) /\ want[t] \in Seq(Wanted) /\ \A i \in 1..MaxLocks : i > pos[t] => Free(t, i)
  BY <1>1 DEF IInv, Call, TypeOK, Wants
<1>3. Len(want[t]) \in Nat
  BY <1>2
<1>4. Thread(t)
  <2>1. CASE type[Here(t)] = TL_UNLOCK
    <3>1. UnlockFirst(t, pos[t] - 1)
      BY <2>1 DEF Wakeup
    <3>2. PICK n : n = pos[t] - 1
      OBVIOUS
    <3>3. n \in Nat /\ n <= Len(want[t])
      BY <1>2, <1>3, <3>2
    <3>4. \A i \in 1..MaxLocks : i > n => Free(t, i)
      <4>1. \A i \in 1..MaxLocks : i > n => i = pos[t] \/ i > pos[t]
        BY <1>2, <1>3, <3>2, MaxLocksNatural
      <4> QED
        BY <2>1, <4>1, <1>2 DEF Free, Here
    <3>5. \A i \in 1..MaxLocks : i > n => Free(t, i)'
      BY <3>4, <1>1 DEF Free
    <3>6. UnlockFirst(t, n) /\ pc[t] # "idle"
      BY <1>1, <3>1, <3>2
    <3> QED
      BY <1>1, <3>3, <3>5, <3>6, UnlockStep
  <2>2. CASE type[Here(t)] # TL_UNLOCK
    <3>1. Advance(t) /\ last' = last
      BY <2>2 DEF Wakeup
    <3>2. \A i \in 1..MaxLocks : i > pos[t] => Free(t, i)'
      BY <1>1, <1>2 DEF Free
    <3>3. ~aborts /\ t \in Handlers => type'[<<t, 1>>] = TL_WRITE_DELAYED
      BY <1>1 DEF IInv, AllKeep, Keeps
    <3>4. pc[t] \in {"lock", "wait"}
      BY <1>1
    <3> QED
      BY <1>1, <3>1, <3>2, <3>3, <3>4, AdvanceStep
  <2> QED
    BY <2>1, <2>2
<1>5. MineQueued(t)
  <2> SUFFICES ASSUME t \notin Handlers, NEW l \in Locks, NEW d \in InWait(lock[l]), d[1] = t PROVE FALSE
    BY <1>1 DEF MineQueued
  <2>1. d[2] = pos[t]
    BY DEF IInv, Queued
  <2>2. d \in Listed(lock[l])
    BY DEF InWait, Listed, Reads, Writes
  <2>3. d = <<d[1], d[2]>> /\ LockOf(d) = l
    BY <2>2, ListedFacts DEF IInv
  <2>4. d = Here(t)
    BY <2>1, <2>3 DEF Here
  <2>5. Waits(d)
    BY <2>3 DEF Waits, InWait
  <2> QED
    BY <2>4, <2>5, <1>1
<1> QED
  BY <1>1, <1>4, <1>5, StillStep

\* The end of a statement keeps the invariant.
LEMMA MultiUnlockStep ==
    ASSUME IInv, NEW t \in Threads, MultiUnlock(t), aborts' = aborts
    PROVE  IInv'
<1>1. /\ pc[t] \in {"locked", "writing"} /\ lock' = lock /\ type' = type /\ want' = want
      /\ UnlockFirst(t, Len(want[t]))
  BY DEF MultiUnlock
<1>2. PICK n : n = Len(want[t])
  OBVIOUS
<1>3. n \in Nat
  <2>1. want[t] \in Seq(Wanted)
    BY DEF IInv, TypeOK, Wants
  <2> QED
    BY <1>2, <2>1
<1>4. \A i \in 1..MaxLocks : i > n => Free(t, i)'
  <2> SUFFICES ASSUME NEW i \in 1..MaxLocks, i > n PROVE type[<<t, i>>] = TL_UNLOCK
    BY <1>1 DEF Free
  <2>1. PICK d : d = <<t, i>>
    OBVIOUS
  <2>2. d \in Data /\ d[1] = t /\ d[2] = i
    BY <2>1 DEF Data
  <2>3. ~(i <= n)
    BY <1>3, MaxLocksNatural
  <2> QED
    BY <2>1, <2>2, <2>3, <1>2 DEF IInv, Located
<1>5. UnlockFirst(t, n) /\ n <= Len(want[t]) /\ pc[t] # "idle" /\ pc[t] # "wait"
  BY <1>1, <1>2, <1>3
<1>6. Thread(t)
  BY <1>1, <1>3, <1>4, <1>5, UnlockStep
<1>7. MineQueued(t)
  BY <1>1, <1>5, NotQueued
<1> QED
  BY <1>1, <1>6, <1>7, StillStep

\* The end of the wait for an upgrade keeps the invariant.
LEMMA UpgradeWakeupStep ==
    ASSUME IInv, NEW t \in Threads, UpgradeWakeup(t), aborts' = aborts
    PROVE  IInv'
<1> DEFINE d == <<t, 1>>
<1>1. /\ pc[t] \in {"upgrade", "reupgrade"} /\ ~Waits(d) /\ lock' = lock /\ type' = type /\ want' = want
      /\ IF type[d] = TL_UNLOCK /\ pc[t] = "upgrade" THEN UnlockFirst(t, 1)
         ELSE Goto(t, "writing") /\ pos' = pos /\ last' = last
  BY DEF UpgradeWakeup
<1>2. t \in Handlers /\ Len(want[t]) = 1 /\ want[t][1].type = TL_WRITE_DELAYED /\ want[t] \in Seq(Wanted)
  BY <1>1 DEF IInv, Role, Late, TypeOK, Wants
<1>3. d \in Data
  BY MaxLocksNatural DEF Data
<1>4. MineQueued(t)
  BY <1>2 DEF MineQueued
<1>5. CASE type[d] = TL_UNLOCK /\ pc[t] = "upgrade"
  <2>1. \A i \in 1..MaxLocks : i > 1 => Free(t, i)'
    <3> SUFFICES ASSUME NEW i \in 1..MaxLocks, i > 1 PROVE type[<<t, i>>] = TL_UNLOCK
      BY <1>1 DEF Free
    <3>1. PICK e : e = <<t, i>>
      OBVIOUS
    <3>2. e \in Data /\ e[1] = t /\ e[2] = i
      BY <3>1 DEF Data
    <3>3. ~(i <= 1)
      BY MaxLocksNatural
    <3> QED
      BY <3>1, <3>2, <3>3, <1>2 DEF IInv, Located
  <2>2. UnlockFirst(t, 1) /\ 1 <= Len(want[t]) /\ pc[t] # "idle"
    BY <1>1, <1>2, <1>5
  <2>3. Thread(t)
    BY <1>1, <2>1, <2>2, UnlockStep
  <2> QED
    BY <1>1, <1>4, <2>3, StillStep
<1>6. CASE ~(type[d] = TL_UNLOCK /\ pc[t] = "upgrade")
  <2>1. pc' = [pc EXCEPT ![t] = "writing"] /\ pos' = pos /\ last' = last
    BY <1>1, <1>6 DEF Goto
  <2>2. pc'[t] = "writing"
    BY <2>1 DEF IInv, TypeOK
  <2>3. Typed /\ Others(t)
    BY <1>1, <2>1 DEF IInv, TypeOK, Typed, Others, PCs
  <2>4. Call(t)'
    BY <2>2 DEF Call
  <2>5. Role(t)'
    BY <1>1, <1>2, <2>2 DEF Role
  <2>6. MineKeep(t)
    <3> SUFFICES ASSUME ~aborts PROVE Keeps(t)'
      BY DEF MineKeep
    <3>1. type[d] = TL_WRITE
      BY <1>1, <1>2 DEF IInv, AllKeep, Keeps
    <3>2. d \in Listed(lock[LockOf(d)])
      BY <3>1, <1>3, TypeNumbers DEF IInv, Located, TypeValues
    <3>3. want[t][1] \in Wanted
      BY <1>2
    <3>4. LockOf(d) \in Locks
      BY <3>3 DEF LockOf, Wanted
    <3>5. PICK k : k = lock[LockOf(d)]
      OBVIOUS
    <3>6. Kinds(k, type, want)
      BY <3>4, <3>5 DEF IInv, AllCalm, Calm
    <3>7. d \notin Reads(k)
      BY <3>1, <3>6, TypeNumbers DEF Kinds, IsRead, TypeValues
    <3>8. d \in Range(k.write)
      BY <1>1, <3>2, <3>5, <3>7 DEF Listed, Writes, Waits
    <3>9. d \in Range(lock[LockOf(d)].write)
      BY <3>5, <3>8
    <3> QED
      BY <1>1, <2>2, <3>1, <3>9 DEF Keeps, LockOf
  <2>7. Thread(t)
    BY <2>3, <2>4, <2>5, <2>6 DEF Thread
  <2> QED
    BY <1>1, <1>4, <2>7, StillStep
<1> QED
  BY <1>5, <1>6

\* What waits is not held.
LEMMA WaitApart ==
    ASSUME NEW k, NEW l, NEW ty, NEW wn, Calm(k, l, ty, wn)
    PROVE  /\ \A d \in InWait(k) : d \notin Range(k.read) /\ d \notin Range(k.write)
           /\ \A d \in Writes(k) : d \notin Reads(k)
           /\ InWait(k) \subseteq Listed(k)
<1>1. Lists(k) /\ Kinds(k, ty, wn)
  BY DEF Calm
<1>2. ASSUME NEW d \in Writes(k) PROVE d \notin Reads(k)
  <2>1. Became(Asked(wn, d).type, ty[d])
    BY <1>1, <1>2 DEF Kinds
  <2>2. ~IsRead(ty[d])
    BY <2>1, TypeNumbers DEF Became, IsRead, TypeValues
  <2> QED
    BY <1>1, <2>2 DEF Kinds
<1> QED
  BY <1>1, <1>2 DEF Lists, InWait, Listed, Reads, Writes

\* Whether a lock is held, by the elements of its lists.
LEMMA BusyRange ==
    ASSUME NEW k, Lists(k)
    PROVE  /\ Held(k) <=> Range(k.read) # {} \/ Range(k.write) # {}
           /\ Busy(k) <=> (Held(k) \/ InWait(k) = {})
<1>1. k.read \in Seq(Data) /\ k.readWait \in Seq(Data) /\ k.write \in Seq(Data) /\ k.writeWait \in Seq(Data)
  BY LockFields
<1>2. k.read = <<>> <=> Range(k.read) = {}
  BY <1>1, RangeOf
<1>3. k.write = <<>> <=> Range(k.write) = {}
  BY <1>1, RangeOf
<1>4. k.readWait = <<>> <=> Range(k.readWait) = {}
  BY <1>1, RangeOf
<1>5. k.writeWait = <<>> <=> Range(k.writeWait) = {}
  BY <1>1, RangeOf
<1> QED
  BY <1>2, <1>3, <1>4, <1>5 DEF Held, Busy, InWait

\* A handler has one lock, and that is TL_WRITE_DELAYED.
LEMMA HandlerWrites ==
    ASSUME IInv, NEW l \in Locks, NEW e \in Listed(lock[l]), e[1] \in Handlers
    PROVE  /\ e = <<e[1], 1>> /\ e \in Writes(lock[l]) /\ Asked(want, e).type = TL_WRITE_DELAYED
           /\ type[e] \in {TL_WRITE_DELAYED, TL_WRITE, TL_WRITE_ONLY}
<1>1. /\ e \in Data /\ type[e] # TL_UNLOCK /\ e[1] \in Threads /\ e[2] \in 1..MaxLocks
      /\ e[2] \in 1..Len(want[e[1]]) /\ e = <<e[1], e[2]>>
  BY ListedFacts DEF IInv
<1>2. pc[e[1]] # "idle"
  <2>1. ~Free(e[1], e[2])
    BY <1>1 DEF Free
  <2> QED
    BY <1>1, <2>1 DEF IInv, Call
<1>3. Len(want[e[1]]) = 1 /\ want[e[1]][1].type = TL_WRITE_DELAYED
  BY <1>1, <1>2 DEF IInv, Role
<1>4. e[2] = 1
  BY <1>1, <1>3
<1>5. Asked(want, e).type = TL_WRITE_DELAYED
  BY <1>3, <1>4 DEF Asked
<1>6. Calm(lock[l], l, type, want)
  BY DEF IInv, AllCalm
<1>7. e \in Writes(lock[l])
  <2>1. e \notin Reads(lock[l])
    BY <1>5, <1>6, TypeNumbers DEF Calm, Kinds, IsRead, TypeValues
  <2> QED
    BY <2>1 DEF Listed
<1>8. Became(TL_WRITE_DELAYED, type[e])
  BY <1>5, <1>6, <1>7 DEF Calm, Kinds
<1> QED
  BY <1>1, <1>4, <1>5, <1>7, <1>8, TypeNumbers DEF Became, TypeValues

\* The lock that a thread is at is one of its own.
LEMMA HereData ==
    ASSUME IInv, NEW t \in Threads, pos[t] <= Len(want[t])
    PROVE  /\ Here(t) \in Data /\ LockOf(Here(t)) \in Locks /\ pos[t] \in 1..MaxLocks
           /\ pos[t] \in 1..Len(want[t]) /\ want[t][pos[t]] \in Wanted /\ Here(t)[1] = t /\ Here(t)[2] = pos[t]
<1>1. want[t] \in Seq(Wanted) /\ pos[t] \in Nat \ {0} /\ Len(want[t]) <= MaxLocks
  BY DEF IInv, TypeOK, Wants
<1>2. pos[t] \in 1..Len(want[t]) /\ pos[t] \in 1..MaxLocks
  BY <1>1, MaxLocksNatural
<1>3. want[t][pos[t]] \in Wanted
  BY <1>1, <1>2
<1>4. Here(t) \in Data /\ Here(t)[1] = t /\ Here(t)[2] = pos[t]
  BY <1>2 DEF Here, Data
<1>5. LockOf(Here(t)) \in Locks
  BY <1>3, <1>4 DEF LockOf, Wanted
<1> QED
  BY <1>2, <1>3, <1>4, <1>5

\* A step after which no more locks wait.
LEMMA FewerStep ==
    ASSUME IInv, NEW t \in Threads, \A m \in Locks : InWait(lock'[m]) \subseteq InWait(lock[m]),
           pc[t] # "wait" \/ (pc'[t] = pc[t] /\ pos'[t] = pos[t])
    PROVE  OthersQueued(t) /\ MineQueued(t)
<1>1. OthersQueued(t)
  BY DEF OthersQueued
<1>2. MineQueued(t)
  <2> SUFFICES ASSUME t \notin Handlers, NEW m \in Locks, NEW d \in InWait(lock'[m]), d[1] = t
               PROVE  pc'[t] = "wait" /\ d[2] = pos'[t]
    BY DEF MineQueued
  <2>1. d \in InWait(lock[m])
    OBVIOUS
  <2>2. pc[t] = "wait" /\ d[2] = pos[t]
    BY <2>1 DEF IInv, Queued
  <2> QED
    BY <2>2
<1> QED
  BY <1>1, <1>2

\* The death of a waiting thread keeps the invariant.
LEMMA KilledStep ==
    ASSUME IInv, NEW t \in Threads, Killed(t), aborts' = aborts
    PROVE  IInv'
<1>1. TypeOK /\ AllCalm /\ Located
  BY DEF IInv
<1>2. PICK d, l, k : d = Here(t) /\ l = LockOf(d) /\ k = lock[l]
  OBVIOUS
<1>3. PICK g, ty2 : g = Without(k, d) /\ ty2 = [type EXCEPT ![d] = TL_UNLOCK]
  OBVIOUS
<1>4. /\ pc[t] = "wait" /\ Waits(d) /\ UnlockFirst(t, pos[t] - 1) /\ want' = want
      /\ type' = ty2
  BY <1>2, <1>3 DEF Killed
<1>5. lock' = [lock EXCEPT ![l] = g]
  <2>1. lock' = [lock EXCEPT ![LockOf(Here(t))] = Without(lock[LockOf(Here(t))], Here(t))]
    BY DEF Killed
  <2> QED
    BY <1>2, <1>3, <2>1
<1>6. pos[t] \in 1..Len(want[t]) /\ (\A i \in 1..MaxLocks : i > pos[t] => Free(t, i))
      /\ want[t] \in Seq(Wanted) /\ Len(want[t]) \in Nat
  BY <1>4 DEF IInv, Call, TypeOK, Wants
<1>7. d \in Data /\ l \in Locks /\ d[1] = t /\ d[2] = pos[t]
  <2>1. pos[t] <= Len(want[t])
    BY <1>6
  <2> QED
    BY <1>2, <2>1, HereData
<1>8. Calm(k, l, type, want) /\ Busy(k)
  BY <1>1, <1>2, <1>7 DEF AllCalm
<1>9. d \in InWait(k)
  BY <1>2, <1>4 DEF Waits, InWait
<1>10. d \in Listed(k) /\ d \notin Range(k.read) /\ d \notin Range(k.write)
  BY <1>8, <1>9, WaitApart
<1>11. /\ Calm(g, l, type, want) /\ Listed(g) = Listed(k) \ {d}
       /\ Range(g.read) = Range(k.read) \ {d} /\ Range(g.write) = Range(k.write) \ {d}
       /\ Range(g.readWait) = Range(k.readWait) \ {d} /\ Range(g.writeWait) = Range(k.writeWait) \ {d}
  BY <1>3, <1>8, WithoutCalm
<1>12. InWait(g) = InWait(k) \ {d}
  BY <1>11 DEF InWait
<1>13. ty2 \in [Data -> Types] /\ ty2[d] = TL_UNLOCK /\ \A e \in Data : e # d => ty2[e] = type[e]
  BY <1>1, <1>3, <1>7, TypeNumbers DEF TypeOK, Types, TypeValues
<1>14. \A e \in Listed(k) : e \in Data
  BY <1>1, <1>2, <1>7, ListedFacts
<1>15. Calm(g, l, ty2, want)
  <2>1. \A e \in Listed(g) : ty2[e] = type[e] /\ want[e[1]] = want[e[1]]
    BY <1>11, <1>13, <1>14
  <2> QED
    BY <1>11, <2>1, CalmFrame
<1>16. Busy(g)
  <2>1. Lists(k) /\ Lists(g)
    BY <1>8, <1>11 DEF Calm
  <2>2. Held(k)
    BY <1>8, <1>9, <2>1, BusyRange
  <2>3. Held(g)
    BY <1>10, <1>11, <2>1, <2>2, BusyRange
  <2> QED
    BY <2>3 DEF Busy
<1>17. /\ AllCalm' /\ Located' /\ lock' \in [Locks -> LockType] /\ type' \in [Data -> Types]
       /\ lock'[l] = g /\ \A m \in Locks : m # l => lock'[m] = lock[m]
  <2>1. \A e \in Data : ty2[e] # type[e] => e \in Listed(lock[l]) \/ e \in Listed(g)
    BY <1>2, <1>10, <1>13
  <2>2. \A e \in Listed(lock[l]) : e \in Listed(g) \/ ty2[e] = TL_UNLOCK
    BY <1>2, <1>11, <1>13
  <2> QED
    BY <1>1, <1>4, <1>5, <1>7, <1>13, <1>15, <1>16, <2>1, <2>2, OneLock
<1>18. Thread(t)
  <2>1. PICK n : n = pos[t] - 1
    OBVIOUS
  <2>2. n \in Nat /\ n <= Len(want[t])
    BY <1>6, <2>1
  <2>3. \A i \in 1..MaxLocks : i > n => Free(t, i)'
    <3> SUFFICES ASSUME NEW i \in 1..MaxLocks, i > n PROVE ty2[<<t, i>>] = TL_UNLOCK
      BY <1>4 DEF Free
    <3>1. i = pos[t] \/ i > pos[t]
      BY <1>6, <2>1, MaxLocksNatural
    <3>2. CASE i = pos[t]
      BY <3>2, <1>2, <1>13 DEF Here
    <3>3. CASE i > pos[t]
      <4>1. type[<<t, i>>] = TL_UNLOCK /\ <<t, i>> \in Data
        BY <3>3, <1>6 DEF Free, Data
      <4> QED
        BY <4>1, <1>13
    <3> QED
      BY <3>1, <3>2, <3>3
  <2>4. UnlockFirst(t, n) /\ pc[t] # "idle"
    BY <1>4, <2>1
  <2> QED
    BY <1>4, <2>2, <2>3, <2>4, UnlockStep
<1>19. TypeOK'
  BY <1>1, <1>4, <1>17, <1>18, TypeStep DEF Thread
<1>20. NoLocks(t)
  BY <1>4, <1>7, <1>13 DEF NoLocks
<1>21. OthersKeep(t)
  <2>1. \A m \in Locks : \A e \in Range(lock[m].write) : e[1] # t => e \in Range(lock'[m].write)
    BY <1>2, <1>7, <1>11, <1>17
  <2> QED
    BY <2>1, <1>4, <1>7, <1>13 DEF OthersKeep
<1>22. \A m \in Locks : InWait(lock'[m]) \subseteq InWait(lock[m])
  BY <1>2, <1>12, <1>17
<1>23. OthersQueued(t)
  BY <1>22 DEF OthersQueued
<1>24. MineQueued(t)
  <2> SUFFICES ASSUME t \notin Handlers, NEW m \in Locks, NEW e \in InWait(lock'[m]), e[1] = t PROVE FALSE
    BY DEF MineQueued
  <2>1. e \in InWait(lock[m])
    BY <1>22
  <2>2. e[2] = pos[t]
    BY <2>1 DEF IInv, Queued
  <2>3. e \in Listed(lock[m])
    BY <2>1 DEF InWait, Listed, Reads, Writes
  <2>4. e = <<e[1], e[2]>> /\ LockOf(e) = m
    BY <1>1, <2>3, ListedFacts
  <2>5. e = d /\ m = l
    BY <1>2, <2>2, <2>4 DEF Here
  <2> QED
    BY <1>12, <1>17, <2>5
<1> QED
  BY <1>17, <1>18, <1>19, <1>20, <1>21, <1>23, <1>24, StepInv DEF Thread

\* thr_unlock keeps the invariant.
LEMMA ThrUnlockStep ==
    ASSUME IInv, NEW t \in Threads, ThrUnlock(t), aborts' = aborts
    PROVE  IInv'
<1>1. TypeOK /\ AllCalm /\ Located
  BY DEF IInv
<1>2. PICK d, l : d = Here(t) /\ l = LockOf(d)
  OBVIOUS
<1>3. /\ pc[t] = "unlock" /\ pos[t] <= last[t] /\ pos' = [pos EXCEPT ![t] = pos[t] + 1]
      /\ want' = want /\ last' = last /\ pc' = pc
  BY DEF ThrUnlock
<1>4. /\ pos[t] <= last[t] + 1 /\ last[t] <= Len(want[t])
      /\ (\A i \in 1..MaxLocks : i < pos[t] \/ i > last[t] => Free(t, i))
      /\ want[t] \in Seq(Wanted) /\ Len(want[t]) \in Nat /\ pos[t] \in Nat \ {0} /\ last[t] \in Nat
  BY <1>3 DEF IInv, Call, TypeOK, Wants
<1>5. d \in Data /\ l \in Locks /\ d[1] = t /\ d[2] = pos[t]
  <2>1. pos[t] <= Len(want[t])
    BY <1>3, <1>4
  <2> QED
    BY <1>2, <2>1, HereData
<1>6. pos'[t] = pos[t] + 1 /\ pc'[t] = "unlock" /\ last'[t] = last[t] /\ want'[t] = want[t]
  BY <1>1, <1>3 DEF TypeOK
<1>7. Typed /\ Others(t)
  BY <1>1, <1>3, <1>4 DEF Typed, Others, TypeOK
<1>8. ASSUME \A e \in Data : type[e] = TL_UNLOCK => type'[e] = TL_UNLOCK, type'[d] = TL_UNLOCK
      PROVE  Thread(t)
  <2>1. Call(t)'
    <3>1. ASSUME NEW i \in 1..MaxLocks, i < pos[t] + 1 \/ i > last[t] PROVE type'[<<t, i>>] = TL_UNLOCK
      <4>1. <<t, i>> \in Data
        BY DEF Data
      <4>2. CASE i = pos[t]
        BY <4>2, <1>2, <1>8 DEF Here
      <4>3. CASE i # pos[t]
        <5>1. i < pos[t] \/ i > last[t]
          BY <3>1, <4>3, <1>4, MaxLocksNatural
        <5> QED
          BY <4>1, <5>1, <1>4, <1>8 DEF Free
      <4> QED
        BY <4>2, <4>3
    <3>2. pos[t] + 1 <= last[t] + 1
      BY <1>3, <1>4
    <3> QED
      BY <3>1, <3>2, <1>4, <1>6 DEF Call, Free
  <2>2. Role(t)'
    <3>1. Role(t)
      BY DEF IInv
    <3> QED
      BY <3>1, <1>3, <1>6 DEF Role, Late
  <2>3. MineKeep(t)
    BY <1>6 DEF MineKeep, Keeps
  <2> QED
    BY <2>1, <2>2, <2>3, <1>7 DEF Thread
<1>9. CASE type[d] = TL_UNLOCK
  <2>1. lock' = lock /\ type' = type
    BY <1>2, <1>9 DEF ThrUnlock
  <2>2. Thread(t)
    BY <1>8, <1>9, <2>1
  <2>3. MineQueued(t)
    BY <1>3, <2>1, NotQueued
  <2> QED
    BY <1>3, <2>1, <2>2, <2>3, StillStep
<1>10. CASE type[d] # TL_UNLOCK
  <2>1. PICK full \in BOOLEAN :
          LET k == Without(lock[l], d)  f == Freed(k, full) IN
          /\ lock' = [lock EXCEPT ![l] = f.lock]
          /\ type' = [e \in Data |-> IF e = d THEN TL_UNLOCK
                                     ELSE IF f.up /\ e = Head(k.writeWait) THEN TL_WRITE ELSE type[e]]
    BY <1>2, <1>10 DEF ThrUnlock
  <2>2. PICK k : k = Without(lock[l], d)
    OBVIOUS
  <2>3. PICK f : f = Freed(k, full)
    OBVIOUS
  <2>4. PICK g, h : g = f.lock /\ h = Head(k.writeWait)
    OBVIOUS
  <2>5. /\ lock' = [lock EXCEPT ![l] = g]
        /\ type' = [e \in Data |-> IF e = d THEN TL_UNLOCK ELSE IF f.up /\ e = h THEN TL_WRITE ELSE type[e]]
    BY <2>1, <2>2, <2>3, <2>4
  <2>6. PICK ty2 : ty2 = [e \in Data |-> IF e = d THEN TL_UNLOCK ELSE IF f.up /\ e = h THEN TL_WRITE ELSE type[e]]
    OBVIOUS
  <2>7. Calm(lock[l], l, type, want) /\ d \in Listed(lock[l])
    BY <1>1, <1>2, <1>5, <1>10 DEF AllCalm, Located
  <2>8. /\ Calm(k, l, type, want) /\ Listed(k) = Listed(lock[l]) \ {d}
        /\ Range(k.write) = Range(lock[l].write) \ {d}
        /\ Range(k.readWait) = Range(lock[l].readWait) \ {d} /\ Range(k.writeWait) = Range(lock[l].writeWait) \ {d}
    BY <2>2, <2>7, WithoutCalm
  <2>9. /\ Calm(g, l, type, want) /\ Busy(g) /\ Listed(g) = Listed(k)
        /\ Range(k.write) \subseteq Range(g.write)
        /\ f.up \in BOOLEAN /\ Fewer(g, k)
        /\ f.up => k.writeWait # <<>> /\ type[h] = TL_WRITE_CONCURRENT_INSERT /\ Upward(g, h)
    <3>1. Calm(k, l, type, want)
      BY <2>8
    <3>2. /\ Calm(g, l, type, want) /\ Busy(g) /\ Listed(g) = Listed(k)
          /\ f.up \in BOOLEAN /\ Fewer(g, k) /\ Turned(f, k, g, h)
      BY <2>3, <2>4, <3>1, FreedCalm
    <3>3. Range(k.write) \subseteq Range(g.write)
      BY <2>3, <2>4, <3>1, FreedCalm
    <3> QED
      BY <3>2, <3>3 DEF Turned
  <2>10. \A e \in Listed(lock[l]) : e \in Data
    BY <1>1, <1>5, ListedFacts
  <2>11. f.up => h \in Writes(k) /\ h \in Listed(k) /\ h # d /\ h \in Data
    <3> SUFFICES ASSUME f.up PROVE h \in Writes(k) /\ h \in Listed(k) /\ h # d /\ h \in Data
      OBVIOUS
    <3>1. k.writeWait # <<>> /\ k.writeWait \in Seq(Data)
      BY <2>8, <2>9, LockFields DEF Calm
    <3>2. h \in Range(k.writeWait)
      BY <2>4, <3>1, RangeOf
    <3>3. h \in Writes(k) /\ h \in Listed(k)
      BY <3>2 DEF Writes, Listed
    <3> QED
      BY <3>3, <2>8, <2>10
  <2>12. /\ ty2 \in [Data -> Types] /\ ty2[d] = TL_UNLOCK
         /\ f.up => ty2[h] = TL_WRITE
         /\ \A e \in Data : e # d /\ (e # h \/ ~f.up) => ty2[e] = type[e]
    <3>1. TL_UNLOCK \in Types /\ TL_WRITE \in Types
      BY TypeNumbers DEF Types, TypeValues
    <3>2. \A e \in Data : type[e] \in Types
      BY <1>1 DEF TypeOK
    <3>3. ty2 \in [Data -> Types]
      BY <2>6, <3>1, <3>2
    <3> QED
      BY <2>6, <2>11, <3>3, <1>5
  <2>13. Calm(g, l, ty2, want)
    <3>1. CASE ~f.up
      <4>1. \A e \in Listed(g) : ty2[e] = type[e] /\ want[e[1]] = want[e[1]]
        BY <2>8, <2>9, <2>10, <2>12, <3>1
      <4> QED
        BY <2>9, <4>1, CalmFrame
    <3>2. CASE f.up
      <4>1. Lists(g) /\ Kinds(g, type, want)
        BY <2>9 DEF Calm
      <4>2. h \in Writes(g)
        BY <2>9, <3>2 DEF Upward, Writes
      <4>3. Became(Asked(want, h).type, ty2[h])
        <5>1. Became(Asked(want, h).type, TL_WRITE_CONCURRENT_INSERT)
          BY <4>1, <4>2, <2>9, <3>2 DEF Kinds
        <5> QED
          BY <5>1, <2>12, <3>2, TypeNumbers DEF Became, TypeValues
      <4>4. \A e \in Listed(g) : e # h => ty2[e] = type[e]
        BY <2>8, <2>9, <2>10, <2>12
      <4>5. h \in Range(g.write) => h = Head(g.write) /\ \A r \in Range(g.read) : Goes(h, r, ty2)
        <5> SUFFICES ASSUME h \in Range(g.write)
                     PROVE  h = Head(g.write) /\ \A r \in Range(g.read) : Goes(h, r, ty2)
          OBVIOUS
        <5>1. h \notin Range(g.writeWait)
          BY <4>1 DEF Lists
        <5>2. g.read = <<>> /\ Range(g.write) = {h}
          BY <5>1, <2>9, <3>2 DEF Upward
        <5>3. g.write \in Seq(Data) /\ g.read \in Seq(Data)
          BY <4>1, LockFields
        <5>4. g.write # <<>> /\ Range(g.read) = {}
          BY <5>2, <5>3, RangeOf
        <5>5. Head(g.write) \in Range(g.write)
          BY <5>3, <5>4, RangeOf
        <5> QED
          BY <5>2, <5>4, <5>5
      <4> QED
        BY <2>9, <4>2, <4>3, <4>4, <4>5, RetypeCalm
    <3> QED
      BY <3>1, <3>2
  <2>14. type' = ty2
    BY <2>5, <2>6
  <2>15. /\ AllCalm' /\ Located' /\ lock' \in [Locks -> LockType] /\ type' \in [Data -> Types]
         /\ lock'[l] = g /\ \A m \in Locks : m # l => lock'[m] = lock[m]
    <3>1. \A e \in Data : ty2[e] # type[e] => e \in Listed(lock[l]) \/ e \in Listed(g)
      BY <2>7, <2>9, <2>11, <2>12
    <3>2. \A e \in Listed(lock[l]) : e \in Listed(g) \/ ty2[e] = TL_UNLOCK
      BY <2>8, <2>9, <2>12
    <3> QED
      BY <1>1, <1>3, <1>5, <2>5, <2>9, <2>12, <2>13, <2>14, <3>1, <3>2, OneLock
  <2>16. \A e \in Data : type[e] = TL_UNLOCK => type'[e] = TL_UNLOCK
    <3>1. f.up => type[h] # TL_UNLOCK
      BY <2>9, TypeNumbers DEF TypeValues
    <3> QED
      BY <2>12, <2>14, <3>1
  <2>17. Thread(t)
    BY <1>8, <2>12, <2>14, <2>16
  <2>18. TypeOK'
    BY <1>1, <1>3, <2>15, <2>17, TypeStep DEF Thread
  <2>19. NoLocks(t)
    BY <2>16 DEF NoLocks
  <2>20. OthersKeep(t)
    <3>1. ASSUME NEW e \in Data, e[1] \in Handlers, e[1] # t PROVE ty2[e] = type[e]
      <4>1. e # d
        BY <1>5, <3>1
      <4>2. f.up => e # h
        <5> SUFFICES ASSUME f.up, e = h PROVE FALSE
          OBVIOUS
        <5>1. e \in Listed(lock[l])
          BY <2>8, <2>11
        <5>2. type[e] \in {TL_WRITE_DELAYED, TL_WRITE, TL_WRITE_ONLY}
          BY <1>5, <3>1, <5>1, HandlerWrites
        <5> QED
          BY <5>2, <2>9, TypeNumbers DEF TypeValues
      <4> QED
        BY <4>1, <4>2, <2>12
    <3>2. \A m \in Locks : \A e \in Range(lock[m].write) : e[1] # t => e \in Range(lock'[m].write)
      BY <1>5, <2>8, <2>9, <2>15
    <3> QED
      BY <2>14, <3>1, <3>2 DEF OthersKeep
  <2>21. OthersQueued(t) /\ MineQueued(t)
    <3>1. InWait(g) \subseteq InWait(lock[l])
      BY <2>8, <2>9 DEF Fewer, InWait
    <3>2. \A m \in Locks : InWait(lock'[m]) \subseteq InWait(lock[m])
      BY <2>15, <3>1
    <3>3. pc[t] # "wait"
      BY <1>3
    <3> QED
      BY <3>2, <3>3, FewerStep
  <2> QED
    BY <2>15, <2>17, <2>18, <2>19, <2>20, <2>21, StepInv DEF Thread
<1> QED
  BY <1>9, <1>10

\* Nothing of a thread changes but that it may lose locks.
LEMMA LoseStep ==
    ASSUME IInv, NEW t \in Threads, want' = want, pos' = pos, last' = last, pc' = pc, aborts,
           \A e \in Data : type[e] = TL_UNLOCK => type'[e] = TL_UNLOCK
    PROVE  Thread(t)
<1>1. Typed /\ Others(t)
  BY DEF IInv, TypeOK, Typed, Others
<1>2. \A i \in 1..MaxLocks : Free(t, i) => Free(t, i)'
  <2>1. \A i \in 1..MaxLocks : <<t, i>> \in Data
    BY DEF Data
  <2> QED
    BY <2>1 DEF Free
<1>3. Call(t)'
  <2>1. Call(t)
    BY DEF IInv
  <2> QED
    BY <1>2, <2>1 DEF Call
<1>4. Role(t)'
  <2>1. Role(t)
    BY DEF IInv
  <2> QED
    BY <2>1 DEF Role
<1>5. MineKeep(t)
  BY DEF MineKeep
<1> QED
  BY <1>1, <1>3, <1>4, <1>5 DEF Thread

\* Locks of others are aborted: they leave the lists of those that wait.
LEMMA AbortedCalm ==
    ASSUME NEW k, NEW l, NEW ty, NEW wn, Calm(k, l, ty, wn), NEW W, W \subseteq InWait(k),
           NEW g, g = Aborted(k, W)
    PROVE  /\ Calm(g, l, ty, wn) /\ Listed(g) = Listed(k) \ W /\ InWait(g) = InWait(k) \ W
           /\ g.read = k.read /\ g.write = k.write
<1>1. Lists(k) /\ Order(k, ty, wn) /\ Count(k, ty)
  BY DEF Calm
<1>2. k \in LockType /\ k.readWait \in Seq(Data) /\ k.writeWait \in Seq(Data)
  BY <1>1, LockFields DEF Lists
<1>3. PICK q, p : q = Rest(k.readWait, W) /\ p = Rest(k.writeWait, W)
  OBVIOUS
<1>4. q \in Seq(Data) /\ Range(q) = Range(k.readWait) \ W
  BY <1>2, <1>3, RestRange
<1>5. p \in Seq(Data) /\ Range(p) = Range(k.writeWait) \ W
  BY <1>2, <1>3, RestRange
<1>6. Once(q)
  <2>1. Once(k.readWait)
    BY <1>1 DEF Lists
  <2> QED
    BY <2>1, <1>2, <1>3, RestLists
<1>7. OneEach(p)
  <2>1. OneEach(k.writeWait)
    BY <1>1 DEF Order
  <2> QED
    BY <2>1, <1>2, <1>3, RestLists
<1>8. g = [k EXCEPT !.readWait = q, !.writeWait = p]
  BY <1>3, Zenon DEF Aborted
<1>9. /\ g \in LockType /\ g.readWait = q /\ g.writeWait = p /\ g.read = k.read /\ g.write = k.write
      /\ g.noInsert = k.noInsert
  BY <1>2, <1>4, <1>5, <1>8 DEF LockType
<1>10. Sub(g, k)
  BY <1>4, <1>5, <1>9 DEF Sub
<1>11. Once(g.read) /\ Once(g.readWait) /\ Once(g.write) /\ Order(g, ty, wn) /\ Count(g, ty)
  BY <1>1, <1>6, <1>7, <1>9 DEF Lists, Order, Count
<1>12. Calm(g, l, ty, wn)
  BY <1>10, <1>11, SubCalm
<1>13. InWait(g) = InWait(k) \ W
  BY <1>4, <1>5, <1>9 DEF InWait
<1>14. \A d \in InWait(k) : d \notin Range(k.read) /\ d \notin Range(k.write)
  BY WaitApart
<1>15. Listed(g) = Listed(k) \ W
  BY <1>4, <1>5, <1>9, <1>14 DEF Listed, Reads, Writes
<1> QED
  BY <1>9, <1>12, <1>13, <1>15

\* thr_abort_locks_for_thread keeps the invariant.
LEMMA AbortForThreadStep ==
    ASSUME IInv, NEW t \in Threads, NEW l \in Locks, ThrAbortLocksForThread(t, l), aborts' = aborts
    PROVE  IInv'
<1>1. TypeOK /\ AllCalm /\ Located
  BY DEF IInv
<1>2. PICK k, W : k = lock[l] /\ W = {d \in InWait(k) : d[1] = t}
  OBVIOUS
<1>3. PICK g, ty2 : g = Aborted(k, W) /\ ty2 = [d \in Data |-> IF d \in W THEN TL_UNLOCK ELSE type[d]]
  OBVIOUS
<1>4. aborts /\ W # {} /\ want' = want /\ pos' = pos /\ last' = last /\ pc' = pc /\ type' = ty2
      /\ lock' = [lock EXCEPT ![l] = g]
  <2>1. PICK U : U = {d \in Range(k.readWait) \cup Range(k.writeWait) : d[1] = t}
    OBVIOUS
  <2>2. /\ aborts /\ U # {} /\ want' = want /\ pos' = pos /\ last' = last /\ pc' = pc
        /\ type' = [d \in Data |-> IF d \in U THEN TL_UNLOCK ELSE type[d]]
        /\ lock' = [lock EXCEPT ![l] = Aborted(lock[l], U)]
    BY <1>2, <2>1 DEF ThrAbortLocksForThread
  <2>3. U = W
    BY <1>2, <2>1 DEF InWait
  <2> QED
    BY <1>2, <1>3, <2>2, <2>3
<1>5. Calm(k, l, type, want) /\ Busy(k) /\ Lists(k) /\ Order(k, type, want)
  BY <1>1, <1>2 DEF AllCalm, Calm
<1>6. W \subseteq InWait(k)
  BY <1>2
<1>7. /\ Calm(g, l, type, want) /\ Listed(g) = Listed(k) \ W /\ InWait(g) = InWait(k) \ W
      /\ g.read = k.read /\ g.write = k.write
  BY <1>3, <1>5, <1>6, AbortedCalm
<1>8. \A e \in Listed(k) : e \in Data
  BY <1>1, <1>2, ListedFacts
<1>9. InWait(k) \subseteq Listed(k)
  BY <1>5, WaitApart
<1>10. /\ ty2 \in [Data -> Types]
       /\ \A e \in Data : e \in W => ty2[e] = TL_UNLOCK
       /\ \A e \in Data : e \notin W => ty2[e] = type[e]
  <2>1. TL_UNLOCK \in Types /\ \A e \in Data : type[e] \in Types
    BY <1>1, TypeNumbers DEF Types, TypeValues, TypeOK
  <2> QED
    BY <1>3, <2>1
<1>11. Calm(g, l, ty2, want)
  <2>1. \A e \in Listed(g) : ty2[e] = type[e] /\ want[e[1]] = want[e[1]]
    BY <1>7, <1>8, <1>10
  <2> QED
    BY <1>7, <2>1, CalmFrame
<1>12. Busy(g)
  <2>1. Held(k)
    BY <1>4, <1>5, <1>6, BusyRange
  <2> QED
    BY <2>1, <1>7 DEF Busy, Held
<1>13. /\ AllCalm' /\ Located' /\ lock' \in [Locks -> LockType] /\ type' \in [Data -> Types]
       /\ lock'[l] = g /\ \A m \in Locks : m # l => lock'[m] = lock[m]
  <2>1. \A e \in Data : ty2[e] # type[e] => e \in Listed(lock[l]) \/ e \in Listed(g)
    BY <1>2, <1>6, <1>9, <1>10
  <2>2. \A e \in Listed(lock[l]) : e \in Listed(g) \/ ty2[e] = TL_UNLOCK
    BY <1>2, <1>7, <1>8, <1>10
  <2> QED
    BY <1>1, <1>4, <1>10, <1>11, <1>12, <2>1, <2>2, OneLock
<1>14. \A e \in Data : type[e] = TL_UNLOCK => type'[e] = TL_UNLOCK
  BY <1>4, <1>10
<1>15. Thread(t)
  BY <1>4, <1>14, LoseStep
<1>16. TypeOK'
  BY <1>1, <1>4, <1>13, <1>15, TypeStep DEF Thread
<1>17. NoLocks(t)
  BY <1>14 DEF NoLocks
<1>18. OthersKeep(t)
  <2>1. \A m \in Locks : \A e \in Range(lock[m].write) : e[1] # t => e \in Range(lock'[m].write)
    BY <1>2, <1>7, <1>13
  <2> QED
    BY <2>1, <1>4 DEF OthersKeep
<1>19. OthersQueued(t) /\ MineQueued(t)
  <2>1. \A m \in Locks : InWait(lock'[m]) \subseteq InWait(lock[m])
    BY <1>2, <1>7, <1>13
  <2>2. pc'[t] = pc[t] /\ pos'[t] = pos[t]
    BY <1>4
  <2> QED
    BY <2>1, <2>2, FewerStep
<1> QED
  BY <1>13, <1>15, <1>16, <1>17, <1>18, <1>19, StepInv DEF Thread

\* thr_abort_locks keeps the invariant.
LEMMA AbortStep ==
    ASSUME IInv, NEW t \in Threads, NEW l \in Locks, ThrAbortLocks(t, l), aborts' = aborts
    PROVE  IInv'
<1>1. TypeOK /\ AllCalm /\ Located
  BY DEF IInv
<1>2. PICK k, W : k = lock[l] /\ W = InWait(k)
  OBVIOUS
<1>3. PICK g, ty2 : /\ g = Aborted(k, W)
                    /\ ty2 = [d \in Data |-> IF d \in W THEN TL_UNLOCK
                                             ELSE IF k.write # <<>> /\ d = Head(k.write) THEN TL_WRITE_ONLY ELSE type[d]]
  OBVIOUS
<1>4. aborts /\ want' = want /\ pos' = pos /\ last' = last /\ pc' = pc /\ type' = ty2
      /\ lock' = [lock EXCEPT ![l] = g]
  BY <1>2, <1>3 DEF ThrAbortLocks, InWait
<1>5. Calm(k, l, type, want) /\ Busy(k) /\ Lists(k) /\ Order(k, type, want) /\ Kinds(k, type, want)
  BY <1>1, <1>2 DEF AllCalm, Calm
<1>7. /\ Calm(g, l, type, want) /\ Listed(g) = Listed(k) \ W /\ InWait(g) = {}
      /\ g.read = k.read /\ g.write = k.write
  <2>1. W \subseteq InWait(k)
    BY <1>2
  <2>2. /\ Calm(g, l, type, want) /\ Listed(g) = Listed(k) \ W /\ InWait(g) = InWait(k) \ W
        /\ g.read = k.read /\ g.write = k.write
    BY <1>3, <1>5, <2>1, AbortedCalm
  <2> QED
    BY <2>2, <1>2
<1>8. \A e \in Listed(k) : e \in Data /\ type[e] # TL_UNLOCK
  BY <1>1, <1>2, ListedFacts
<1>9. /\ InWait(k) \subseteq Listed(k)
      /\ \A d \in InWait(k) : d \notin Range(k.read) /\ d \notin Range(k.write)
  BY <1>5, WaitApart
<1>10. PICK h : h = Head(k.write)
  OBVIOUS
<1>11. k.write # <<>> => h \in Range(k.write) /\ h \in Data /\ h \in Listed(k) /\ h \notin W
  <2> SUFFICES ASSUME k.write # <<>> PROVE h \in Range(k.write) /\ h \in Data /\ h \in Listed(k) /\ h \notin W
    OBVIOUS
  <2>1. k.write \in Seq(Data)
    BY <1>5, LockFields
  <2>2. h \in Range(k.write)
    BY <1>10, <2>1, RangeOf
  <2>3. h \in Listed(k)
    BY <2>2 DEF Listed, Writes
  <2> QED
    BY <1>2, <1>8, <1>9, <2>2, <2>3
<1>12. /\ ty2 \in [Data -> Types]
       /\ \A e \in Data : e \in W => ty2[e] = TL_UNLOCK
       /\ \A e \in Data : e \notin W /\ ~(k.write # <<>> /\ e = h) => ty2[e] = type[e]
       /\ k.write # <<>> => ty2[h] = TL_WRITE_ONLY
  <2>1. TL_UNLOCK \in Types /\ TL_WRITE_ONLY \in Types /\ \A e \in Data : type[e] \in Types
    BY <1>1, TypeNumbers DEF Types, TypeValues, TypeOK
  <2>2. ty2 = [d \in Data |-> IF d \in W THEN TL_UNLOCK
                              ELSE IF k.write # <<>> /\ d = h THEN TL_WRITE_ONLY ELSE type[d]]
    BY <1>3, <1>10
  <2>3. PICK b \in BOOLEAN : b <=> k.write # <<>>
    OBVIOUS
  <2>4. ty2 = [d \in Data |-> IF d \in W THEN TL_UNLOCK ELSE IF b /\ d = h THEN TL_WRITE_ONLY ELSE type[d]]
    BY <2>2, <2>3
  <2>5. /\ ty2 \in [Data -> Types]
        /\ \A e \in Data : e \in W => ty2[e] = TL_UNLOCK
        /\ \A e \in Data : e \notin W /\ ~(b /\ e = h) => ty2[e] = type[e]
    BY <2>1, <2>4
  <2>6. b => ty2[h] = TL_WRITE_ONLY
    BY <2>3, <2>4, <1>11
  <2> QED
    BY <2>3, <2>5, <2>6
<1>13. Calm(g, l, ty2, want)
  <2>1. CASE k.write = <<>>
    <3>1. \A e \in Listed(g) : ty2[e] = type[e] /\ want[e[1]] = want[e[1]]
      BY <1>7, <1>8, <1>12, <2>1
    <3> QED
      BY <1>7, <3>1, CalmFrame
  <2>2. CASE k.write # <<>>
    <3>1. h \in Writes(g)
      BY <1>7, <1>11, <2>2 DEF Writes
    <3>2. Became(Asked(want, h).type, ty2[h])
      <4>1. Became(Asked(want, h).type, type[h])
        BY <1>5, <1>11, <2>2 DEF Kinds, Writes
      <4> QED
        BY <4>1, <1>12, <2>2 DEF Became
    <3>3. \A e \in Listed(g) : e # h => ty2[e] = type[e]
      BY <1>7, <1>8, <1>12
    <3>4. h = Head(g.write) /\ \A r \in Range(g.read) : Goes(h, r, ty2)
      BY <1>7, <1>10, <1>12, <2>2, TypeNumbers DEF Goes, TypeValues
    <3> QED
      BY <1>7, <3>1, <3>2, <3>3, <3>4, RetypeCalm
  <2> QED
    BY <2>1, <2>2
<1>14. Busy(g)
  <2>1. Lists(g)
    BY <1>7 DEF Calm
  <2> QED
    BY <2>1, <1>7, BusyRange
<1>15. /\ AllCalm' /\ Located' /\ lock' \in [Locks -> LockType] /\ type' \in [Data -> Types]
       /\ lock'[l] = g /\ \A m \in Locks : m # l => lock'[m] = lock[m]
  <2>1. \A e \in Data : ty2[e] # type[e] => e \in Listed(lock[l]) \/ e \in Listed(g)
    BY <1>2, <1>9, <1>11, <1>12
  <2>2. \A e \in Listed(lock[l]) : e \in Listed(g) \/ ty2[e] = TL_UNLOCK
    BY <1>2, <1>7, <1>8, <1>12
  <2> QED
    BY <1>1, <1>4, <1>12, <1>13, <1>14, <2>1, <2>2, OneLock
<1>16. \A e \in Data : type[e] = TL_UNLOCK => type'[e] = TL_UNLOCK
  BY <1>4, <1>8, <1>11, <1>12
<1>17. Thread(t)
  BY <1>4, <1>16, LoseStep
<1>18. TypeOK'
  BY <1>1, <1>4, <1>15, <1>17, TypeStep DEF Thread
<1>19. NoLocks(t)
  BY <1>16 DEF NoLocks
<1>20. OthersKeep(t)
  <2>1. \A m \in Locks : \A e \in Range(lock[m].write) : e[1] # t => e \in Range(lock'[m].write)
    BY <1>2, <1>7, <1>15
  <2> QED
    BY <2>1, <1>4 DEF OthersKeep
<1>21. OthersQueued(t) /\ MineQueued(t)
  <2>1. \A m \in Locks : InWait(lock'[m]) \subseteq InWait(lock[m])
    BY <1>2, <1>7, <1>15
  <2>2. pc'[t] = pc[t] /\ pos'[t] = pos[t]
    BY <1>4
  <2> QED
    BY <2>1, <2>2, FewerStep
<1> QED
  BY <1>15, <1>17, <1>18, <1>19, <1>20, <1>21, StepInv DEF Thread

\* A thread without locks gets another statement.
LEMMA WantStep ==
    ASSUME IInv, NEW t \in Threads, NEW s \in Seq(Wanted), Len(s) <= MaxLocks,
           lock' = lock, type' = type, want' = [want EXCEPT ![t] = s], aborts' = aborts,
           \A i \in 1..MaxLocks : Free(t, i),
           \A i, j \in 1..Len(s) : i < j /\ s[i].lock = s[j].lock =>
              s[j].type <= s[i].type /\ s[i].type # TL_WRITE_DELAYED,
           Thread(t)
    PROVE  IInv'
<1>1. TypeOK /\ AllCalm /\ Located
  BY DEF IInv
<1>2. want'[t] = s /\ \A u \in Threads : u # t => want'[u] = want[u]
  BY <1>1 DEF TypeOK, Wants
<1>3. Wants(want')
  <2>1. want' \in [Threads -> Seq(Wanted)]
    BY <1>1 DEF TypeOK, Wants
  <2>2. ASSUME NEW u \in Threads
        PROVE  \A i, j \in 1..Len(want'[u]) : i < j /\ want'[u][i].lock = want'[u][j].lock =>
                  want'[u][j].type <= want'[u][i].type /\ want'[u][i].type # TL_WRITE_DELAYED
    <3>1. CASE u = t
      BY <3>1, <1>2
    <3>2. CASE u # t
      BY <3>2, <1>1, <1>2 DEF TypeOK, Wants
    <3> QED
      BY <3>1, <3>2
  <2> QED
    BY <2>1, <2>2 DEF Wants
<1>4. TypeOK'
  <2>1. \A u \in Threads : Len(want'[u]) <= MaxLocks
    BY <1>1, <1>2 DEF TypeOK
  <2> QED
    BY <1>1, <1>3, <2>1 DEF TypeOK, Thread, Typed
<1>5. \A l \in Locks : \A e \in Listed(lock[l]) : e[1] \in Threads /\ e[1] # t
  <2> SUFFICES ASSUME NEW l \in Locks, NEW e \in Listed(lock[l]) PROVE e[1] \in Threads /\ e[1] # t
    OBVIOUS
  <2>1. e[1] \in Threads /\ e[2] \in 1..MaxLocks /\ e = <<e[1], e[2]>> /\ type[e] # TL_UNLOCK
    BY <1>1, ListedFacts
  <2> QED
    BY <2>1 DEF Free
<1>6. AllCalm'
  <2> SUFFICES ASSUME NEW l \in Locks PROVE Calm(lock[l], l, type, want') /\ Busy(lock[l])
    BY DEF AllCalm
  <2>1. Calm(lock[l], l, type, want) /\ Busy(lock[l])
    BY <1>1 DEF AllCalm
  <2>2. \A e \in Listed(lock[l]) : type[e] = type[e] /\ want'[e[1]] = want[e[1]]
    BY <1>2, <1>5
  <2>3. Calm(lock[l], l, type, want')
    BY <2>1, <2>2, CalmFrame
  <2> QED
    BY <2>1, <2>3
<1>7. Located'
  <2> SUFFICES ASSUME NEW d \in Data, type[d] # TL_UNLOCK
               PROVE  d[2] <= Len(want'[d[1]]) /\ d \in Listed(lock[want'[d[1]][d[2]].lock])
    BY DEF Located, LockOf
  <2>1. d[1] \in Threads /\ d[2] \in 1..MaxLocks /\ d = <<d[1], d[2]>>
    BY DEF Data
  <2>2. d[1] # t
    BY <2>1 DEF Free
  <2>3. want'[d[1]] = want[d[1]]
    BY <1>2, <2>1, <2>2
  <2>4. d[2] <= Len(want[d[1]]) /\ d \in Listed(lock[want[d[1]][d[2]].lock])
    BY <1>1 DEF Located, LockOf
  <2> QED
    BY <2>3, <2>4
<1>8. NoLocks(t) /\ OthersKeep(t) /\ OthersQueued(t)
  BY DEF NoLocks, OthersKeep, OthersQueued
<1>9. MineQueued(t)
  <2>1. \A l \in Locks : \A e \in InWait(lock[l]) : e \in Listed(lock[l])
    BY DEF InWait, Listed, Reads, Writes
  <2> QED
    BY <2>1, <1>5 DEF MineQueued
<1> QED
  BY <1>4, <1>6, <1>7, <1>8, <1>9, StepInv DEF Thread

\* The end of thr_multi_unlock keeps the invariant.
LEMMA UnlockedStep ==
    ASSUME IInv, NEW t \in Threads, Unlocked(t), aborts' = aborts
    PROVE  IInv'
<1>1. TypeOK /\ Call(t) /\ Role(t)
  BY DEF IInv
<1>2. /\ pc[t] = "unlock" /\ pos[t] > last[t]
      /\ want' = [want EXCEPT ![t] = <<>>]
      /\ pos' = [pos EXCEPT ![t] = 1] /\ last' = [last EXCEPT ![t] = 0] /\ pc' = [pc EXCEPT ![t] = "idle"]
      /\ lock' = lock /\ type' = type
  BY DEF Unlocked, Goto
<1>3. \A i \in 1..MaxLocks : Free(t, i)
  <2>1. \A i \in 1..MaxLocks : i < pos[t] \/ i > last[t] => Free(t, i)
    BY <1>1, <1>2 DEF Call
  <2>2. \A i \in 1..MaxLocks : i < pos[t] \/ i > last[t]
    BY <1>1, <1>2, MaxLocksNatural DEF TypeOK
  <2> QED
    BY <2>1, <2>2
<1>4. PICK s : s = <<>>
  OBVIOUS
<1>5. s \in Seq(Wanted) /\ Len(s) = 0 /\ Len(s) <= MaxLocks
  BY <1>4, MaxLocksNatural
<1>6. want'[t] = s /\ want' = [want EXCEPT ![t] = s] /\ \A u \in Threads : u # t => want'[u] = want[u]
  BY <1>1, <1>2, <1>4 DEF TypeOK, Wants
<1>7. \A i \in 1..Len(s) : FALSE
  BY <1>5
<1>8. pc'[t] = "idle"
  BY <1>1, <1>2 DEF TypeOK
<1>9. Thread(t)
  <2>1. Typed
    BY <1>1, <1>2 DEF TypeOK, Typed, PCs
  <2>2. Others(t)
    BY <1>1, <1>2, <1>6 DEF TypeOK, Others
  <2>3. Call(t)'
    BY <1>2, <1>3, <1>8 DEF Call, Free
  <2>4. Role(t)'
    BY <1>6, <1>7, <1>8 DEF Role, Late
  <2>5. MineKeep(t)
    BY <1>8 DEF MineKeep, Keeps
  <2> QED
    BY <2>1, <2>2, <2>3, <2>4, <2>5 DEF Thread
<1> QED
  BY <1>2, <1>3, <1>5, <1>6, <1>7, <1>9, WantStep

\* A sorted statement.
LEMMA SortedFacts ==
    ASSUME NEW r \in Seq(Wanted), NEW s \in SortLocks(r)
    PROVE  /\ s \in Seq(Wanted) /\ Len(s) = Len(r)
           /\ \A i \in 1..Len(s) : \E j \in 1..Len(r) : s[i] = r[j]
           /\ \A i, j \in 1..Len(s) : i < j /\ s[i].lock = s[j].lock => s[j].type <= s[i].type
<1>1. PICK n : n = Len(r)
  OBVIOUS
<1>2. n \in Nat /\ DOMAIN r = 1..n /\ \A i \in 1..n : r[i] \in Wanted
  BY <1>1
<1>3. PICK f \in [1..n -> 1..n] : s = [i \in 1..n |-> r[f[i]]]
  BY <1>2 DEF SortLocks, Bijection, Injection, Surjection
<1>4. \A i, j \in 1..n : i < j => ~LockCmp(s[j], s[i])
  BY <1>2 DEF SortLocks
<1>5. s \in [1..n -> Wanted] /\ \A i \in 1..n : s[i] = r[f[i]] /\ f[i] \in 1..n
  BY <1>2, <1>3
<1>6. s \in Seq(Wanted) /\ Len(s) = n
  BY <1>2, <1>5
<1>7. \A i \in 1..n : s[i].type \in Int
  <2>1. \A ty \in Types : ty \in Int
    BY TypeNumbers DEF Types, TypeValues
  <2> QED
    BY <2>1, <1>5 DEF Wanted
<1>8. ASSUME NEW i \in 1..n, NEW j \in 1..n, i < j, s[i].lock = s[j].lock PROVE s[j].type <= s[i].type
  <2>1. ~(s[j].type > s[i].type)
    BY <1>4, <1>8 DEF LockCmp
  <2> QED
    BY <2>1, <1>7
<1> QED
  BY <1>1, <1>5, <1>6, <1>8

\* The beginning of thr_multi_lock keeps the invariant.
LEMMA MultiLockStep ==
    ASSUME IInv, NEW t \in Threads, NEW r \in Statements(t), ThrMultiLock(t, r), aborts' = aborts
    PROVE  IInv'
<1>1. TypeOK /\ Call(t) /\ Role(t)
  BY DEF IInv
<1>2. PICK s \in SortLocks(r) : want' = [want EXCEPT ![t] = s]
  BY DEF ThrMultiLock
<1>3. /\ pc[t] = "idle" /\ pos' = [pos EXCEPT ![t] = 1] /\ pc' = [pc EXCEPT ![t] = "lock"]
      /\ lock' = lock /\ type' = type /\ last' = last
  BY DEF ThrMultiLock, Goto
<1>4. /\ r \in Seq(Wanted) /\ Len(r) \in 1..MaxLocks
      /\ t \in Handlers => Len(r) = 1 /\ r[1].type = TL_WRITE_DELAYED
      /\ t \notin Handlers => \A i \in 1..Len(r) : r[i].type # TL_WRITE_DELAYED
  <2>1. CASE t \in Handlers
    <3>1. PICK l \in Delayed : r = <<[lock |-> l, type |-> TL_WRITE_DELAYED]>>
      BY <2>1 DEF Statements
    <3>2. PICK w : w = [lock |-> l, type |-> TL_WRITE_DELAYED]
      OBVIOUS
    <3>3. w \in Wanted /\ w.type = TL_WRITE_DELAYED
      <4>1. l \in Locks /\ TL_WRITE_DELAYED \in Types \ {TL_UNLOCK}
        BY DelayedAreLocks, TypeNumbers DEF Types, TypeValues
      <4> QED
        BY <3>2, <4>1 DEF Wanted
    <3>4. r = <<w>>
      BY <3>1, <3>2
    <3>5. r \in Seq(Wanted) /\ Len(r) = 1 /\ r[1] = w
      BY <3>3, <3>4
    <3>6. 1 \in 1..MaxLocks
      BY MaxLocksNatural
    <3> QED
      BY <2>1, <3>3, <3>5, <3>6
  <2>2. CASE t \notin Handlers
    <3>1. r \in Requests
      BY <2>2 DEF Statements
    <3>2. r \in Seq(Wanted) /\ Len(r) \in 1..MaxLocks
      BY <3>1, RequestsTyped DEF Wanted
    <3>3. DOMAIN r = 1..Len(r)
      BY <3>2
    <3> QED
      BY <2>2, <3>1, <3>2, <3>3, DelayedByHandlers
  <2> QED
    BY <2>1, <2>2
<1>5. /\ s \in Seq(Wanted) /\ Len(s) = Len(r)
      /\ \A i \in 1..Len(s) : \E j \in 1..Len(r) : s[i] = r[j]
      /\ \A i, j \in 1..Len(s) : i < j /\ s[i].lock = s[j].lock => s[j].type <= s[i].type
  BY <1>4, SortedFacts
<1>6. /\ Len(s) \in 1..MaxLocks
      /\ t \in Handlers => Len(s) = 1 /\ s[1].type = TL_WRITE_DELAYED
      /\ t \notin Handlers => \A i \in 1..Len(s) : s[i].type # TL_WRITE_DELAYED
  <2>1. t \in Handlers => Len(s) = 1 /\ s[1].type = TL_WRITE_DELAYED
    <3> SUFFICES ASSUME t \in Handlers PROVE Len(s) = 1 /\ s[1].type = TL_WRITE_DELAYED
      OBVIOUS
    <3>1. Len(s) = 1 /\ Len(r) = 1 /\ r[1].type = TL_WRITE_DELAYED
      BY <1>4, <1>5
    <3>2. 1 \in 1..Len(s) /\ \A j \in 1..Len(r) : j = 1
      BY <3>1
    <3> QED
      BY <3>1, <3>2, <1>5
  <2> QED
    BY <2>1, <1>4, <1>5
<1>7. \A i, j \in 1..Len(s) : i < j => s[i].type # TL_WRITE_DELAYED
  <2>1. CASE t \in Handlers
    <3>1. \A i, j \in 1..1 : ~(i < j)
      OBVIOUS
    <3> QED
      BY <2>1, <3>1, <1>6
  <2>2. CASE t \notin Handlers
    BY <2>2, <1>6
  <2> QED
    BY <2>1, <2>2
<1>8. \A i \in 1..MaxLocks : Free(t, i)
  BY <1>1, <1>3 DEF Call
<1>9. pc'[t] = "lock" /\ pos'[t] = 1 /\ want'[t] = s
  BY <1>1, <1>2, <1>3 DEF TypeOK, Wants
<1>10. Thread(t)
  <2>1. Typed
    BY <1>1, <1>3 DEF TypeOK, Typed, PCs
  <2>2. Others(t)
    BY <1>1, <1>2, <1>3 DEF TypeOK, Wants, Others
  <2>3. Call(t)'
    <3>1. 1 \in 1..Len(s)
      BY <1>6
    <3> QED
      BY <1>3, <1>8, <1>9, <3>1 DEF Call, Free
  <2>4. Role(t)'
    BY <1>6, <1>9 DEF Role, Late
  <2>5. MineKeep(t)
    BY <1>9 DEF MineKeep, Keeps
  <2> QED
    BY <2>1, <2>2, <2>3, <2>4, <2>5 DEF Thread
<1>11. Len(s) <= MaxLocks
  BY <1>6, MaxLocksNatural
<1> QED
  BY <1>2, <1>3, <1>5, <1>7, <1>8, <1>10, <1>11, WantStep

\* What is known of the lock that a thread is at: its data is on no list yet.
LEMMA LockHere ==
    ASSUME IInv, NEW t \in Threads, pc[t] = "lock", NEW d, d = Here(t), NEW l, l = LockOf(d), NEW k, k = lock[l]
    PROVE  /\ d \in Data /\ l \in Locks /\ d[1] = t /\ d[2] = pos[t] /\ type[d] = TL_UNLOCK
           /\ Calm(k, l, type, want) /\ Busy(k) /\ Fits(k, l, d, want) /\ Wants(want)
           /\ \A e \in Listed(k) : e \in Data
           /\ \A e \in Range(k.writeWait) : e[1] # d[1]
           /\ Asked(want, d) = want[t][pos[t]] /\ Asked(want, d).type \in Types \ {TL_UNLOCK}
           /\ pos[t] \in 1..Len(want[t]) /\ want[t] \in Seq(Wanted) /\ Len(want[t]) \in Nat
           /\ \A i \in 1..MaxLocks : i > pos[t] => Free(t, i)
           /\ t \in Handlers <=> Asked(want, d).type = TL_WRITE_DELAYED
<1>1. TypeOK /\ AllCalm /\ Located /\ Queued /\ Call(t) /\ Role(t)
  BY DEF IInv
<1>2. pos[t] \in 1..Len(want[t]) /\ \A i \in 1..MaxLocks : i >= pos[t] => Free(t, i)
  BY <1>1 DEF Call
<1>3. want[t] \in Seq(Wanted) /\ Wants(want)
  BY <1>1 DEF TypeOK, Wants
<1>4. Len(want[t]) \in Nat /\ pos[t] <= Len(want[t])
  BY <1>2, <1>3
<1>5. /\ d \in Data /\ l \in Locks /\ d[1] = t /\ d[2] = pos[t]
      /\ pos[t] \in 1..MaxLocks /\ want[t][pos[t]] \in Wanted
  BY <1>4, HereData
<1>6. type[d] = TL_UNLOCK
  BY <1>2, <1>4, <1>5, MaxLocksNatural DEF Free, Here
<1>7. Calm(k, l, type, want) /\ Busy(k)
  BY <1>1, <1>5 DEF AllCalm
<1>8. \A e \in Listed(k) : e \in Data /\ type[e] # TL_UNLOCK /\ e[2] \in 1..MaxLocks /\ e = <<e[1], e[2]>>
  BY <1>1, <1>5, ListedFacts
<1>9. Asked(want, d) = want[t][pos[t]] /\ Asked(want, d).lock = l
  BY <1>5 DEF Asked, LockOf
<1>10. Asked(want, d).type \in Types \ {TL_UNLOCK}
  BY <1>5, <1>9 DEF Wanted
<1>11. d \notin Listed(k)
  BY <1>6, <1>8
<1>12. ASSUME NEW e \in Listed(k), e[1] = d[1] PROVE e[2] < d[2]
  <2>1. ~(e[2] >= pos[t])
    <3>1. PICK i \in 1..MaxLocks : i = e[2]
      BY <1>8
    <3>2. e = <<t, i>>
      BY <1>5, <1>8, <1>12, <3>1
    <3> QED
      BY <1>2, <1>8, <3>1, <3>2 DEF Free
  <2> QED
    BY <2>1, <1>4, <1>5, <1>8, MaxLocksNatural
<1>13. Fits(k, l, d, want)
  <2>1. d[2] <= Len(want[d[1]])
    BY <1>4, <1>5
  <2> QED
    BY <1>5, <1>9, <1>11, <1>12, <2>1 DEF Fits
<1>14. \A i \in 1..MaxLocks : i > pos[t] => Free(t, i)
  <2>1. \A i \in 1..MaxLocks : i > pos[t] => i >= pos[t]
    BY <1>2, <1>4, MaxLocksNatural
  <2> QED
    BY <2>1, <1>2
<1>15. t \in Handlers <=> Asked(want, d).type = TL_WRITE_DELAYED
  <2>1. CASE t \in Handlers
    <3>1. Len(want[t]) = 1 /\ want[t][1].type = TL_WRITE_DELAYED
      BY <1>1, <2>1 DEF Role
    <3>2. pos[t] = 1
      BY <1>2, <3>1
    <3> QED
      BY <2>1, <3>1, <3>2, <1>9
  <2>2. CASE t \notin Handlers
    BY <1>1, <1>2, <1>9, <2>2 DEF Role
  <2> QED
    BY <2>1, <2>2
<1>16. ASSUME NEW e \in Range(k.writeWait), e[1] = d[1] PROVE FALSE
  <2>1. e \in InWait(lock[l]) /\ e \in Listed(lock[l])
    BY <1>16 DEF InWait, Listed, Writes
  <2>2. e[1] = t
    BY <1>5, <1>16
  <2>3. CASE t \notin Handlers
    BY <1>1, <1>5, <2>1, <2>2, <2>3 DEF Queued
  <2>4. CASE t \in Handlers
    <3>1. e = <<t, 1>>
      BY <1>5, <2>1, <2>2, <2>4, HandlerWrites
    <3>2. pos[t] = 1
      <4>1. Len(want[t]) = 1
        BY <1>1, <2>4 DEF Role
      <4> QED
        BY <1>2, <4>1
    <3>3. e = d
      BY <3>1, <3>2 DEF Here
    <3> QED
      BY <1>11, <2>1, <3>3
  <2> QED
    BY <2>3, <2>4
<1> QED
  BY <1>2, <1>3, <1>4, <1>5, <1>6, <1>7, <1>8, <1>9, <1>10, <1>13, <1>14, <1>15, <1>16

\* A thread at a lock goes on, or waits.
Onward(t) == Advance(t) \/ (Goto(t, "wait") /\ pos' = pos)

\* What the thread itself is like then.
LEMMA OnwardStep ==
    ASSUME IInv, NEW t \in Threads, pc[t] = "lock", Onward(t), last' = last, want' = want,
           NEW d, d = Here(t), NEW v, type'[d] = v, \A e \in Data : e # d => type'[e] = type[e],
           ~aborts /\ t \in Handlers => v = TL_WRITE_DELAYED
    PROVE  Thread(t)
<1>1. /\ pos \in [Threads -> Nat \ {0}] /\ last \in [Threads -> Nat] /\ pc \in [Threads -> PCs]
      /\ type \in [Data -> Types]
  BY DEF IInv, TypeOK
<1>2. /\ pos[t] \in 1..Len(want[t]) /\ want[t] \in Seq(Wanted) /\ Role(t) /\ Len(want[t]) \in Nat
      /\ d \in Data /\ d[2] = pos[t] /\ \A i \in 1..MaxLocks : i > pos[t] => Free(t, i)
  <2>1. PICK l, k : l = LockOf(d) /\ k = lock[l]
    OBVIOUS
  <2> QED
    BY <2>1, LockHere DEF IInv
<1>3. \A i \in 1..MaxLocks : i > pos[t] => Free(t, i)'
  <2> SUFFICES ASSUME NEW i \in 1..MaxLocks, i > pos[t] PROVE type'[<<t, i>>] = TL_UNLOCK
    BY DEF Free
  <2>1. PICK e : e = <<t, i>>
    OBVIOUS
  <2>2. e \in Data /\ e[2] = i /\ type[e] = TL_UNLOCK
    BY <1>2, <2>1 DEF Data, Free
  <2>3. e # d
    BY <1>2, <2>2
  <2> QED
    BY <1>1, <2>1, <2>2, <2>3
<1>4. ~aborts /\ t \in Handlers => type'[<<t, 1>>] = TL_WRITE_DELAYED
  <2> SUFFICES ASSUME ~aborts, t \in Handlers PROVE type'[<<t, 1>>] = TL_WRITE_DELAYED
    OBVIOUS
  <2>1. pos[t] = 1
    <3>1. Len(want[t]) = 1
      BY <1>2 DEF Role
    <3> QED
      BY <1>2, <3>1
  <2> QED
    BY <1>1, <1>2, <2>1 DEF Here
<1>5. CASE Advance(t)
  <2>1. pc[t] \in {"lock", "wait"}
    OBVIOUS
  <2> QED
    BY <1>3, <1>4, <1>5, <2>1, AdvanceStep
<1>6. CASE Goto(t, "wait") /\ pos' = pos
  <2>1. pc' = [pc EXCEPT ![t] = "wait"] /\ pos' = pos
    BY <1>6 DEF Goto
  <2>2. pc'[t] = "wait" /\ pos'[t] = pos[t]
    BY <1>1, <2>1
  <2>3. Typed /\ Others(t)
    BY <1>1, <2>1 DEF Typed, PCs, Others
  <2>4. Call(t)'
    BY <1>2, <1>3, <2>2 DEF Call
  <2>5. Role(t)'
    BY <1>2, <2>2 DEF Role, Late
  <2>6. MineKeep(t)
    BY <1>4, <2>2 DEF MineKeep, Keeps
  <2> QED
    BY <2>3, <2>4, <2>5, <2>6 DEF Thread
<1> QED
  BY <1>5, <1>6 DEF Onward

\* The data d of the thread t is put on a list of the lock l, which becomes g.
Enters(t, d, l, k, v, g, ty2) ==
    /\ pc[t] = "lock" /\ Onward(t) /\ last' = last /\ want' = want
    /\ d = Here(t) /\ l = LockOf(d) /\ k = lock[l] /\ lock' = [lock EXCEPT ![l] = g]
    /\ v \in Types /\ (t \in Handlers => v = TL_WRITE_DELAYED)
    /\ type' = ty2 /\ ty2 \in [Data -> Types] /\ ty2[d] = v /\ \A e \in Data : e # d => ty2[e] = type[e]
    /\ Calm(g, l, ty2, want) /\ Busy(g)
    /\ Listed(g) = Listed(k) \cup {d} /\ Range(k.write) \subseteq Range(g.write)
    /\ InWait(g) \subseteq InWait(k) \cup {d}
    /\ t \notin Handlers /\ InWait(g) # InWait(k) => Goto(t, "wait") /\ pos' = pos

\* That keeps the invariant.
LEMMA EnterStep ==
    ASSUME IInv, NEW t \in Threads, NEW d, NEW l, NEW k, NEW v, NEW g, NEW ty2, Enters(t, d, l, k, v, g, ty2),
           aborts' = aborts
    PROVE  IInv'
<1> USE DEF Enters
<1>0. /\ Listed(g) = Listed(k) \cup {d} /\ Range(k.write) \subseteq Range(g.write)
      /\ InWait(g) \subseteq InWait(k) \cup {d}
      /\ t \notin Handlers /\ InWait(g) # InWait(k) => Goto(t, "wait") /\ pos' = pos
  OBVIOUS
<1>1. TypeOK /\ AllCalm /\ Located /\ Queued
  BY DEF IInv
<1>2. d \in Data /\ l \in Locks /\ d[1] = t /\ d[2] = pos[t] /\ type[d] = TL_UNLOCK
  BY LockHere
<1>3. ty2 \in [Data -> Types] /\ \A e \in Data : e # d => ty2[e] = type[e]
  OBVIOUS
<1>4. /\ AllCalm' /\ Located' /\ lock' \in [Locks -> LockType] /\ type' \in [Data -> Types]
      /\ lock'[l] = g /\ \A m \in Locks : m # l => lock'[m] = lock[m]
  <2>1. \A e \in Data : ty2[e] # type[e] => e \in Listed(lock[l]) \/ e \in Listed(g)
    BY <1>0, <1>3
  <2>2. \A e \in Listed(lock[l]) : e \in Listed(g) \/ ty2[e] = TL_UNLOCK
    BY <1>0
  <2>3. lock' = [lock EXCEPT ![l] = g] /\ type' = ty2 /\ want' = want
    OBVIOUS
  <2>4. Calm(g, l, ty2, want) /\ Busy(g)
    OBVIOUS
  <2> QED
    <3> HIDE DEF Enters
    <3>1. TypeOK /\ AllCalm /\ Located /\ l \in Locks /\ ty2 \in [Data -> Types]
      BY <1>1, <1>2, <1>3
    <3> QED
      BY <2>1, <2>2, <2>3, <2>4, <3>1, OneLock
<1>5. Thread(t)
  <2>1. type'[d] = v /\ \A e \in Data : e # d => type'[e] = type[e]
    OBVIOUS
  <2>2. ~aborts /\ t \in Handlers => v = TL_WRITE_DELAYED
    OBVIOUS
  <2> QED
    BY <2>1, <2>2, OnwardStep
<1>6. TypeOK'
  BY <1>1, <1>4, <1>5, TypeStep DEF Thread
<1>7. NoLocks(t)
  BY <1>2, <1>3 DEF NoLocks
<1>8. OthersKeep(t)
  <2>1. \A m \in Locks : \A e \in Range(lock[m].write) : e[1] # t => e \in Range(lock'[m].write)
    BY <1>0, <1>2, <1>4
  <2> QED
    BY <2>1, <1>2, <1>3 DEF OthersKeep
<1>9. OthersQueued(t)
  <2> SUFFICES ASSUME NEW m \in Locks, NEW e \in InWait(lock'[m]) PROVE e \in InWait(lock[m]) \/ e[1] = t
    BY DEF OthersQueued
  <2> QED
    BY <1>0, <1>2, <1>4
<1>10. MineQueued(t)
  <2> SUFFICES ASSUME t \notin Handlers, NEW m \in Locks, NEW e \in InWait(lock'[m]), e[1] = t
               PROVE  pc'[t] = "wait" /\ e[2] = pos'[t]
    BY DEF MineQueued
  <2>1. e \notin InWait(lock[m])
    BY <1>1 DEF Queued
  <2>2. m = l /\ e = d /\ InWait(g) # InWait(k)
    BY <1>0, <1>4, <2>1
  <2>3. Goto(t, "wait") /\ pos' = pos
    BY <1>0, <2>2
  <2>4. pc'[t] = "wait"
    BY <1>1, <2>3 DEF Goto, TypeOK
  <2> QED
    BY <2>2, <2>3, <2>4, <1>2
<1> QED
  BY <1>4, <1>5, <1>6, <1>7, <1>8, <1>9, <1>10, StepInv DEF Thread

\* A thread that may not get a lock any more gives up those it has.
LEMMA GiveUpStep ==
    ASSUME IInv, NEW t \in Threads, pc[t] = "lock", UnlockFirst(t, pos[t] - 1),
           lock' = lock, type' = type, want' = want, aborts' = aborts
    PROVE  IInv'
<1>1. PICK d, l, k : d = Here(t) /\ l = LockOf(d) /\ k = lock[l]
  OBVIOUS
<1>2. /\ pos[t] \in 1..Len(want[t]) /\ Len(want[t]) \in Nat /\ type[d] = TL_UNLOCK
      /\ \A i \in 1..MaxLocks : i > pos[t] => Free(t, i)
  BY <1>1, LockHere
<1>3. PICK n : n = pos[t] - 1
  OBVIOUS
<1>4. n \in Nat /\ n <= Len(want[t])
  BY <1>2, <1>3
<1>5. \A i \in 1..MaxLocks : i > n => Free(t, i)'
  <2>1. \A i \in 1..MaxLocks : i > n => i = pos[t] \/ i > pos[t]
    BY <1>2, <1>3, MaxLocksNatural
  <2>2. \A i \in 1..MaxLocks : i > n => Free(t, i)
    BY <2>1, <1>1, <1>2 DEF Free, Here
  <2> QED
    BY <2>2 DEF Free
<1>6. UnlockFirst(t, n) /\ pc[t] # "idle" /\ pc[t] # "wait"
  BY <1>3
<1>7. Thread(t)
  BY <1>4, <1>5, <1>6, UnlockStep
<1>8. MineQueued(t)
  BY <1>6, NotQueued
<1> QED
  BY <1>7, <1>8, StillStep

\* thr_lock for a read lock keeps the invariant.
LEMMA ReadStep ==
    ASSUME IInv, NEW t \in Threads, ThrLockRead(t), aborts' = aborts
    PROVE  IInv'
<1>1. PICK d, l, k : d = Here(t) /\ l = LockOf(d) /\ k = lock[l]
  OBVIOUS
<1>2. PICK v : v = want[t][pos[t]].type
  OBVIOUS
<1>3. pc[t] = "lock" /\ IsRead(v) /\ want' = want
  BY <1>2 DEF ThrLockRead
<1>4. /\ d \in Data /\ l \in Locks /\ Calm(k, l, type, want) /\ Busy(k) /\ Fits(k, l, d, want) /\ Wants(want)
      /\ Asked(want, d).type = v /\ v \in Types \ {TL_UNLOCK}
      /\ t \in Handlers <=> v = TL_WRITE_DELAYED
  BY <1>1, <1>2, <1>3, LockHere
<1>5. t \notin Handlers
  BY <1>3, <1>4, TypeNumbers DEF IsRead, TypeValues
<1>6. PICK ty2 : ty2 = [type EXCEPT ![d] = v]
  OBVIOUS
<1>7. ty2 \in [Data -> Types] /\ ty2[d] = v /\ \A e \in Data : e # d => ty2[e] = type[e]
  BY <1>4, <1>6 DEF IInv, TypeOK
<1>8. CASE ReadAllowed(k, d, v)
  <2>1. PICK g : g = AddedRead(k, d, v)
    OBVIOUS
  <2>2. Advance(t) /\ last' = last /\ type' = ty2
    BY <1>1, <1>2, <1>6, <1>8 DEF ThrLockRead
  <2>3. lock' = [lock EXCEPT ![l] = g]
    BY <1>1, <1>2, <1>8, <2>1 DEF ThrLockRead
  <2>4. PICK n : n = IF v = TL_READ_NO_INSERT THEN k.noInsert + 1 ELSE k.noInsert
    OBVIOUS
  <2>5. \A e \in Data \ {d} : ty2[e] = type[e]
    BY <1>7
  <2>6. /\ Calm(g, l, ty2, want) /\ Busy(g) /\ Listed(g) = Listed(k) \cup {d} /\ InWait(g) = InWait(k)
        /\ Range(g.write) = Range(k.write)
    BY <1>3, <1>4, <1>7, <1>8, <2>1, <2>4, <2>5, ReadCalm
  <2>7. Onward(t)
    BY <2>2 DEF Onward
  <2>8. v \in Types
    BY <1>4
  <2>9. /\ (t \in Handlers => v = TL_WRITE_DELAYED)
        /\ t \notin Handlers /\ InWait(g) # InWait(k) => Goto(t, "wait") /\ pos' = pos
    BY <1>5, <2>6
  <2>10. Enters(t, d, l, k, v, g, ty2)
    BY <1>1, <1>3, <1>7, <2>2, <2>3, <2>6, <2>7, <2>8, <2>9 DEF Enters
  <2> QED
    BY <2>10, EnterStep
<1>9. CASE ~ReadAllowed(k, d, v) /\ Only(k)
  <2>1. UnlockFirst(t, pos[t] - 1) /\ lock' = lock /\ type' = type
    BY <1>1, <1>2, <1>9 DEF ThrLockRead
  <2> QED
    BY <1>3, <2>1, GiveUpStep
<1>10. CASE ~ReadAllowed(k, d, v) /\ ~Only(k)
  <2>1. PICK g : g = AddedReadWait(k, d)
    OBVIOUS
  <2>2. Goto(t, "wait") /\ pos' = pos /\ last' = last /\ type' = ty2
    BY <1>1, <1>2, <1>6, <1>10 DEF ThrLockRead
  <2>3. lock' = [lock EXCEPT ![l] = g]
    BY <1>1, <1>2, <1>10, <2>1 DEF ThrLockRead
  <2>4. \A e \in Data \ {d} : ty2[e] = type[e]
    BY <1>7
  <2>5. Held(k)
    BY <1>4, <1>10 DEF ReadAllowed, Busy, Held
  <2>6. /\ Calm(g, l, ty2, want) /\ Busy(g) /\ Listed(g) = Listed(k) \cup {d} /\ InWait(g) = InWait(k) \cup {d}
        /\ Range(g.write) = Range(k.write)
    BY <1>3, <1>4, <1>7, <2>1, <2>4, <2>5, QueueReadCalm
  <2>7. Onward(t)
    BY <2>2 DEF Onward
  <2>8. v \in Types
    BY <1>4
  <2>9. /\ (t \in Handlers => v = TL_WRITE_DELAYED)
        /\ t \notin Handlers /\ InWait(g) # InWait(k) => Goto(t, "wait") /\ pos' = pos
    BY <1>5, <2>2, <2>6
  <2>10. Enters(t, d, l, k, v, g, ty2)
    BY <1>1, <1>3, <1>7, <2>2, <2>3, <2>6, <2>7, <2>8, <2>9 DEF Enters
  <2> QED
    BY <2>10, EnterStep
<1> QED
  BY <1>8, <1>9, <1>10

\* The ways a thread gets, or waits for, a write lock.
WriteWay(t, d, l, k, asks, v) ==
    /\ v = asks \/ (asks = TL_WRITE_CONCURRENT_INSERT /\ k.write = <<>> /\ v = Upgraded)
    /\ \/ Only(k) /\ UnlockFirst(t, pos[t] - 1) /\ lock' = lock /\ type' = type
       \/ /\ ~Only(k) /\ WriteAllowed(k, d, v) /\ Advance(t)
          /\ lock' = [lock EXCEPT ![l] = AddedWrite(k, d)]
          /\ type' = [type EXCEPT ![d] = v] /\ last' = last
       \/ /\ DelayedQueues(k, v) /\ Advance(t)
          /\ lock' = [lock EXCEPT ![l] = AddedWriteWait(k, d)]
          /\ type' = [type EXCEPT ![d] = v] /\ last' = last
       \/ /\ ~WriteAllowed(k, d, v) /\ Goto(t, "wait")
          /\ lock' = [lock EXCEPT ![l] = AddedWriteWait(k, d)]
          /\ type' = [type EXCEPT ![d] = v] /\ pos' = pos /\ last' = last

\* thr_lock has no other way.
LEMMA WriteWays ==
    ASSUME NEW t, ThrLockWrite(t), NEW d, d = Here(t), NEW l, l = LockOf(d), NEW k, k = lock[l],
           NEW asks, asks = want[t][pos[t]].type
    PROVE  /\ pc[t] = "lock" /\ ~IsRead(asks) /\ want' = want
           /\ \E v : WriteWay(t, d, l, k, asks, v)
<1>1. pc[t] = "lock" /\ ~IsRead(asks) /\ want' = want
  BY DEF ThrLockWrite
<1>2. PICK full \in BOOLEAN :
        LET free == k.write = <<>> /\ k.writeWait = <<>>
            ty == IF asks = TL_WRITE_CONCURRENT_INSERT /\ free /\ full THEN Upgraded ELSE asks IN
        \/ /\ Only(k)
           /\ UnlockFirst(t, pos[t] - 1)
           /\ UNCHANGED <<lock, type>>
        \/ /\ ~Only(k) /\ ~DelayedQueues(k, ty) /\ WriteAllowed(k, d, ty)
           /\ lock' = [lock EXCEPT ![l] = AddedWrite(@, d)]
           /\ type' = [type EXCEPT ![d] = ty]
           /\ Advance(t) /\ UNCHANGED last
        \/ /\ ~Only(k) /\ DelayedQueues(k, ty)
           /\ lock' = [lock EXCEPT ![l] = AddedWriteWait(@, d)]
           /\ type' = [type EXCEPT ![d] = ty]
           /\ Advance(t) /\ UNCHANGED last
        \/ /\ ~Only(k) /\ ~DelayedQueues(k, ty) /\ ~WriteAllowed(k, d, ty)
           /\ lock' = [lock EXCEPT ![l] = AddedWriteWait(@, d)]
           /\ type' = [type EXCEPT ![d] = ty]
           /\ Goto(t, "wait") /\ UNCHANGED <<pos, last>>
  BY DEF ThrLockWrite
<1>3. PICK v : v = IF asks = TL_WRITE_CONCURRENT_INSERT /\ (k.write = <<>> /\ k.writeWait = <<>>) /\ full
                   THEN Upgraded ELSE asks
  OBVIOUS
<1>4. v = asks \/ (asks = TL_WRITE_CONCURRENT_INSERT /\ k.write = <<>> /\ v = Upgraded)
  BY <1>3
<1>5. \/ Only(k) /\ UnlockFirst(t, pos[t] - 1) /\ lock' = lock /\ type' = type
      \/ /\ ~Only(k) /\ WriteAllowed(k, d, v) /\ Advance(t)
         /\ lock' = [lock EXCEPT ![l] = AddedWrite(k, d)]
         /\ type' = [type EXCEPT ![d] = v] /\ last' = last
      \/ /\ DelayedQueues(k, v) /\ Advance(t)
         /\ lock' = [lock EXCEPT ![l] = AddedWriteWait(k, d)]
         /\ type' = [type EXCEPT ![d] = v] /\ last' = last
      \/ /\ ~WriteAllowed(k, d, v) /\ Goto(t, "wait")
         /\ lock' = [lock EXCEPT ![l] = AddedWriteWait(k, d)]
         /\ type' = [type EXCEPT ![d] = v] /\ pos' = pos /\ last' = last
  BY <1>2, <1>3
<1> QED
  BY <1>1, <1>4, <1>5 DEF WriteWay

\* thr_lock for a write lock keeps the invariant.
LEMMA WriteStep ==
    ASSUME IInv, NEW t \in Threads, ThrLockWrite(t), aborts' = aborts
    PROVE  IInv'
<1>1. PICK d, l, k : d = Here(t) /\ l = LockOf(d) /\ k = lock[l]
  OBVIOUS
<1>2. PICK asks : asks = want[t][pos[t]].type
  OBVIOUS
<1>3. pc[t] = "lock" /\ ~IsRead(asks) /\ want' = want
  BY <1>1, <1>2, WriteWays
<1>40. PICK v : WriteWay(t, d, l, k, asks, v)
  BY <1>1, <1>2, WriteWays
<1>4.
        /\ v = asks \/ (asks = TL_WRITE_CONCURRENT_INSERT /\ k.write = <<>> /\ v = Upgraded)
        /\ \/ Only(k) /\ UnlockFirst(t, pos[t] - 1) /\ lock' = lock /\ type' = type
           \/ /\ ~Only(k) /\ WriteAllowed(k, d, v) /\ Advance(t)
              /\ lock' = [lock EXCEPT ![l] = AddedWrite(k, d)]
              /\ type' = [type EXCEPT ![d] = v] /\ last' = last
           \/ /\ DelayedQueues(k, v) /\ Advance(t)
              /\ lock' = [lock EXCEPT ![l] = AddedWriteWait(k, d)]
              /\ type' = [type EXCEPT ![d] = v] /\ last' = last
           \/ /\ ~WriteAllowed(k, d, v) /\ Goto(t, "wait")
              /\ lock' = [lock EXCEPT ![l] = AddedWriteWait(k, d)]
              /\ type' = [type EXCEPT ![d] = v] /\ pos' = pos /\ last' = last
  BY <1>40 DEF WriteWay
<1>5. /\ d \in Data /\ l \in Locks /\ Calm(k, l, type, want) /\ Busy(k) /\ Fits(k, l, d, want) /\ Wants(want)
      /\ Asked(want, d).type = asks /\ asks \in Types \ {TL_UNLOCK}
      /\ \A e \in Range(k.writeWait) : e[1] # d[1]
      /\ t \in Handlers <=> asks = TL_WRITE_DELAYED
  BY <1>1, <1>2, <1>3, LockHere
<1>6. /\ asks \in TL_WRITE_ALLOW_WRITE..TL_WRITE_ONLY /\ v \in Types /\ Became(asks, v)
      /\ v = TL_WRITE_DELAYED <=> asks = TL_WRITE_DELAYED
  <2>1. asks \in TL_WRITE_ALLOW_WRITE..TL_WRITE_ONLY
    BY <1>3, <1>5, TypeNumbers DEF IsRead, Types, TypeValues
  <2>2. v = asks \/ (asks = TL_WRITE_CONCURRENT_INSERT /\ v \in {TL_WRITE_LOW_PRIORITY, TL_WRITE})
    BY <1>4, UpgradedTyped
  <2> QED
    BY <2>1, <2>2, TypeNumbers DEF Became, Types, TypeValues
<1>8. PICK ty2 : ty2 = [type EXCEPT ![d] = v]
  OBVIOUS
<1>9. ty2 \in [Data -> Types] /\ ty2[d] = v /\ \A e \in Data : e # d => ty2[e] = type[e]
  BY <1>5, <1>6, <1>8 DEF IInv, TypeOK
<1>10. \A e \in Data \ {d} : ty2[e] = type[e]
  BY <1>9
<1>11. t \in Handlers => v = TL_WRITE_DELAYED
  BY <1>5, <1>6
<1>12. CASE Only(k) /\ UnlockFirst(t, pos[t] - 1) /\ lock' = lock /\ type' = type
  BY <1>3, <1>12, GiveUpStep
<1>13. CASE /\ ~Only(k) /\ WriteAllowed(k, d, v) /\ Advance(t)
            /\ lock' = [lock EXCEPT ![l] = AddedWrite(k, d)]
            /\ type' = [type EXCEPT ![d] = v] /\ last' = last
  <2>1. PICK g : g = AddedWrite(k, d)
    OBVIOUS
  <2>2. lock' = [lock EXCEPT ![l] = g] /\ type' = ty2 /\ last' = last
    BY <1>8, <1>13, <2>1
  <2>3. ~Only(k) /\ WriteAllowed(k, d, v)
    BY <1>13
  <2>4. Became(Asked(want, d).type, v)
    BY <1>5, <1>6
  <2>5. k.write # <<>> => v = Asked(want, d).type
    BY <1>4, <1>5
  <2>6. /\ Calm(g, l, ty2, want) /\ Busy(g) /\ Listed(g) = Listed(k) \cup {d} /\ InWait(g) = InWait(k)
        /\ Range(g.write) = Range(k.write) \cup {d}
    BY <1>5, <1>9, <1>10, <2>1, <2>3, <2>4, <2>5, WriteCalm
  <2>7. Onward(t)
    BY <1>13 DEF Onward
  <2>8. Enters(t, d, l, k, v, g, ty2)
    BY <1>1, <1>3, <1>6, <1>9, <1>11, <2>2, <2>6, <2>7 DEF Enters
  <2> QED
    BY <2>7, <2>8, EnterStep
<1>14. CASE /\ DelayedQueues(k, v) \/ ~WriteAllowed(k, d, v)
            /\ lock' = [lock EXCEPT ![l] = AddedWriteWait(k, d)]
            /\ type' = [type EXCEPT ![d] = v] /\ last' = last
            /\ Onward(t)
            /\ t \notin Handlers => Goto(t, "wait") /\ pos' = pos
  <2>1. PICK g : g = AddedWriteWait(k, d)
    OBVIOUS
  <2>2. lock' = [lock EXCEPT ![l] = g] /\ type' = ty2 /\ last' = last
    BY <1>8, <1>14, <2>1
  <2>3. Held(k)
    <3>1. CASE DelayedQueues(k, v)
      BY <3>1 DEF DelayedQueues, Held
    <3>2. CASE ~WriteAllowed(k, d, v)
      BY <3>2, <1>5 DEF WriteAllowed, Busy, Held
    <3> QED
      BY <3>1, <3>2, <1>14
  <2>4. Became(Asked(want, d).type, v)
    BY <1>5, <1>6
  <2>5. \A e \in Range(k.writeWait) : e[1] # d[1]
    BY <1>5
  <2>6. /\ Calm(g, l, ty2, want) /\ Busy(g) /\ Listed(g) = Listed(k) \cup {d} /\ InWait(g) = InWait(k) \cup {d}
        /\ Range(g.write) = Range(k.write)
    BY <1>5, <1>9, <1>10, <2>1, <2>3, <2>4, <2>5, QueueWriteCalm
  <2>7. Enters(t, d, l, k, v, g, ty2)
    BY <1>1, <1>3, <1>6, <1>9, <1>11, <1>14, <2>2, <2>6 DEF Enters
  <2>8. aborts' = aborts
    OBVIOUS
  <2> QED
    BY <2>7, <2>8, EnterStep
<1>15. CASE /\ DelayedQueues(k, v) /\ Advance(t)
            /\ lock' = [lock EXCEPT ![l] = AddedWriteWait(k, d)]
            /\ type' = [type EXCEPT ![d] = v] /\ last' = last
  <2>1. t \in Handlers
    BY <1>5, <1>6, <1>15 DEF DelayedQueues
  <2>2. Onward(t)
    BY <1>15 DEF Onward
  <2> QED
    BY <2>1, <2>2, <1>14, <1>15
<1>16. CASE /\ ~WriteAllowed(k, d, v) /\ Goto(t, "wait")
            /\ lock' = [lock EXCEPT ![l] = AddedWriteWait(k, d)]
            /\ type' = [type EXCEPT ![d] = v] /\ pos' = pos /\ last' = last
  <2>1. Onward(t)
    BY <1>16 DEF Onward
  <2> QED
    BY <2>1, <1>14, <1>16
<1> QED
  BY <1>4, <1>12, <1>13, <1>15, <1>16

\* What holds of the lock d, the first of the handler t, among the lists k of its table's lock l.
HandlerHas(t, d, l, k) ==
    /\ t \in Threads /\ Len(want[t]) = 1 /\ want[t] \in Seq(Wanted)
    /\ d \in Data /\ l \in Locks /\ d[1] = t
    /\ Calm(k, l, type, want) /\ Busy(k) /\ Asked(want, d).type = TL_WRITE_DELAYED
    /\ type[d] # TL_UNLOCK => d \in Writes(k) /\ d \in Listed(k)
    /\ \A e \in Listed(k) : e \in Data
    /\ d \in Range(k.write) => /\ Range(k.write) = {d} /\ d \in Writes(k) /\ d \in Listed(k)
                               /\ type[d] # TL_UNLOCK
                               /\ \A e \in Range(k.writeWait) : e[1] # d[1]

\* What is known of the lock of a handler.
LEMMA HandlerHere ==
    ASSUME IInv, NEW t \in Handlers, pc[t] # "idle", NEW d, d = <<t, 1>>, NEW l, l = LockOf(d), NEW k, k = lock[l]
    PROVE  HandlerHas(t, d, l, k)
<1>1. TypeOK /\ AllCalm /\ Located /\ t \in Threads
  BY HandlersAreThreads DEF IInv
<1>2. Len(want[t]) = 1 /\ want[t][1].type = TL_WRITE_DELAYED /\ want[t] \in Seq(Wanted)
  BY <1>1 DEF IInv, Role, TypeOK, Wants
<1>3. d \in Data /\ d[1] = t /\ d[2] = 1
  BY <1>1, MaxLocksNatural DEF Data
<1>4. want[t][1] \in Wanted
  BY <1>2
<1>5. l \in Locks /\ Asked(want, d).type = TL_WRITE_DELAYED
  BY <1>2, <1>3, <1>4 DEF LockOf, Asked, Wanted
<1>6. Calm(k, l, type, want) /\ Busy(k)
  BY <1>1, <1>5 DEF AllCalm
<1>7. \A e \in Listed(k) : e \in Data
  BY <1>1, <1>5, ListedFacts
<1>8. type[d] # TL_UNLOCK => d \in Writes(k) /\ d \in Listed(k)
  <2> SUFFICES ASSUME type[d] # TL_UNLOCK PROVE d \in Writes(k) /\ d \in Listed(k)
    OBVIOUS
  <2>1. d \in Listed(lock[l])
    BY <1>1, <1>3 DEF Located
  <2> QED
    BY <2>1, <1>3, <1>5, HandlerWrites
<1>9. ASSUME d \in Range(k.write)
      PROVE  /\ Range(k.write) = {d} /\ d \in Writes(k) /\ d \in Listed(k) /\ type[d] # TL_UNLOCK
             /\ \A e \in Range(k.writeWait) : e[1] # d[1]
  <2>1. d \in Writes(k) /\ d \in Listed(k) /\ type[d] # TL_UNLOCK
    BY <1>6, <1>9 DEF Writes, Listed, Calm, Mine
  <2>2. \A e \in Writes(k) : e[1] = d[1] => e = d
    <3> SUFFICES ASSUME NEW e \in Writes(k), e[1] = d[1] PROVE e = d
      OBVIOUS
    <3>1. e \in Listed(lock[l]) /\ e[1] \in Handlers
      BY <1>3 DEF Listed
    <3> QED
      BY <1>3, <1>5, <3>1, HandlerWrites
  <2>3. \A e \in Range(k.write) : e[1] # d[1] => Asked(want, d).type = TL_WRITE_ALLOW_WRITE
    BY <1>6, <1>9 DEF Calm, Shared
  <2>4. Range(k.write) = {d}
    BY <2>2, <2>3, <1>5, <1>9, TypeNumbers DEF Writes, TypeValues
  <2>5. d \notin Range(k.writeWait)
    BY <1>6, <1>9 DEF Calm, Lists
  <2>6. \A e \in Range(k.writeWait) : e[1] # d[1]
    BY <2>2, <2>5 DEF Writes
  <2> QED
    BY <2>1, <2>4, <2>6
<1> QED
  BY <1>1, <1>2, <1>3, <1>5, <1>6, <1>7, <1>8, <1>9 DEF HandlerHas

\* A handler goes on with its rows, or waits until it may.
LEMMA LateStep ==
    ASSUME IInv, NEW t \in Handlers, pc[t] # "idle", NEW x, x \in Late, Goto(t, x),
           pos' = pos, last' = last, want' = want, MineKeep(t)
    PROVE  Thread(t) /\ pc'[t] = x
<1>1. /\ pos \in [Threads -> Nat \ {0}] /\ last \in [Threads -> Nat] /\ pc \in [Threads -> PCs]
      /\ t \in Threads /\ Role(t)
  BY HandlersAreThreads DEF IInv, TypeOK
<1>2. pc' = [pc EXCEPT ![t] = x] /\ x \in PCs
  BY DEF Goto, Late, PCs
<1>3. pc'[t] = x
  BY <1>1, <1>2
<1>4. Typed /\ Others(t)
  BY <1>1, <1>2 DEF Typed, Others
<1>5. Call(t)'
  BY <1>3 DEF Call, Late
<1>6. Role(t)'
  BY <1>1 DEF Role
<1> QED
  BY <1>3, <1>4, <1>5, <1>6 DEF Thread

\* The lock d of a handler changes its type, or goes back to those that wait.
Turns(t, d, l, k, g, ty2) ==
    /\ d = <<t, 1>> /\ l = LockOf(d) /\ k = lock[l] /\ lock' = [lock EXCEPT ![l] = g]
    /\ type' = ty2 /\ ty2 \in [Data -> Types] /\ \A e \in Data : e # d => ty2[e] = type[e]
    /\ type[d] # TL_UNLOCK /\ want' = want
    /\ Calm(g, l, ty2, want) /\ Busy(g) /\ Listed(g) = Listed(k)
    /\ \A e \in Range(k.write) : e # d => e \in Range(g.write)
    /\ InWait(g) \subseteq InWait(k) \cup {d}

\* That keeps the invariant.
LEMMA TurnStep ==
    ASSUME IInv, NEW t \in Handlers, pc[t] # "idle", aborts' = aborts,
           NEW d, NEW l, NEW k, NEW g, NEW ty2, Turns(t, d, l, k, g, ty2), Thread(t)
    PROVE  IInv'
<1> USE DEF Turns
<1>1. TypeOK /\ AllCalm /\ Located /\ t \in Threads
  BY HandlersAreThreads DEF IInv
<1>20. HandlerHas(t, d, l, k)
  BY HandlerHere
<1>2. d \in Data /\ l \in Locks /\ d[1] = t /\ d \in Listed(k)
  BY <1>20 DEF HandlerHas
<1>3. ty2 \in [Data -> Types] /\ \A e \in Data : e # d => ty2[e] = type[e]
  OBVIOUS
<1>4. /\ AllCalm' /\ Located' /\ lock' \in [Locks -> LockType] /\ type' \in [Data -> Types]
      /\ lock'[l] = g /\ \A m \in Locks : m # l => lock'[m] = lock[m]
  <2>1. \A e \in Data : ty2[e] # type[e] => e \in Listed(lock[l]) \/ e \in Listed(g)
    BY <1>2, <1>3
  <2>2. \A e \in Listed(lock[l]) : e \in Listed(g) \/ ty2[e] = TL_UNLOCK
    OBVIOUS
  <2>3. lock' = [lock EXCEPT ![l] = g] /\ type' = ty2 /\ want' = want
    OBVIOUS
  <2>4. Calm(g, l, ty2, want) /\ Busy(g)
    OBVIOUS
  <2> HIDE DEF Turns
  <2> QED
    BY <1>1, <1>2, <1>3, <2>1, <2>2, <2>3, <2>4, OneLock
<1>5. want' = want
  OBVIOUS
<1>6. TypeOK'
  BY <1>1, <1>4, <1>5, TypeStep DEF Thread
<1>7. NoLocks(t)
  BY <1>2, <1>3 DEF NoLocks
<1>8. OthersKeep(t)
  <2>1. \A m \in Locks : \A e \in Range(lock[m].write) : e[1] # t => e \in Range(lock'[m].write)
    BY <1>2, <1>4
  <2> QED
    BY <2>1, <1>2, <1>3 DEF OthersKeep
<1>9. OthersQueued(t)
  <2> SUFFICES ASSUME NEW m \in Locks, NEW e \in InWait(lock'[m]) PROVE e \in InWait(lock[m]) \/ e[1] = t
    BY DEF OthersQueued
  <2> QED
    BY <1>2, <1>4
<1>10. MineQueued(t)
  BY DEF MineQueued
<1> HIDE DEF Turns
<1> QED
  BY <1>1, <1>4, <1>6, <1>7, <1>8, <1>9, <1>10, StepInv DEF Thread

\* A handler's lock gets another type.
LEMMA TurnedCalm ==
    ASSUME NEW k, NEW l, NEW d, Calm(k, l, type, want), d \in Writes(k), Asked(want, d).type = TL_WRITE_DELAYED,
           \A e \in Listed(k) : e \in Data,
           d \in Range(k.write) => Range(k.write) = {d} /\ k.read = <<>>,
           NEW ty2, ty2[d] \in {TL_WRITE_DELAYED, TL_WRITE}, \A e \in Data : e # d => ty2[e] = type[e]
    PROVE  Calm(k, l, ty2, want)
<1>1. Became(Asked(want, d).type, ty2[d])
  BY TypeNumbers DEF Became, TypeValues
<1>2. \A e \in Listed(k) : e # d => ty2[e] = type[e]
  OBVIOUS
<1>3. d \in Range(k.write) => d = Head(k.write) /\ \A r \in Range(k.read) : Goes(d, r, ty2)
  <2> SUFFICES ASSUME d \in Range(k.write)
               PROVE  d = Head(k.write) /\ \A r \in Range(k.read) : Goes(d, r, ty2)
    OBVIOUS
  <2>1. k.write \in Seq(Data) /\ k.read \in Seq(Data)
    BY LockFields DEF Calm
  <2>2. k.write # <<>> /\ Range(k.read) = {}
    BY <2>1, RangeOf
  <2>3. Head(k.write) \in Range(k.write)
    BY <2>1, <2>2, RangeOf
  <2> QED
    BY <2>2, <2>3
<1> QED
  BY <1>1, <1>2, <1>3, RetypeCalm

\* thr_upgrade_write_delay_lock keeps the invariant.
LEMMA UpgradeStep ==
    ASSUME IInv, NEW t \in Threads, ThrUpgradeWriteDelayLock(t), aborts' = aborts
    PROVE  IInv'
<1>1. PICK d, l, k : d = <<t, 1>> /\ l = LockOf(d) /\ k = lock[l]
  OBVIOUS
<1>2. t \in Handlers /\ pc[t] \in {"locked", "reschedule"} /\ pc[t] # "idle" /\ want' = want
  BY DEF ThrUpgradeWriteDelayLock
<1>20. HandlerHas(t, d, l, k)
  BY <1>1, <1>2, HandlerHere
<1>3. /\ Len(want[t]) = 1 /\ want[t] \in Seq(Wanted)
      /\ d \in Data /\ l \in Locks /\ d[1] = t
      /\ Calm(k, l, type, want) /\ Busy(k) /\ Asked(want, d).type = TL_WRITE_DELAYED
      /\ type[d] # TL_UNLOCK => d \in Writes(k) /\ d \in Listed(k)
      /\ \A e \in Listed(k) : e \in Data
      /\ d \in Range(k.write) => /\ Range(k.write) = {d} /\ d \in Writes(k) /\ d \in Listed(k)
                                 /\ type[d] # TL_UNLOCK
                                 /\ \A e \in Range(k.writeWait) : e[1] # d[1]
  BY <1>20 DEF HandlerHas
<1>4. ~aborts => type[d] = TL_WRITE_DELAYED
  BY <1>1, <1>2 DEF IInv, AllKeep, Keeps
<1>5. lock = [lock EXCEPT ![l] = k] /\ lock \in [Locks -> LockType] /\ type \in [Data -> Types]
  BY <1>1, <1>3 DEF IInv, TypeOK
<1>6. CASE type[d] = TL_UNLOCK
  <2>1. /\ IF pc[t] = "locked" THEN UnlockFirst(t, 1) ELSE Goto(t, "writing") /\ pos' = pos /\ last' = last
        /\ lock' = lock /\ type' = type
    BY <1>1, <1>6, TypeNumbers DEF ThrUpgradeWriteDelayLock, TypeValues
  <2>2. MineQueued(t)
    BY <1>2 DEF MineQueued
  <2>3. CASE pc[t] = "locked"
    <3>1. UnlockFirst(t, 1)
      BY <2>1, <2>3
    <3>2. \A i \in 1..MaxLocks : i > 1 => Free(t, i)'
      <4> SUFFICES ASSUME NEW i \in 1..MaxLocks, i > 1 PROVE type[<<t, i>>] = TL_UNLOCK
        BY <2>1 DEF Free
      <4>1. PICK e : e = <<t, i>>
        OBVIOUS
      <4>2. e \in Data /\ e[1] = t /\ e[2] = i
        BY <4>1 DEF Data
      <4>3. ~(i <= 1)
        BY MaxLocksNatural
      <4> QED
        BY <4>1, <4>2, <4>3, <1>3 DEF IInv, Located
    <3>3. 1 <= Len(want[t])
      BY <1>3
    <3>4. Thread(t)
      BY <1>2, <3>1, <3>2, <3>3, UnlockStep
    <3> QED
      BY <1>2, <2>1, <2>2, <3>4, StillStep
  <2>4. CASE pc[t] # "locked"
    <3>1. Goto(t, "writing") /\ pos' = pos /\ last' = last
      BY <2>1, <2>4
    <3>2. MineKeep(t)
      BY <1>4, <1>6, TypeNumbers DEF MineKeep, TypeValues
    <3>3. Thread(t)
      BY <1>2, <3>1, <3>2, LateStep DEF Late
    <3> QED
      BY <1>2, <2>1, <2>2, <3>3, StillStep
  <2> QED
    BY <2>3, <2>4
<1>7. CASE type[d] >= TL_WRITE_LOW_PRIORITY
  <2>1. Goto(t, "writing") /\ lock' = lock /\ type' = type /\ pos' = pos /\ last' = last
    BY <1>1, <1>7, TypeNumbers DEF ThrUpgradeWriteDelayLock, TypeValues
  <2>2. MineQueued(t)
    BY <1>2 DEF MineQueued
  <2>3. MineKeep(t)
    BY <1>4, <1>7, TypeNumbers DEF MineKeep, TypeValues
  <2>4. Thread(t)
    BY <1>2, <2>1, <2>3, LateStep DEF Late
  <2> QED
    BY <1>2, <2>1, <2>2, <2>4, StillStep
<1>8. CASE type[d] = TL_WRITE_DELAYED
  <2>1. PICK ty2 : ty2 = [type EXCEPT ![d] = TL_WRITE]
    OBVIOUS
  <2>2. /\ type' = ty2 /\ pos' = pos /\ last' = last
        /\ IF d \in Range(k.write)
           THEN IF k.read = <<>>
                THEN Goto(t, "writing") /\ lock' = lock
                ELSE /\ lock' = [lock EXCEPT ![l] = Back(k, d)]
                     /\ Goto(t, IF pc[t] = "locked" THEN "upgrade" ELSE "reupgrade")
           ELSE Goto(t, IF pc[t] = "locked" THEN "upgrade" ELSE "reupgrade") /\ lock' = lock
    BY <1>1, <1>8, <2>1, TypeNumbers DEF ThrUpgradeWriteDelayLock, TypeValues
  <2>3. ty2 \in [Data -> Types] /\ ty2[d] = TL_WRITE /\ \A e \in Data : e # d => ty2[e] = type[e]
    BY <1>3, <1>5, <2>1, TypeNumbers DEF Types, TypeValues
  <2>4. d \in Writes(k) /\ d \in Listed(k) /\ type[d] # TL_UNLOCK
    BY <1>3, <1>8, TypeNumbers DEF TypeValues
  <2>5. ty2[d] \in {TL_WRITE_DELAYED, TL_WRITE}
    BY <2>3
  <2>6. CASE d \in Range(k.write) => k.read = <<>>
    <3>1. d \in Range(k.write) => Range(k.write) = {d} /\ k.read = <<>>
      BY <1>3, <2>6
    <3>2. Calm(k, l, ty2, want)
      BY <1>3, <2>3, <2>4, <2>5, <3>1, TurnedCalm
    <3>3. lock' = [lock EXCEPT ![l] = k] /\ lock' = lock
      BY <1>5, <2>2, <2>6
    <3>4. PICK x : x = IF d \in Range(k.write) THEN "writing" ELSE IF pc[t] = "locked" THEN "upgrade" ELSE "reupgrade"
      OBVIOUS
    <3>5. x \in Late /\ Goto(t, x) /\ x \in {"writing", "upgrade", "reupgrade"}
      BY <2>2, <2>6, <3>4 DEF Late
    <3>6. MineKeep(t)
      <4> SUFFICES Keeps(t)'
        BY DEF MineKeep
      <4>1. pc'[t] = x
        BY <1>2, <3>5 DEF IInv, TypeOK, Goto
      <4>2. x = "writing" => d \in Range(k.write)
        BY <3>4
      <4>3. <<t, 1>> \in Range(lock[LockOf(<<t, 1>>)].write) <=> d \in Range(k.write)
        BY <1>1
      <4>4. type'[<<t, 1>>] = TL_WRITE
        BY <1>1, <2>2, <2>3
      <4> QED
        BY <1>2, <3>3, <3>5, <4>1, <4>2, <4>3, <4>4 DEF Keeps, LockOf
    <3>7. Thread(t)
      BY <1>2, <2>2, <3>5, <3>6, LateStep
    <3>8. Turns(t, d, l, k, k, ty2)
      BY <1>1, <1>2, <1>3, <2>2, <2>3, <2>4, <3>2, <3>3 DEF Turns
    <3> QED
      BY <1>2, <3>7, <3>8, TurnStep
  <2>7. CASE d \in Range(k.write) /\ k.read # <<>>
    <3>1. PICK g : g = Back(k, d)
      OBVIOUS
    <3>2. /\ Range(k.write) = {d} /\ \A e \in Range(k.writeWait) : e[1] # d[1]
      BY <1>3, <2>7
    <3>3. /\ Calm(g, l, type, want) /\ Listed(g) = Listed(k)
          /\ g.write = <<>> /\ g.read = k.read /\ g.readWait = k.readWait
          /\ Range(g.writeWait) = Range(k.writeWait) \cup {d}
      <4>1. Solo(k, d)
        BY <3>2 DEF Solo
      <4> QED
        BY <1>3, <3>1, <4>1, BackCalm
    <3>4. Range(g.write) = {}
      BY <3>3 DEF Range
    <3>5. d \in Writes(g) /\ \A e \in Listed(g) : e \in Data
      BY <1>3, <3>3 DEF Writes
    <3>6. d \in Range(g.write) => Range(g.write) = {d} /\ g.read = <<>>
      BY <3>4
    <3>7. Calm(g, l, ty2, want)
      BY <1>3, <2>3, <2>5, <3>3, <3>5, <3>6, TurnedCalm
    <3>8. Busy(g)
      BY <2>7, <3>3 DEF Busy, Held
    <3>9. lock' = [lock EXCEPT ![l] = g]
      BY <2>2, <2>7, <3>1
    <3>10. PICK x : x = IF pc[t] = "locked" THEN "upgrade" ELSE "reupgrade"
      OBVIOUS
    <3>11. x \in Late /\ Goto(t, x) /\ x \in {"upgrade", "reupgrade"}
      BY <2>2, <2>7, <3>10 DEF Late
    <3>12. MineKeep(t)
      <4>1. pc'[t] = x
        BY <3>11 DEF IInv, TypeOK, Goto
      <4>2. type'[<<t, 1>>] = TL_WRITE
        BY <1>1, <2>2, <2>3
      <4> QED
        BY <3>11, <4>1, <4>2 DEF MineKeep, Keeps
    <3>13. Thread(t)
      BY <1>2, <2>2, <3>11, <3>12, LateStep
    <3>14. InWait(g) \subseteq InWait(k) \cup {d}
      BY <3>3 DEF InWait
    <3>15. \A e \in Range(k.write) : e # d => e \in Range(g.write)
      BY <3>2
    <3>16. Turns(t, d, l, k, g, ty2)
      BY <1>1, <1>2, <2>2, <2>3, <2>4, <3>3, <3>7, <3>8, <3>9, <3>14, <3>15 DEF Turns
    <3> QED
      BY <1>2, <3>13, <3>16, TurnStep
  <2> QED
    BY <2>6, <2>7
<1>9. type[d] = TL_UNLOCK \/ type[d] >= TL_WRITE_LOW_PRIORITY \/ type[d] = TL_WRITE_DELAYED
  BY <1>1 DEF ThrUpgradeWriteDelayLock
<1> QED
  BY <1>6, <1>7, <1>8, <1>9

\* thr_reschedule_write_lock keeps the invariant.
LEMMA RescheduleStep ==
    ASSUME IInv, NEW t \in Threads, ThrRescheduleWriteLock(t), aborts' = aborts
    PROVE  IInv'
<1>1. PICK d, l, k : d = <<t, 1>> /\ l = LockOf(d) /\ k = lock[l]
  OBVIOUS
<1>2. /\ t \in Handlers /\ pc[t] # "idle" /\ want' = want /\ pos' = pos /\ last' = last
      /\ d \in Range(k.write) /\ k.readWait # <<>> /\ Goto(t, "reschedule")
      /\ type' = [type EXCEPT ![d] = TL_WRITE_DELAYED]
  BY <1>1 DEF ThrRescheduleWriteLock
<1>3. PICK b, g : b = Back(k, d) /\ g = FreeAllReadLocks(b, FALSE)
  OBVIOUS
<1>4. lock' = [lock EXCEPT ![l] = g]
  BY <1>1, <1>3 DEF ThrRescheduleWriteLock
<1>20. HandlerHas(t, d, l, k)
  BY <1>1, <1>2, HandlerHere
<1>5. /\ d \in Data /\ l \in Locks
      /\ Calm(k, l, type, want) /\ Asked(want, d).type = TL_WRITE_DELAYED
      /\ \A e \in Listed(k) : e \in Data
      /\ Range(k.write) = {d} /\ type[d] # TL_UNLOCK
      /\ \A e \in Range(k.writeWait) : e[1] # d[1]
  <2>1. d \in Range(k.write)
    BY <1>2
  <2>2. \A e \in Listed(k) : e \in Data
    BY <1>20 DEF HandlerHas
  <2>3. Range(k.write) = {d} /\ type[d] # TL_UNLOCK /\ \A e \in Range(k.writeWait) : e[1] # d[1]
    BY <2>1, <1>20 DEF HandlerHas
  <2> QED
    BY <2>2, <2>3, <1>20 DEF HandlerHas
<1>6. /\ Calm(b, l, type, want) /\ Listed(b) = Listed(k)
      /\ b.write = <<>> /\ b.read = k.read /\ b.readWait = k.readWait
      /\ Range(b.writeWait) = Range(k.writeWait) \cup {d}
  <2>1. Solo(k, d)
    BY <1>5 DEF Solo
  <2> QED
    BY <1>3, <1>5, <2>1, BackCalm
<1>7. Range(b.write) = {}
  BY <1>6 DEF Range
<1>8. /\ Calm(g, l, type, want) /\ Listed(g) = Listed(b)
      /\ g.write = b.write /\ g.writeWait = b.writeWait
      /\ Range(g.read) = Range(b.read) \cup (Range(b.readWait) \ Stays(b, FALSE))
      /\ Range(g.readWait) = Stays(b, FALSE)
  <2>1. \A w \in Range(b.write) : /\ type[w] \notin {TL_WRITE_LOW_PRIORITY, TL_WRITE}
                                  /\ type[w] = TL_WRITE_CONCURRENT_INSERT => FALSE
    BY <1>7
  <2> QED
    BY <1>3, <1>6, <2>1, FreeAllCalm
<1>9. Stays(b, FALSE) = {}
  BY DEF Stays
<1>10. PICK ty2 : ty2 = [type EXCEPT ![d] = TL_WRITE_DELAYED]
  OBVIOUS
<1>11. ty2 \in [Data -> Types] /\ ty2[d] = TL_WRITE_DELAYED /\ \A e \in Data : e # d => ty2[e] = type[e]
  BY <1>5, <1>10, TypeNumbers DEF IInv, TypeOK, Types, TypeValues
<1>12. Calm(g, l, ty2, want)
  <2>1. d \in Writes(g) /\ \A e \in Listed(g) : e \in Data
    BY <1>5, <1>6, <1>8 DEF Writes
  <2>2. d \in Range(g.write) => Range(g.write) = {d} /\ g.read = <<>>
    BY <1>7, <1>8
  <2>3. ty2[d] \in {TL_WRITE_DELAYED, TL_WRITE}
    BY <1>11
  <2> QED
    BY <1>5, <1>8, <1>11, <2>1, <2>2, <2>3, TurnedCalm
<1>13. Busy(g)
  <2>1. k.readWait \in Seq(Data) /\ g.read \in Seq(Data)
    BY <1>5, <1>8, LockFields DEF Calm
  <2>2. Range(k.readWait) # {}
    BY <1>2, <2>1, RangeOf
  <2>3. Range(g.read) # {}
    BY <2>2, <1>6, <1>8, <1>9
  <2>4. g.read # <<>>
    BY <2>1, <2>3, RangeOf
  <2> QED
    BY <2>4 DEF Busy, Held
<1>14. InWait(g) \subseteq InWait(k) \cup {d}
  BY <1>6, <1>8, <1>9 DEF InWait
<1>15. MineKeep(t)
  <2>1. pc'[t] = "reschedule"
    BY <1>2 DEF IInv, TypeOK, Goto
  <2>2. type'[<<t, 1>>] = TL_WRITE_DELAYED
    BY <1>1, <1>2, <1>10, <1>11
  <2> QED
    BY <2>1, <2>2 DEF MineKeep, Keeps
<1>16. Thread(t)
  BY <1>2, <1>15, LateStep DEF Late
<1>17. Turns(t, d, l, k, g, ty2)
  BY <1>1, <1>2, <1>4, <1>5, <1>6, <1>8, <1>10, <1>11, <1>12, <1>13, <1>14 DEF Turns
<1> QED
  BY <1>2, <1>16, <1>17, TurnStep

-----------------------------------------------------------------------------
(***************************************************************************)
(* The theorems.                                                           *)
(***************************************************************************)
\* No lock is held, and nobody waits, when the threads start.
LEMMA InitInv == Init => IInv
<1> SUFFICES ASSUME Init PROVE IInv
  OBVIOUS
<1> USE DEF Init
<1>1. \A l \in Locks : /\ lock[l] = [read |-> <<>>, readWait |-> <<>>, write |-> <<>>, writeWait |-> <<>>,
                                     noInsert |-> 0, writeCount |-> 0]
                       /\ lock[l].read = <<>> /\ lock[l].readWait = <<>>
                       /\ lock[l].write = <<>> /\ lock[l].writeWait = <<>> /\ lock[l].noInsert = 0
  OBVIOUS
<1>2. \A d \in Data : type[d] = TL_UNLOCK
  OBVIOUS
<1>3. \A t \in Threads : want[t] = <<>> /\ Len(want[t]) = 0 /\ pc[t] = "idle"
  OBVIOUS
<1>4. PICK e : e = <<>>
  OBVIOUS
<1>5. e \in Seq(Data) /\ Range(e) = {} /\ Len(e) = 0 /\ e \in Seq(Wanted)
  BY <1>4 DEF Range
<1>6. (\A i \in 1..0 : FALSE) /\ (\A i \in 2..0 : FALSE)
  OBVIOUS
<1>7. \A l \in Locks : lock[l] \in LockType
  BY <1>1, <1>4, <1>5 DEF LockType
<1>8. TypeOK
  <2>1. lock \in [Locks -> LockType]
    <3>1. lock = [l \in Locks |-> lock[l]]
      OBVIOUS
    <3> QED
      BY <3>1, <1>7
  <2>2. type \in [Data -> Types]
    BY TypeNumbers DEF Types, TypeValues
  <2>3. Wants(want) /\ \A t \in Threads : Len(want[t]) <= MaxLocks
    <3>1. want \in [Threads -> Seq(Wanted)]
      BY <1>4, <1>5
    <3>2. \A t \in Threads : \A i \in 1..Len(want[t]) : FALSE
      BY <1>3, <1>6
    <3>3. \A t \in Threads : Len(want[t]) <= MaxLocks
      BY <1>3, MaxLocksNatural
    <3> QED
      BY <3>1, <3>2, <3>3 DEF Wants
  <2>4. pos \in [Threads -> Nat \ {0}] /\ last \in [Threads -> Nat] /\ pc \in [Threads -> PCs] /\ aborts \in BOOLEAN
    BY DEF PCs
  <2> QED
    BY <2>1, <2>2, <2>3, <2>4 DEF TypeOK
<1>9. AllCalm
  <2> SUFFICES ASSUME NEW l \in Locks PROVE Calm(lock[l], l, type, want) /\ Busy(lock[l])
    BY DEF AllCalm
  <2>1. PICK k : k = lock[l]
    OBVIOUS
  <2>2. k.read = e /\ k.readWait = e /\ k.write = e /\ k.writeWait = e /\ k.noInsert = 0 /\ k \in LockType
    BY <1>1, <1>4, <1>7, <2>1
  <2>3. Reads(k) = {} /\ Writes(k) = {} /\ Listed(k) = {}
    BY <1>5, <2>2 DEF Reads, Writes, Listed
  <2>4. Once(e) /\ InOrder(e) /\ OneEach(e) /\ TailAsked(e, type, want)
    BY <1>5, <1>6 DEF Once, InOrder, OneEach, TailAsked
  <2>5. Lists(k)
    BY <1>5, <2>2, <2>4 DEF Lists
  <2>6. Mine(k, l, type, want) /\ Kinds(k, type, want)
    BY <2>3 DEF Mine, Kinds
  <2>7. Order(k, type, want) /\ Shared(k, type, want)
    BY <1>5, <2>2, <2>4 DEF Order, Shared
  <2>8. Count(k, type)
    <3>1. NoIns(Range(k.read), type) = {}
      BY <1>5, <2>2 DEF NoIns
    <3> QED
      BY <3>1, <2>2, FS_EmptySet DEF Count
  <2>9. Busy(k)
    BY <1>4, <2>2 DEF Busy
  <2> QED
    BY <2>1, <2>5, <2>6, <2>7, <2>8, <2>9 DEF Calm
<1>10. Located
  BY <1>2 DEF Located
<1>11. Queued
  <2>1. \A l \in Locks : InWait(lock[l]) = {}
    BY <1>1, <1>4, <1>5 DEF InWait
  <2> QED
    BY <2>1 DEF Queued
<1>12. AllKeep
  BY <1>3, HandlersAreThreads DEF AllKeep, Keeps
<1>13. \A t \in Threads : Call(t) /\ Role(t)
  <2> SUFFICES ASSUME NEW t \in Threads PROVE Call(t) /\ Role(t)
    OBVIOUS
  <2>1. \A i \in 1..MaxLocks : Free(t, i)
    BY <1>2 DEF Free, Data
  <2>2. Call(t)
    BY <1>3, <2>1 DEF Call
  <2>3. Role(t)
    BY <1>3, <1>6 DEF Role, Late
  <2> QED
    BY <2>2, <2>3
<1> QED
  BY <1>8, <1>9, <1>10, <1>11, <1>12, <1>13 DEF IInv

\* The invariant is inductive.
LEMMA NextInv == IInv /\ [Next]_vars => IInv'
<1> SUFFICES ASSUME IInv, [Next]_vars PROVE IInv'
  OBVIOUS
<1>1. CASE Next
  <2>1. aborts' = aborts
    BY <1>1 DEF Next
  <2>2. PICK t \in Threads :
          \/ Run(t) \/ Killed(t) \/ ThrRescheduleWriteLock(t)
          \/ \E r \in Statements(t) : ThrMultiLock(t, r)
          \/ \E l \in Locks : ThrAbortLocks(t, l) \/ ThrAbortLocksForThread(t, l)
    BY <1>1 DEF Next
  <2>3. CASE Run(t)
    <3>1. \/ ThrLockRead(t) \/ ThrLockWrite(t) \/ Wakeup(t)
          \/ MultiUnlock(t) \/ ThrUnlock(t) \/ Unlocked(t)
          \/ ThrUpgradeWriteDelayLock(t) \/ UpgradeWakeup(t)
      BY <2>3 DEF Run
    <3> QED
      BY <3>1, <2>1, ReadStep, WriteStep, WakeupStep, MultiUnlockStep, ThrUnlockStep, UnlockedStep,
         UpgradeStep, UpgradeWakeupStep
  <2>4. CASE Killed(t)
    BY <2>1, <2>4, KilledStep
  <2>5. CASE ThrRescheduleWriteLock(t)
    BY <2>1, <2>5, RescheduleStep
  <2>6. CASE \E r \in Statements(t) : ThrMultiLock(t, r)
    BY <2>1, <2>6, MultiLockStep
  <2>7. CASE \E l \in Locks : ThrAbortLocks(t, l) \/ ThrAbortLocksForThread(t, l)
    BY <2>1, <2>7, AbortStep, AbortForThreadStep
  <2> QED
    BY <2>2, <2>3, <2>4, <2>5, <2>6, <2>7
<1>2. CASE UNCHANGED vars
  <2>1. /\ lock' = lock /\ type' = type /\ want' = want /\ pos' = pos /\ last' = last /\ pc' = pc
        /\ aborts' = aborts
    BY <1>2 DEF vars
  <2>2. TypeOK' /\ AllCalm' /\ Located' /\ Queued'
    BY <2>1 DEF IInv, TypeOK, AllCalm, Located, LockOf, Queued
  <2>3. AllKeep'
    BY <2>1 DEF IInv, AllKeep, Keeps, LockOf
  <2>4. \A t \in Threads : Call(t)' /\ Role(t)'
    BY <2>1 DEF IInv, Call, Role, Free
  <2> QED
    BY <2>2, <2>3, <2>4 DEF IInv
<1> QED
  BY <1>1, <1>2

\* The lists of the locks are as the types of the locks on them allow, in every
\* state of thr_lock.c's operations.
THEOREM ListsInvariant == Spec => []IInv
<1>1. Init => IInv
  BY InitInv
<1>2. IInv /\ [Next]_vars => IInv'
  BY NextInv
<1> QED
  BY <1>1, <1>2, PTL DEF Spec

\* It implies what check_locks tests.
LEMMA IInvExclusive == IInv => Exclusive
<1> SUFFICES ASSUME IInv, NEW l \in Locks
             PROVE  /\ \A w \in Range(lock[l].write) :
                         /\ \A r \in Range(lock[l].read) : r[1] # w[1] =>
                               /\ type[w] \notin {TL_WRITE_LOW_PRIORITY, TL_WRITE}
                               /\ ~(type[w] = TL_WRITE_CONCURRENT_INSERT /\ type[r] = TL_READ_NO_INSERT)
                         /\ \A v \in Range(lock[l].write) : v[1] # w[1] =>
                               {type[v], type[w]} \subseteq {TL_WRITE_ALLOW_WRITE, TL_WRITE_ONLY}
                    /\ lock[l].noInsert = Cardinality(NoInserts(Range(lock[l].read)))
                    /\ (lock[l].read = <<>> /\ lock[l].write = <<>>) =>
                          (lock[l].readWait = <<>> /\ lock[l].writeWait = <<>>)
  BY DEF Exclusive
<1>1. PICK k : k = lock[l]
  OBVIOUS
<1>2. /\ Kinds(k, type, want) /\ Shared(k, type, want) /\ Count(k, type) /\ Busy(k)
  BY <1>1 DEF IInv, AllCalm, Calm
<1>3. \A w \in Range(k.write) : \A r \in Range(k.read) : r[1] # w[1] =>
         /\ type[w] \notin {TL_WRITE_LOW_PRIORITY, TL_WRITE}
         /\ ~(type[w] = TL_WRITE_CONCURRENT_INSERT /\ type[r] = TL_READ_NO_INSERT)
  BY <1>2 DEF Shared, Goes
<1>4. ASSUME NEW w \in Range(k.write), NEW v \in Range(k.write), v[1] # w[1]
      PROVE  {type[v], type[w]} \subseteq {TL_WRITE_ALLOW_WRITE, TL_WRITE_ONLY}
  <2>1. Asked(want, v).type = TL_WRITE_ALLOW_WRITE /\ Asked(want, w).type = TL_WRITE_ALLOW_WRITE
    BY <1>2, <1>4 DEF Shared
  <2>2. Became(TL_WRITE_ALLOW_WRITE, type[v]) /\ Became(TL_WRITE_ALLOW_WRITE, type[w])
    BY <1>2, <2>1 DEF Kinds, Writes
  <2>3. type[v] \in {TL_WRITE_ALLOW_WRITE, TL_WRITE_ONLY} /\ type[w] \in {TL_WRITE_ALLOW_WRITE, TL_WRITE_ONLY}
    BY <2>2, TypeNumbers DEF Became, TypeValues
  <2> QED
    BY <2>3
<1>5. k.noInsert = Cardinality(NoInserts(Range(k.read)))
  BY <1>2 DEF Count, NoIns, NoInserts
<1>6. (k.read = <<>> /\ k.write = <<>>) => (k.readWait = <<>> /\ k.writeWait = <<>>)
  BY <1>2 DEF Busy, Held
<1> QED
  BY <1>1, <1>3, <1>4, <1>5, <1>6

\* Locks of different threads that are held together go together (check_locks).
THEOREM ExclusiveInvariant == Spec => []Exclusive
  BY ListsInvariant, IInvExclusive, PTL

\* It implies that a handler writes alone.
LEMMA IInvAlone == IInv => HandlerAlone
<1> SUFFICES ASSUME IInv, ~aborts, NEW t \in Handlers, pc[t] = "writing"
             PROVE  /\ <<t, 1>> \in Range(lock[LockOf(<<t, 1>>)].write)
                    /\ lock[LockOf(<<t, 1>>)].read = <<>>
  BY DEF HandlerAlone
<1>1. PICK d, l, k : d = <<t, 1>> /\ l = LockOf(d) /\ k = lock[l]
  OBVIOUS
<1>2. d \in Range(k.write) /\ type[d] = TL_WRITE
  BY <1>1 DEF IInv, AllKeep, Keeps
<1>20. HandlerHas(t, d, l, k)
  BY <1>1, HandlerHere
<1>3. d[1] = t /\ l \in Locks /\ Calm(k, l, type, want)
  BY <1>20 DEF HandlerHas
<1>4. ASSUME NEW r \in Range(k.read) PROVE FALSE
  <2>1. r \in Reads(k) /\ r \in Listed(lock[l])
    BY <1>1 DEF Reads, Listed
  <2>2. r[1] # t
    <3>1. r[1] = t => r \in Writes(k)
      BY <1>1, <1>3, <2>1, HandlerWrites
    <3>2. r \notin Writes(k)
      BY <1>3, <2>1, WaitApart
    <3> QED
      BY <3>1, <3>2
  <2>3. Goes(d, r, type)
    BY <1>2, <1>3 DEF Calm, Shared
  <2> QED
    BY <1>2, <1>3, <2>2, <2>3 DEF Goes
<1>5. k.read \in Seq(Data)
  BY <1>3, LockFields DEF Calm
<1>6. k.read = <<>>
  BY <1>4, <1>5, RangeOf
<1> QED
  BY <1>1, <1>2, <1>6

\* The handler of INSERT DELAYED writes only while it has the table for itself.
THEOREM HandlerAloneInvariant == Spec => []HandlerAlone
  BY ListsInvariant, IInvAlone, PTL
=============================================================================
