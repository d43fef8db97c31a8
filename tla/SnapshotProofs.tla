--------------------------- MODULE SnapshotProofs ---------------------------
(***************************************************************************)
(* Proofs about Snapshot for any number of backends and xids: what a       *)
(* snapshot takes for ended has ended, and is a prefix of the order in     *)
(* which the transactions have ended; every snapshot sees a version of the *)
(* row; and a version that was removed from the index is seen by no one.   *)
(***************************************************************************)
EXTENDS Snapshot, SequenceTheorems, TLAPS

PCs == {"idle", "newxid", "newlock", "run", "xmax", "scan", "oldest", "update", "wait",
        "vacuum", "failed", "exit", "unlock"}

Snapshots == [xmin : Nat, xmax : Nat, xip : SUBSET Nat]
Works == [todo : SUBSET Backends, xmin : Nat, xmax : Nat, xip : SUBSET Nat, oldest : Nat]

Types ==
    /\ nextXid \in Nat \ {0}
    /\ xid \in [Backends -> Nat] /\ xmin \in [Backends -> Nat] /\ myXid \in [Backends -> Nat]
    /\ grant \in [Backends -> [LWLocks -> {"none", "shared", "exclusive"}]]
    /\ pc \in [Backends -> PCs]
    /\ work \in [Backends -> Works]
    /\ firstSnap \in [Backends -> Snapshots] /\ querySnap \in [Backends -> Snapshots]
    /\ exited \in Seq(Nat)

\* Which lightweight locks are held where.
Holding ==
    \A b \in Backends :
        /\ pc[b] \in {"xmax", "scan", "oldest"} => grant[b]["SInvalLock"] # "none"
        /\ pc[b] = "newxid" => grant[b]["XidGenLock"] = "exclusive"

\* Each backend in a transaction has an xid of its own, which it shows in its
\* PGPROC between the store of GetNewTransactionId and its exit.
OwnXids ==
    /\ \A b \in Backends :
          /\ myXid[b] < nextXid
          /\ pc[b] = "idle" <=> myXid[b] = 0
          /\ xid[b] = IF pc[b] \in {"idle", "newxid", "unlock"} THEN 0 ELSE myXid[b]
    /\ \A b, q \in Backends : myXid[b] = myXid[q] /\ myXid[b] # 0 => b = q

\* Every xid that was assigned has ended, once, or is that of a running backend.
Ends ==
    /\ \A i \in 1..Len(exited) :
          /\ exited[i] \in 1..(nextXid - 1)
          /\ \A j \in 1..Len(exited) : exited[i] = exited[j] => i = j
          /\ \A b \in Backends : exited[i] = myXid[b] => pc[b] = "unlock"
    /\ \A x \in 1..(nextXid - 1) :
          \/ \E i \in 1..Len(exited) : exited[i] = x
          \/ \E b \in Backends : myXid[b] = x /\ pc[b] # "unlock"

\* While a backend scans the PGPROCs every other xid below its xmax has ended, or
\* has been found, or is still to be found; and nothing it has found has ended.
Scanning(b) ==
    /\ work[b].xmin <= myXid[b] /\ myXid[b] < work[b].xmax
    /\ \A x \in 1..(work[b].xmax - 1) :
          \/ x = myXid[b]
          \/ \E i \in 1..Len(exited) : exited[i] = x
          \/ x \in work[b].xip /\ work[b].xmin <= x
          \/ \E q \in work[b].todo : xid[q] = x
    /\ \A i \in 1..Len(exited) : exited[i] < work[b].xmax /\ exited[i] \notin work[b].xip

Scans == \A b \in Backends : pc[b] = "scan" => Scanning(b)

\* To a backend's snapshot, the first n transactions have ended, and no others.
Prefix(b, s, n) ==
    \A x \in Nat \ {0, myXid[b]} : EndedFor(s, x) <=> \E i \in 1..n : exited[i] = x

\* Snapshots are used only inside of a transaction, and each is a prefix.
Prefixes ==
    \A b \in Backends :
        /\ pc[b] \in {"idle", "newxid", "newlock", "exit", "unlock"} =>
              firstSnap[b] = NoSnapshot /\ querySnap[b] = NoSnapshot
        /\ \A s \in InUse(b) : \E n \in 0..Len(exited) : Prefix(b, s, n)

Inv == Types /\ Holding /\ OwnXids /\ Ends /\ Scans /\ Prefixes
-----------------------------------------------------------------------------
LEMMA LocksTwo == "SInvalLock" \in LWLocks /\ "XidGenLock" \in LWLocks
BY DEF LWLocks

LEMMA NoSnapshotType == NoSnapshot \in Snapshots
BY DEF NoSnapshot, Snapshots

LEMMA InitInv == Init => Inv
<1> SUFFICES ASSUME Init PROVE Inv
  OBVIOUS
<1>1. NoWork \in Works /\ NoSnapshot \in Snapshots
  BY DEF NoWork, Works, NoSnapshot, Snapshots
<1>2. <<>> \in Seq(Nat) /\ Len(<<>>) = 0
  OBVIOUS
<1>3. Types
  BY <1>1, <1>2 DEF Init, Types, PCs
<1>4. Holding /\ OwnXids /\ Scans
  BY DEF Init, Holding, OwnXids, Scans
<1>5. Ends
  BY <1>2 DEF Init, Ends
<1>6. Prefixes
  BY DEF Init, Prefixes, InUse
<1> QED
  BY <1>3, <1>4, <1>5, <1>6 DEF Inv

\* A lock of one kind is acquired or released.
LEMMA GrantType ==
    ASSUME Types, NEW b \in Backends, NEW l \in LWLocks, NEW m \in {"none", "shared", "exclusive"},
           grant' = [grant EXCEPT ![b][l] = m]
    PROVE  /\ grant' \in [Backends -> [LWLocks -> {"none", "shared", "exclusive"}]]
           /\ grant'[b][l] = m
           /\ \A q \in Backends, k \in LWLocks : q # b \/ k # l => grant'[q][k] = grant[q][k]
BY DEF Types

\* The lock of GetNewTransactionId is acquired or released.
LEMMA GrantXid ==
    ASSUME Types, NEW b \in Backends, NEW m, grant' = [grant EXCEPT ![b]["XidGenLock"] = m]
    PROVE  /\ grant'[b]["XidGenLock"] = m /\ grant'[b]["SInvalLock"] = grant[b]["SInvalLock"]
           /\ \A q \in Backends \ {b} : grant'[q] = grant[q]
BY LocksTwo DEF Types

\* A prefix stays one when another transaction ends.
LEMMA PrefixKept ==
    ASSUME Types, NEW b \in Backends, UNCHANGED myXid[b],
           NEW s, NEW n \in 0..Len(exited), Prefix(b, s, n),
           exited' = exited \/ \E x \in Nat : exited' = Append(exited, x)
    PROVE  n \in 0..Len(exited') /\ Prefix(b, s, n)'
<1>1. Len(exited) \in Nat /\ Len(exited') \in Nat /\ Len(exited) <= Len(exited')
      /\ \A i \in 1..Len(exited) : exited'[i] = exited[i]
  <2>1. exited \in Seq(Nat) /\ Len(exited) \in Nat
    BY DEF Types
  <2>2. CASE exited' = exited
    BY <2>1, <2>2
  <2>3. ASSUME NEW x \in Nat, exited' = Append(exited, x)
        PROVE  Len(exited') = Len(exited) + 1 /\ \A i \in 1..Len(exited) : exited'[i] = exited[i]
    BY <2>1, <2>3, AppendProperties
  <2> QED
    BY <2>1, <2>2, <2>3
<1>2. \A x \in Nat : (\E i \in 1..n : exited'[i] = x) <=> (\E i \in 1..n : exited[i] = x)
  <2>1. \A i \in 1..n : i \in 1..Len(exited)
    BY <1>1
  <2> QED
    BY <1>1, <2>1
<1>3. n \in 0..Len(exited')
  BY <1>1
<1>4. Prefix(b, s, n)'
  BY <1>2 DEF Prefix, EndedFor
<1> QED
  BY <1>3, <1>4

LEMMA SnapshotsKept ==
    ASSUME Types, NEW b \in Backends, UNCHANGED <<myXid[b], firstSnap[b], querySnap[b]>>,
           \A s \in InUse(b) : \E n \in 0..Len(exited) : Prefix(b, s, n),
           exited' = exited \/ \E x \in Nat : exited' = Append(exited, x)
    PROVE  \A s \in InUse(b)' : \E n \in 0..Len(exited') : Prefix(b, s, n)'
<1>1. InUse(b)' = InUse(b)
  BY DEF InUse
<1>2. ASSUME NEW s \in InUse(b)
      PROVE  \E n \in 0..Len(exited') : Prefix(b, s, n)'
  <2>1. PICK n \in 0..Len(exited) : Prefix(b, s, n)
    OBVIOUS
  <2>2. n \in 0..Len(exited') /\ Prefix(b, s, n)'
    BY <2>1, PrefixKept
  <2> QED
    BY <2>2
<1> QED
  BY <1>1, <1>2

\* A step of a backend in a transaction that changes neither the xids nor the
\* snapshots, and is not one of a scan.
Mid == {"newlock", "run", "xmax", "oldest", "update", "wait", "vacuum", "failed"}

LEMMA AsideInv ==
    ASSUME Inv, NEW b \in Backends, NEW l \in Mid \ {"newlock"}, pc[b] \in Mid, pc' = [pc EXCEPT ![b] = l],
           UNCHANGED <<nextXid, xid, myXid, firstSnap, querySnap, exited>>,
           \A q \in Backends \ {b} : work'[q] = work[q]
    PROVE  OwnXids' /\ Ends' /\ Scans' /\ Prefixes' /\ pc' \in [Backends -> PCs]
<1>1. pc \in [Backends -> PCs] /\ pc'[b] = l /\ \A q \in Backends \ {b} : pc'[q] = pc[q]
  BY DEF Inv, Types
<1>2. l \in PCs /\ l \notin {"idle", "newxid", "newlock", "scan", "exit", "unlock"}
      /\ pc[b] \notin {"idle", "newxid", "scan", "exit", "unlock"}
  BY DEF Mid, PCs
<1>3. OwnXids'
  BY <1>1, <1>2 DEF Inv, OwnXids
<1>4. Ends'
  BY <1>1, <1>2 DEF Inv, Ends
<1>5. Scans'
  BY <1>1, <1>2 DEF Inv, Scans, Scanning
<1>6. Prefixes'
  <2>1. \A q \in Backends : \A s \in InUse(q)' : \E n \in 0..Len(exited') : Prefix(q, s, n)'
    BY SnapshotsKept DEF Inv, Prefixes
  <2> QED
    BY <1>1, <1>2, <2>1 DEF Inv, Prefixes
<1>7. pc' \in [Backends -> PCs]
  BY <1>1, <1>2
<1> QED
  BY <1>3, <1>4, <1>5, <1>6, <1>7
-----------------------------------------------------------------------------
(***************************************************************************)
(* Every action keeps the invariant.                                       *)
(***************************************************************************)
LEMMA NewXidInv ==
    ASSUME Inv, NEW b \in Backends, GetNewTransactionId(b)
    PROVE  Inv'
<1>1. /\ pc[b] = "idle" /\ pc' = [pc EXCEPT ![b] = "newxid"]
      /\ grant' = [grant EXCEPT ![b]["XidGenLock"] = "exclusive"]
      /\ myXid' = [myXid EXCEPT ![b] = nextXid] /\ nextXid' = nextXid + 1
      /\ UNCHANGED <<xid, xmin, work, firstSnap, querySnap, exited>>
  BY DEF GetNewTransactionId, Lock!Acquire, Goto, snapVars
<1>2. Types'
  BY <1>1, GrantType, LocksTwo DEF Inv, Types, PCs
<1>3. /\ nextXid \in Nat /\ nextXid # 0 /\ myXid \in [Backends -> Nat] /\ pc \in [Backends -> PCs]
      /\ \A q \in Backends : myXid[q] < nextXid /\ xid[q] \in Nat
      /\ Len(exited) \in Nat /\ myXid[b] = 0 /\ xid[b] = 0
  BY <1>1 DEF Inv, Types, OwnXids
<1>4. Holding'
  <2>1. /\ grant'[b]["XidGenLock"] = "exclusive" /\ grant'[b]["SInvalLock"] = grant[b]["SInvalLock"]
        /\ \A q \in Backends \ {b} : grant'[q] = grant[q]
    BY <1>1, GrantXid DEF Inv
  <2>2. \A q \in Backends : grant'[q]["SInvalLock"] = grant[q]["SInvalLock"]
    BY <2>1
  <2>3. \A q \in Backends \ {b} : grant'[q]["XidGenLock"] = grant[q]["XidGenLock"]
    BY <2>1
  <2>4. pc'[b] = "newxid" /\ \A q \in Backends \ {b} : pc'[q] = pc[q]
    BY <1>1, <1>3
  <2>5. ASSUME NEW q \in Backends \ {b}
        PROVE  /\ pc'[q] \in {"xmax", "scan", "oldest"} => grant'[q]["SInvalLock"] # "none"
               /\ pc'[q] = "newxid" => grant'[q]["XidGenLock"] = "exclusive"
    BY <2>2, <2>3, <2>4 DEF Inv, Holding
  <2>6. /\ pc'[b] \notin {"xmax", "scan", "oldest"}
        /\ pc'[b] = "newxid" => grant'[b]["XidGenLock"] = "exclusive"
    BY <2>1, <2>4
  <2> QED
    BY <2>5, <2>6 DEF Holding
<1>5. OwnXids'
  BY <1>1, <1>3 DEF Inv, OwnXids
<1>6. Ends'
  <2>1. \A i \in 1..Len(exited) : exited[i] \in 1..(nextXid - 1) /\ exited[i] # nextXid
    BY <1>3 DEF Inv, Ends
  <2>2. ASSUME NEW i \in 1..Len(exited), NEW q \in Backends, exited[i] = myXid'[q]
        PROVE  pc'[q] = "unlock"
    BY <1>1, <1>3, <2>1, <2>2 DEF Inv, Ends
  <2>3. ASSUME NEW x \in 1..nextXid
        PROVE  \/ \E i \in 1..Len(exited) : exited[i] = x
               \/ \E q \in Backends : myXid'[q] = x /\ pc'[q] # "unlock"
    <3>1. CASE x = nextXid
      BY <1>1, <1>3, <3>1
    <3>2. CASE x # nextXid
      <4>1. x \in 1..(nextXid - 1) /\ x # 0
        BY <1>3, <3>2
      <4> QED
        BY <1>1, <1>3, <4>1 DEF Inv, Ends
    <3> QED
      BY <3>1, <3>2
  <2>4. nextXid' - 1 = nextXid
    BY <1>1, <1>3
  <2> QED
    <3>1. /\ exited' = exited
          /\ \A i \in 1..Len(exited) : exited[i] \in 1..(nextXid' - 1)
          /\ \A i, j \in 1..Len(exited) : exited[i] = exited[j] => i = j
      BY <1>1, <1>3, <2>1, <2>4 DEF Inv, Ends
    <3> QED
      BY <2>2, <2>3, <2>4, <3>1 DEF Ends
<1>7. Scans'
  BY <1>1, <1>3 DEF Inv, Scans, Scanning
<1>8. Prefixes'
  <2>1. ASSUME NEW q \in Backends \ {b}
        PROVE  \A s \in InUse(q)' : \E n \in 0..Len(exited') : Prefix(q, s, n)'
    BY <1>1, <1>3, SnapshotsKept DEF Inv, Prefixes
  <2>2. firstSnap[b] = NoSnapshot /\ querySnap[b] = NoSnapshot
    BY <1>1 DEF Inv, Prefixes
  <2>3. InUse(b)' = {}
    BY <1>1, <2>2 DEF InUse
  <2> QED
    BY <1>1, <1>3, <2>1, <2>2, <2>3 DEF Inv, Prefixes
<1> QED
  BY <1>2, <1>4, <1>5, <1>6, <1>7, <1>8 DEF Inv

LEMMA StoreInv ==
    ASSUME Inv, NEW b \in Backends, StoreXid(b)
    PROVE  Inv'
<1>1. /\ pc[b] = "newxid" /\ pc' = [pc EXCEPT ![b] = "newlock"]
      /\ grant' = [grant EXCEPT ![b]["XidGenLock"] = "none"]
      /\ xid' = [xid EXCEPT ![b] = myXid[b]]
      /\ UNCHANGED <<nextXid, xmin, myXid, work, firstSnap, querySnap, exited>>
  BY DEF StoreXid, Lock!Release, Goto, snapVars, xactVars
<1>2. Types'
  BY <1>1, GrantType, LocksTwo DEF Inv, Types, PCs
<1>3. xid \in [Backends -> Nat] /\ myXid \in [Backends -> Nat] /\ pc \in [Backends -> PCs] /\ xid[b] = 0
  BY <1>1 DEF Inv, Types, OwnXids
<1>4. Holding'
  <2>1. /\ grant'[b]["XidGenLock"] = "none" /\ grant'[b]["SInvalLock"] = grant[b]["SInvalLock"]
        /\ \A q \in Backends \ {b} : grant'[q] = grant[q]
    BY <1>1, GrantXid DEF Inv
  <2>2. \A q \in Backends : grant'[q]["SInvalLock"] = grant[q]["SInvalLock"]
    BY <2>1
  <2>3. \A q \in Backends \ {b} : grant'[q]["XidGenLock"] = grant[q]["XidGenLock"]
    BY <2>1
  <2>4. pc'[b] = "newlock" /\ \A q \in Backends \ {b} : pc'[q] = pc[q]
    BY <1>1, <1>3
  <2>5. ASSUME NEW q \in Backends \ {b}
        PROVE  /\ pc'[q] \in {"xmax", "scan", "oldest"} => grant'[q]["SInvalLock"] # "none"
               /\ pc'[q] = "newxid" => grant'[q]["XidGenLock"] = "exclusive"
    BY <2>2, <2>3, <2>4 DEF Inv, Holding
  <2>6. /\ pc'[b] \notin {"xmax", "scan", "oldest"}
        /\ pc'[b] = "newxid" => grant'[b]["XidGenLock"] = "exclusive"
    BY <2>1, <2>4
  <2> QED
    BY <2>5, <2>6 DEF Holding
<1>5. OwnXids'
  BY <1>1, <1>3 DEF Inv, OwnXids
<1>6. Ends'
  <2>1. \A q \in Backends : pc'[q] = "unlock" <=> pc[q] = "unlock"
    BY <1>1, <1>3
  <2>2. nextXid' = nextXid /\ exited' = exited /\ myXid' = myXid
    BY <1>1
  <2>3. Ends
    BY DEF Inv
  <2> QED
    BY <2>1, <2>2, <2>3 DEF Ends
<1>7. Scans'
  <2>1. \A q \in Backends, x \in Nat : x # 0 /\ xid[q] = x => xid'[q] = x
    BY <1>1, <1>3
  <2>2. \A q \in Backends : pc'[q] = "scan" => pc[q] = "scan"
    BY <1>1, <1>3
  <2>3. \A q \in Backends : work[q] \in Works
    BY DEF Inv, Types
  <2> QED
    BY <1>1, <2>1, <2>2, <2>3 DEF Inv, Scans, Scanning, Works
<1>8. Prefixes'
  <2>1. \A q \in Backends : \A s \in InUse(q)' : \E n \in 0..Len(exited') : Prefix(q, s, n)'
    BY <1>1, SnapshotsKept DEF Inv, Prefixes
  <2> QED
    BY <1>1, <1>3, <2>1 DEF Inv, Prefixes
<1> QED
  BY <1>2, <1>4, <1>5, <1>6, <1>7, <1>8 DEF Inv

\* xmax is read: no backend is between its xid's assignment and its store, so that
\* every xid below xmax has ended or is in a PGPROC.
LEMMA ReadInv ==
    ASSUME Inv, NEW b \in Backends, ReadNewTransactionId(b)
    PROVE  Inv'
<1> DEFINE w == [todo |-> Backends \ {b}, xmin |-> myXid[b], xmax |-> nextXid, xip |-> {},
                 oldest |-> myXid[b]]
<1>1. /\ pc[b] = "xmax" /\ pc' = [pc EXCEPT ![b] = "scan"] /\ work' = [work EXCEPT ![b] = w]
      /\ UNCHANGED <<nextXid, xid, xmin, grant, myXid, firstSnap, querySnap, exited>>
      /\ \A q \in Backends \ {b} : grant[q]["XidGenLock"] # "exclusive"
  BY DEF ReadNewTransactionId, Lock!Compatible, Goto, clockVars, xactVars
<1>2. /\ nextXid \in Nat \ {0} /\ myXid \in [Backends -> Nat] /\ pc \in [Backends -> PCs]
      /\ work \in [Backends -> Works] /\ exited \in Seq(Nat)
  BY DEF Inv, Types
<1>3. /\ pc'[b] = "scan" /\ \A q \in Backends \ {b} : pc'[q] = pc[q] /\ work'[q] = work[q]
      /\ work'[b] = w
  BY <1>1, <1>2
<1>4. Types'
  <2>1. w \in Works
    BY <1>2 DEF Works
  <2> QED
    BY <1>1, <1>2, <2>1 DEF Inv, Types, PCs
<1>5. Holding' /\ OwnXids' /\ Ends'
  BY <1>1, <1>3 DEF Inv, Holding, OwnXids, Ends
<1>6. Scanning(b)'
  <2>1. myXid[b] < nextXid
    BY DEF Inv, OwnXids
  <2>2. ASSUME NEW x \in 1..(nextXid - 1), x # myXid[b], \A i \in 1..Len(exited) : exited[i] # x
        PROVE  \E q \in Backends \ {b} : xid[q] = x
    <3>1. PICK q \in Backends : myXid[q] = x /\ pc[q] # "unlock"
      BY <2>2 DEF Inv, Ends
    <3>2. x # 0 /\ q # b
      BY <1>2, <2>2, <3>1
    <3>3. pc[q] # "newxid"
      BY <1>1, <3>2 DEF Inv, Holding
    <3>4. pc[q] # "idle"
      BY <3>1, <3>2 DEF Inv, OwnXids
    <3>5. xid[q] = x
      BY <3>1, <3>3, <3>4 DEF Inv, OwnXids
    <3> QED
      BY <3>2, <3>5
  <2>3. \A i \in 1..Len(exited) : exited[i] < nextXid /\ exited[i] \notin {}
    BY <1>2 DEF Inv, Ends
  <2>4. w.todo = Backends \ {b} /\ w.xmin = myXid[b] /\ w.xmax = nextXid /\ w.xip = {}
    OBVIOUS
  <2>5. work'[b].todo = Backends \ {b} /\ work'[b].xmin = myXid[b] /\ work'[b].xmax = nextXid
        /\ work'[b].xip = {} /\ myXid[b] <= myXid[b]
    BY <1>2, <1>3, <2>4
  <2> HIDE DEF w
  <2>6. /\ work'[b].xmin <= myXid'[b] /\ myXid'[b] < work'[b].xmax
        /\ \A i \in 1..Len(exited') : exited'[i] < work'[b].xmax /\ exited'[i] \notin work'[b].xip
    BY <1>1, <2>1, <2>3, <2>5
  <2>7. ASSUME NEW x \in 1..(work'[b].xmax - 1)
        PROVE  \/ x = myXid'[b]
               \/ \E i \in 1..Len(exited') : exited'[i] = x
               \/ \E q \in work'[b].todo : xid'[q] = x
    <3>1. x \in 1..(nextXid - 1)
      BY <2>5
    <3> QED
      BY <1>1, <2>2, <2>5, <3>1
  <2> QED
    BY <2>6, <2>7 DEF Scanning
<1>7. Scans'
  BY <1>1, <1>3, <1>6 DEF Inv, Scans, Scanning
<1>8. Prefixes'
  <2>1. \A q \in Backends : \A s \in InUse(q)' : \E n \in 0..Len(exited') : Prefix(q, s, n)'
    BY <1>1, SnapshotsKept DEF Inv, Prefixes
  <2> QED
    BY <1>1, <1>3, <2>1 DEF Inv, Prefixes
<1> QED
  BY <1>4, <1>5, <1>7, <1>8 DEF Inv

\* One PGPROC is read: what it shows, if it is below xmax, is found.
LEMMA ScanInv ==
    ASSUME Inv, NEW b \in Backends, NEW q \in Backends, ScanProc(b, q)
    PROVE  Inv'
<1> DEFINE w == work[b]
           v == work'[b]
           found == xid[q] # 0 /\ xid[q] < w.xmax
<1>1. /\ pc[b] = "scan" /\ q \in w.todo
      /\ UNCHANGED <<nextXid, xid, xmin, grant, pc, myXid, firstSnap, querySnap, exited>>
  BY DEF ScanProc, clockVars, xactVars
<1>2. /\ xid \in [Backends -> Nat] /\ xmin \in [Backends -> Nat] /\ myXid \in [Backends -> Nat]
      /\ work \in [Backends -> Works] /\ w \in Works /\ exited \in Seq(Nat)
  BY DEF Inv, Types
<1>3. /\ w.xmin \in Nat /\ w.xmax \in Nat /\ w.xip \in SUBSET Nat /\ w.oldest \in Nat
      /\ w.todo \in SUBSET Backends /\ xid[q] \in Nat /\ xmin[q] \in Nat
  BY <1>2 DEF Works
<1>4. /\ v \in Works /\ \A r \in Backends \ {b} : work'[r] = work[r]
      /\ v.todo = w.todo \ {q} /\ v.xmax = w.xmax
      /\ found => v.xmin = Lesser(w.xmin, xid[q]) /\ v.xip = w.xip \union {xid[q]}
      /\ ~found => v.xmin = w.xmin /\ v.xip = w.xip
      /\ work' \in [Backends -> Works]
  <2> DEFINE u == [w EXCEPT !.todo = @ \ {q}]
             t == [u EXCEPT !.xmin = Lesser(@, xid[q]), !.xip = @ \union {xid[q]},
                            !.oldest = IF xmin[q] = 0 THEN @ ELSE Lesser(@, xmin[q])]
  <2>1. work' = [work EXCEPT ![b] = IF xid[q] = 0 \/ xid[q] >= w.xmax THEN u ELSE t]
    BY DEF ScanProc
  <2>2. u \in Works /\ u.todo = w.todo \ {q} /\ u.xmax = w.xmax /\ u.xmin = w.xmin /\ u.xip = w.xip
        /\ u.oldest = w.oldest
    BY <1>2 DEF Works
  <2> HIDE DEF u
  <2>3. t \in Works /\ t.todo = u.todo /\ t.xmax = u.xmax
        /\ t.xmin = Lesser(u.xmin, xid[q]) /\ t.xip = u.xip \union {xid[q]}
    BY <1>3, <2>2 DEF Works, Lesser
  <2> HIDE DEF t
  <2>4. v = IF found THEN t ELSE u
    BY <1>2, <1>3, <2>1
  <2> QED
    BY <1>2, <2>1, <2>2, <2>3, <2>4
<1> HIDE DEF v
<1>5. Types'
  BY <1>1, <1>4 DEF Inv, Types
<1>6. Holding' /\ OwnXids' /\ Ends'
  BY <1>1 DEF Inv, Holding, OwnXids, Ends
<1>7. Scanning(b)
  BY <1>1 DEF Inv, Scans
<1>8. /\ v.xmin \in Nat /\ v.xmin <= w.xmin /\ w.xip \subseteq v.xip
      /\ found => xid[q] \in v.xip /\ v.xmin <= xid[q]
  BY <1>3, <1>4 DEF Lesser
<1>9. Scanning(b)'
  <2>1. v.xmin <= myXid[b] /\ myXid[b] < v.xmax
    BY <1>2, <1>3, <1>4, <1>7, <1>8 DEF Scanning
  <2>2. ASSUME NEW x \in 1..(v.xmax - 1)
        PROVE  \/ x = myXid[b]
               \/ \E i \in 1..Len(exited) : exited[i] = x
               \/ x \in v.xip /\ v.xmin <= x
               \/ \E r \in v.todo : xid[r] = x
    <3>1. CASE x \in w.xip /\ w.xmin <= x
      BY <1>3, <1>8, <3>1
    <3>2. CASE \E r \in w.todo : xid[r] = x
      <4>1. CASE xid[q] = x
        BY <1>3, <1>4, <1>8, <4>1
      <4> QED
        BY <1>4, <3>2, <4>1
    <3> QED
      BY <1>4, <1>7, <3>1, <3>2 DEF Scanning
  <2>3. ASSUME NEW i \in 1..Len(exited)
        PROVE  exited[i] < v.xmax /\ exited[i] \notin v.xip
    <3>1. exited[i] < w.xmax /\ exited[i] \notin w.xip
      BY <1>7 DEF Scanning
    <3>2. exited[i] # xid[q] \/ ~found
      BY DEF Inv, Ends, OwnXids
    <3> QED
      BY <1>4, <3>1, <3>2
  <2> QED
    BY <1>1, <2>1, <2>2, <2>3 DEF Scanning, v
<1>10. Scans'
  BY <1>1, <1>4, <1>9 DEF Inv, Scans, Scanning
<1>11. Prefixes'
  <2>1. \A r \in Backends : \A s \in InUse(r)' : \E n \in 0..Len(exited') : Prefix(r, s, n)'
    BY <1>1, SnapshotsKept DEF Inv, Prefixes
  <2> QED
    BY <1>1, <2>1 DEF Inv, Prefixes
<1> QED
  BY <1>5, <1>6, <1>10, <1>11 DEF Inv

\* All PGPROCs have been read: exactly the transactions that have ended so far
\* have ended to the snapshot.
LEMMA EndInv ==
    ASSUME Inv, NEW b \in Backends, EndSnapshot(b)
    PROVE  Inv'
<1> DEFINE w == work[b]
           s == [xmin |-> w.xmin, xmax |-> w.xmax, xip |-> w.xip]
<1>1. /\ pc[b] = "scan" /\ w.todo = {} /\ pc' = [pc EXCEPT ![b] = "run"]
      /\ querySnap' = [querySnap EXCEPT ![b] = s]
      /\ firstSnap' = [firstSnap EXCEPT ![b] = IF First(b) THEN s ELSE @]
      /\ xmin' = [xmin EXCEPT ![b] = IF First(b) THEN s.xmin ELSE @]
      /\ grant' = [grant EXCEPT ![b]["SInvalLock"] = "none"]
      /\ work' = [work EXCEPT ![b] = NoWork]
      /\ UNCHANGED <<nextXid, xid, myXid, exited>>
  BY DEF EndSnapshot, Lock!Release, Goto, xactVars
<1>2. /\ work \in [Backends -> Works] /\ w \in Works /\ pc \in [Backends -> PCs]
      /\ firstSnap \in [Backends -> Snapshots] /\ querySnap \in [Backends -> Snapshots]
      /\ xmin \in [Backends -> Nat] /\ exited \in Seq(Nat) /\ Len(exited) \in Nat
      /\ myXid[b] \in Nat
  BY DEF Inv, Types
<1>3. /\ s \in Snapshots /\ s.xmin = w.xmin /\ s.xmax = w.xmax /\ s.xip = w.xip
      /\ w.xmin \in Nat /\ w.xmax \in Nat
  BY <1>2 DEF Works, Snapshots
<1> HIDE DEF s
<1>4. NoWork \in Works
  BY DEF NoWork, Works
<1>5. /\ pc'[b] = "run" /\ \A q \in Backends \ {b} : pc'[q] = pc[q] /\ work'[q] = work[q]
  BY <1>1, <1>2
<1>6. Types'
  <2>1. xmin' \in [Backends -> Nat]
    BY <1>1, <1>2, <1>3
  <2>2. firstSnap' \in [Backends -> Snapshots] /\ querySnap' \in [Backends -> Snapshots]
    BY <1>1, <1>2, <1>3
  <2>3. work' \in [Backends -> Works] /\ pc' \in [Backends -> PCs]
    BY <1>1, <1>2, <1>4 DEF PCs
  <2> QED
    BY <1>1, <2>1, <2>2, <2>3, GrantType, LocksTwo DEF Inv, Types
<1>7. Holding'
  BY <1>1, <1>5, GrantType, LocksTwo DEF Inv, Holding
<1>8. OwnXids' /\ Ends'
  BY <1>1, <1>5 DEF Inv, OwnXids, Ends
<1>9. Scans'
  BY <1>1, <1>5 DEF Inv, Scans, Scanning
<1>10. Prefix(b, s, Len(exited))
  <2>1. Scanning(b)
    BY <1>1 DEF Inv, Scans
  <2>2. ASSUME NEW x \in Nat \ {0, myXid[b]}
        PROVE  EndedFor(s, x) <=> \E i \in 1..Len(exited) : exited[i] = x
    <3>1. w.xmin <= w.xmax
      BY <1>2, <1>3, <2>1 DEF Scanning
    <3>2. x < w.xmax => \/ \E i \in 1..Len(exited) : exited[i] = x
                        \/ x \in w.xip /\ w.xmin <= x
      BY <1>1, <1>3, <2>1 DEF Scanning
    <3>3. \A i \in 1..Len(exited) : exited[i] < w.xmax /\ exited[i] \notin w.xip
      BY <2>1 DEF Scanning
    <3> QED
      BY <1>3, <3>1, <3>2, <3>3 DEF EndedFor
  <2> QED
    BY <2>2 DEF Prefix
<1>11. Prefixes'
  <2>1. ASSUME NEW q \in Backends \ {b}
        PROVE  \A r \in InUse(q)' : \E n \in 0..Len(exited') : Prefix(q, r, n)'
    <3>1. UNCHANGED <<myXid[q], firstSnap[q], querySnap[q]>>
      BY <1>1, <1>2
    <3> QED
      BY <1>1, <3>1, SnapshotsKept DEF Inv, Prefixes
  <2>2. ASSUME NEW r \in InUse(b)'
        PROVE  \E n \in 0..Len(exited') : Prefix(b, r, n)'
    <3>1. r \in InUse(b) \/ r = s
      BY <1>1, <1>2, <2>2 DEF InUse, First
    <3>2. PICK n \in 0..Len(exited) : Prefix(b, r, n)
      BY <1>2, <1>10, <3>1 DEF Inv, Prefixes
    <3> QED
      BY <1>1, <3>2, PrefixKept DEF Inv
  <2> QED
    BY <1>1, <1>2, <1>5, <2>1, <2>2 DEF Inv, Prefixes
<1> QED
  BY <1>6, <1>7, <1>8, <1>9, <1>11 DEF Inv

\* The steps of a transaction outside of the scan of GetSnapshotData.
LEMMA AsideKept ==
    ASSUME Inv, NEW b \in Backends, NEW l \in Mid \ {"newlock"}, pc[b] \in Mid,
           pc' = [pc EXCEPT ![b] = l], NEW m \in {"none", "shared", "exclusive"},
           \/ grant' = grant /\ l = "oldest" /\ pc[b] = "oldest"
           \/ grant' = grant /\ l \notin {"xmax", "oldest"}
           \/ /\ grant' = [grant EXCEPT ![b]["SInvalLock"] = m]
              /\ l \in {"xmax", "oldest"} => m # "none",
           UNCHANGED <<nextXid, xid, xmin, myXid, firstSnap, querySnap, exited>>,
           NEW v \in Works, work' = work \/ work' = [work EXCEPT ![b] = v]
    PROVE  Inv'
<1>1. work \in [Backends -> Works] /\ pc \in [Backends -> PCs]
  BY DEF Inv, Types
<1>2. work' \in [Backends -> Works] /\ \A q \in Backends \ {b} : work'[q] = work[q]
  BY <1>1
<1>3. OwnXids' /\ Ends' /\ Scans' /\ Prefixes' /\ pc' \in [Backends -> PCs]
  BY <1>2, AsideInv
<1>4. /\ grant' \in [Backends -> [LWLocks -> {"none", "shared", "exclusive"}]]
      /\ \A q \in Backends \ {b} : grant'[q]["SInvalLock"] = grant[q]["SInvalLock"]
      /\ \A q \in Backends : grant'[q]["XidGenLock"] = grant[q]["XidGenLock"]
      /\ l \in {"xmax", "oldest"} => grant'[b]["SInvalLock"] # "none"
  <2>1. CASE grant' = grant
    BY <2>1, LocksTwo DEF Inv, Types, Holding
  <2>2. CASE grant' = [grant EXCEPT ![b]["SInvalLock"] = m] /\ (l \in {"xmax", "oldest"} => m # "none")
    <3>1. /\ grant' \in [Backends -> [LWLocks -> {"none", "shared", "exclusive"}]]
          /\ grant'[b]["SInvalLock"] = m
          /\ \A q \in Backends, k \in LWLocks :
                q # b \/ k # "SInvalLock" => grant'[q][k] = grant[q][k]
      BY <2>2, LocksTwo DEF Inv, Types
    <3> QED
      BY <2>2, <3>1, LocksTwo
  <2> QED
    BY <2>1, <2>2
<1>5. Types'
  BY <1>2, <1>3, <1>4 DEF Inv, Types
<1>6. Holding'
  <2>1. l # "scan" /\ l # "newxid"
    BY DEF Mid
  <2> QED
    BY <1>1, <1>4, <2>1 DEF Inv, Holding
<1> QED
  BY <1>3, <1>5, <1>6 DEF Inv

LEMMA AsideSteps ==
    ASSUME Inv, NEW b \in Backends,
           \/ XactLockTableInsert(b) \/ ExamineVersion(b) \/ XactLockTableWait(b)
           \/ VacuumVersion(b)
           \/ \E x \in Xids : ChooseVersion(b, x) \/ VacuumPage(b, x) \/ KillPriorTuple(b, x)
    PROVE  Inv'
<1> USE DEF Goto, BackToQuery, clockVars, xactVars, snapVars
<1>1. NoWork \in Works /\ pc \in [Backends -> PCs]
  BY DEF NoWork, Works, Inv, Types
<1>2. ASSUME NEW l \in {"run", "update", "wait", "vacuum", "failed"},
             pc[b] \in Mid, pc' = [pc EXCEPT ![b] = l],
             UNCHANGED <<grant, nextXid, xid, xmin, myXid, firstSnap, querySnap, exited, work>>
      PROVE  Inv'
  BY <1>1, <1>2, AsideKept DEF Mid
<1>3. CASE XactLockTableInsert(b)
  BY <1>2, <1>3 DEF XactLockTableInsert, Mid
<1>4. CASE ExamineVersion(b)
  <2>1. pc[b] = "update"
        /\ UNCHANGED <<grant, nextXid, xid, xmin, myXid, firstSnap, querySnap, exited, work>>
    BY <1>4 DEF ExamineVersion
  <2>2. \E l \in {"run", "update", "wait", "failed"} : pc' = [pc EXCEPT ![b] = l]
    <3>1. pc = [pc EXCEPT ![b] = "update"]
      BY <1>1, <2>1
    <3> QED
      BY <1>4, <3>1 DEF ExamineVersion, NothingToDo, Update, MarkForUpdate, FollowUpdate, WaitForUpdate
  <2> QED
    BY <1>2, <2>1, <2>2 DEF Mid
<1>5. CASE XactLockTableWait(b)
  BY <1>2, <1>5 DEF XactLockTableWait, Mid
<1>6. CASE VacuumVersion(b)
  BY <1>2, <1>6 DEF VacuumVersion, Mid
<1>7. ASSUME NEW x \in Xids, ChooseVersion(b, x) PROVE Inv'
  BY <1>2, <1>7 DEF ChooseVersion, Mid
<1>8. ASSUME NEW x \in Xids, VacuumPage(b, x) PROVE Inv'
  BY <1>2, <1>8 DEF VacuumPage, Mid
<1>9. ASSUME NEW x \in Xids, KillPriorTuple(b, x) PROVE Inv'
  <2>1. pc = [pc EXCEPT ![b] = "run"]
    BY <1>1, <1>9 DEF KillPriorTuple
  <2> QED
    BY <1>2, <1>9, <2>1 DEF KillPriorTuple, Mid
<1> QED
  BY <1>3, <1>4, <1>5, <1>6, <1>7, <1>8, <1>9

\* The calls that take SInvalLock, and the scan of GetOldestXmin.
LEMMA OldestInv ==
    ASSUME Inv, NEW b \in Backends,
           \/ SetQuerySnapshot(b) \/ GetOldestXmin(b) \/ EndOldest(b)
           \/ \E q \in Backends : ScanOldest(b, q)
    PROVE  Inv'
<1> USE DEF Goto, clockVars, xactVars, snapVars
<1>1. /\ NoWork \in Works /\ pc \in [Backends -> PCs] /\ work \in [Backends -> Works]
      /\ xid \in [Backends -> Nat] /\ xmin \in [Backends -> Nat] /\ myXid \in [Backends -> Nat]
  BY DEF NoWork, Works, Inv, Types
<1>2. CASE SetQuerySnapshot(b)
  <2>1. PICK m \in {"shared", "exclusive"} : grant' = [grant EXCEPT ![b]["SInvalLock"] = m]
    BY <1>2 DEF SetQuerySnapshot, Lock!Acquire
  <2> QED
    BY <1>1, <1>2, <2>1, AsideKept DEF SetQuerySnapshot, Mid
<1>3. CASE GetOldestXmin(b)
  <2>1. [NoWork EXCEPT !.todo = Backends, !.oldest = myXid[b]] \in Works
    BY <1>1 DEF Works
  <2> QED
    BY <1>1, <1>3, <2>1, AsideKept DEF GetOldestXmin, Lock!Acquire, Mid
<1>4. CASE EndOldest(b)
  <2>1. /\ pc[b] = "oldest" /\ pc' = [pc EXCEPT ![b] = "run"]
        /\ grant' = [grant EXCEPT ![b]["SInvalLock"] = "none"]
        /\ work' = [work EXCEPT ![b] = NoWork]
        /\ UNCHANGED <<nextXid, xid, xmin, myXid, firstSnap, querySnap, exited>>
    BY <1>4 DEF EndOldest, Lock!Release
  <2>2. "oldest" \in Mid /\ "run" \in Mid \ {"newlock"} /\ "run" \notin {"xmax", "oldest"}
    BY DEF Mid
  <2> QED
    BY <1>1, <2>1, <2>2, AsideKept
<1>5. ASSUME NEW q \in Backends, ScanOldest(b, q) PROVE Inv'
  <2> DEFINE v == [work[b] EXCEPT !.todo = @ \ {q}, !.oldest = OldestOf(q, @)]
  <2>1. OldestOf(q, work[b].oldest) \in Nat
    BY <1>1 DEF OldestOf, Lesser, Works
  <2>2. v \in Works
    BY <1>1, <2>1 DEF Works
  <2>3. work' = [work EXCEPT ![b] = v]
    BY <1>1, <1>5 DEF ScanOldest, Works
  <2> HIDE DEF v
  <2>4. pc[b] = "oldest" /\ pc = [pc EXCEPT ![b] = "oldest"]
        /\ UNCHANGED <<grant, pc, nextXid, xid, xmin, myXid, firstSnap, querySnap, exited>>
    BY <1>1, <1>5 DEF ScanOldest
  <2> QED
    BY <2>2, <2>3, <2>4, AsideKept DEF Mid
<1> QED
  BY <1>2, <1>3, <1>4, <1>5

\* A transaction's outcome is recorded; its snapshots are given up.
LEMMA RecordInv ==
    ASSUME Inv, NEW b \in Backends, RecordTransactionCommit(b) \/ RecordTransactionAbort(b)
    PROVE  Inv'
<1>1. /\ pc[b] \in {"run", "failed"} /\ pc' = [pc EXCEPT ![b] = "exit"]
      /\ firstSnap' = [firstSnap EXCEPT ![b] = NoSnapshot]
      /\ querySnap' = [querySnap EXCEPT ![b] = NoSnapshot]
      /\ UNCHANGED <<nextXid, xid, xmin, grant, myXid, work, exited>>
  BY DEF RecordTransactionCommit, RecordTransactionAbort, Record, ForgetSnapshots, Goto, clockVars, xactVars
<1>2. /\ pc \in [Backends -> PCs]
      /\ firstSnap \in [Backends -> Snapshots] /\ querySnap \in [Backends -> Snapshots]
  BY DEF Inv, Types
<1>3. pc'[b] = "exit" /\ \A q \in Backends \ {b} : pc'[q] = pc[q]
  BY <1>1, <1>2
<1>4. Types'
  BY <1>1, <1>2, NoSnapshotType DEF Inv, Types, PCs
<1>5. Holding' /\ OwnXids' /\ Ends' /\ Scans'
  BY <1>1, <1>3 DEF Inv, Holding, OwnXids, Ends, Scans, Scanning
<1>6. Prefixes'
  <2>1. ASSUME NEW q \in Backends \ {b}
        PROVE  /\ UNCHANGED <<firstSnap[q], querySnap[q], pc[q]>>
               /\ \A s \in InUse(q)' : \E n \in 0..Len(exited') : Prefix(q, s, n)'
    <3>1. UNCHANGED <<myXid[q], firstSnap[q], querySnap[q], pc[q]>>
      BY <1>1, <1>2, <1>3
    <3> QED
      BY <1>1, <3>1, SnapshotsKept DEF Inv, Prefixes
  <2>2. firstSnap'[b] = NoSnapshot /\ querySnap'[b] = NoSnapshot
    BY <1>1, <1>2
  <2>3. InUse(b)' = {}
    BY <2>2 DEF InUse
  <2> QED
    BY <2>1, <2>2, <2>3 DEF Inv, Prefixes
<1> QED
  BY <1>4, <1>5, <1>6 DEF Inv

\* A transaction leaves the PGPROCs: SInvalLock keeps it out of every scan.
LEMMA LeaveInv ==
    ASSUME Inv, NEW b \in Backends, LeaveProcArray(b)
    PROVE  Inv'
<1>1. /\ pc[b] = "exit" /\ pc' = [pc EXCEPT ![b] = "unlock"]
      /\ xid' = [xid EXCEPT ![b] = 0] /\ xmin' = [xmin EXCEPT ![b] = 0]
      /\ exited' = Append(exited, myXid[b])
      /\ UNCHANGED <<nextXid, grant, myXid, work, firstSnap, querySnap>>
  BY DEF LeaveProcArray, Goto, snapVars, xactVars
<1>2. /\ pc \in [Backends -> PCs] /\ xid \in [Backends -> Nat] /\ xmin \in [Backends -> Nat]
      /\ myXid \in [Backends -> Nat] /\ exited \in Seq(Nat) /\ Len(exited) \in Nat
      /\ nextXid \in Nat \ {0}
  BY DEF Inv, Types
<1>3. pc'[b] = "unlock" /\ xid'[b] = 0
      /\ \A q \in Backends \ {b} : pc'[q] = pc[q] /\ xid'[q] = xid[q]
  BY <1>1, <1>2
<1>4. /\ exited' \in Seq(Nat) /\ Len(exited') = Len(exited) + 1
      /\ \A i \in 1..Len(exited) : exited'[i] = exited[i]
      /\ exited'[Len(exited) + 1] = myXid[b]
  BY <1>1, <1>2, AppendProperties
<1>5. \A q \in Backends : pc[q] # "scan"
  <2>1. \A q \in Backends \ {b} : grant[q]["SInvalLock"] = "none"
    BY DEF LeaveProcArray, Lock!Compatible
  <2> QED
    BY <1>1, <2>1 DEF Inv, Holding
<1>6. Types'
  BY <1>1, <1>2, <1>4 DEF Inv, Types, PCs
<1>7. Holding'
  BY <1>1, <1>3 DEF Inv, Holding
<1>8. OwnXids'
  BY <1>1, <1>3 DEF Inv, OwnXids
<1>9. Ends'
  <2>1. myXid[b] \in 1..(nextXid - 1)
    BY <1>1, <1>2 DEF Inv, OwnXids
  <2>2. \A i \in 1..Len(exited) : exited[i] # myXid[b]
    BY <1>1 DEF Inv, Ends
  <2>3. ASSUME NEW i \in 1..Len(exited')
        PROVE  \/ i \in 1..Len(exited) /\ exited'[i] = exited[i]
               \/ i = Len(exited) + 1 /\ exited'[i] = myXid[b]
    BY <1>2, <1>4
  <2>4. ASSUME NEW i \in 1..Len(exited'), NEW j \in 1..Len(exited'), exited'[i] = exited'[j]
        PROVE  i = j
    BY <2>2, <2>3, <2>4 DEF Inv, Ends
  <2>5. ASSUME NEW i \in 1..Len(exited'), NEW q \in Backends, exited'[i] = myXid[q]
        PROVE  pc'[q] = "unlock"
    <3>1. CASE q = b
      BY <1>3, <3>1
    <3>2. CASE q # b
      <4>1. exited'[i] # myXid[b]
        BY <2>1, <2>5, <3>2 DEF Inv, OwnXids
      <4> QED
        BY <1>3, <2>3, <2>5, <3>2, <4>1 DEF Inv, Ends
    <3> QED
      BY <3>1, <3>2
  <2>6. \A i \in 1..Len(exited') : exited'[i] \in 1..(nextXid - 1)
    BY <2>1, <2>3 DEF Inv, Ends
  <2>7. ASSUME NEW x \in 1..(nextXid - 1)
        PROVE  \/ \E i \in 1..Len(exited') : exited'[i] = x
               \/ \E q \in Backends : myXid[q] = x /\ pc'[q] # "unlock"
    <3>1. CASE x = myXid[b]
      <4>1. Len(exited) + 1 \in 1..Len(exited') /\ exited'[Len(exited) + 1] = x
        BY <1>2, <1>4, <3>1
      <4> QED
        BY <4>1
    <3>2. CASE \E i \in 1..Len(exited) : exited[i] = x
      <4>1. \A i \in 1..Len(exited) : i \in 1..Len(exited')
        BY <1>2, <1>4
      <4> QED
        BY <1>4, <3>2, <4>1
    <3>3. CASE x # myXid[b] /\ \E q \in Backends : myXid[q] = x /\ pc[q] # "unlock"
      BY <1>3, <3>3
    <3> QED
      BY <3>1, <3>2, <3>3 DEF Inv, Ends
  <2> QED
    BY <1>1, <2>4, <2>5, <2>6, <2>7 DEF Ends
<1>10. Scans'
  BY <1>3, <1>5 DEF Scans
<1>11. Prefixes'
  <2>1. \A q \in Backends : \A s \in InUse(q)' : \E n \in 0..Len(exited') : Prefix(q, s, n)'
    <3>1. exited' = exited \/ \E x \in Nat : exited' = Append(exited, x)
      BY <1>1, <1>2
    <3> QED
      BY <1>1, <3>1, SnapshotsKept DEF Inv, Prefixes
  <2> QED
    BY <1>1, <1>3, <2>1 DEF Inv, Prefixes
<1> QED
  BY <1>6, <1>7, <1>8, <1>9, <1>10, <1>11 DEF Inv

LEMMA ReleaseInv ==
    ASSUME Inv, NEW b \in Backends, ReleaseLocks(b)
    PROVE  Inv'
<1>1. /\ pc[b] = "unlock" /\ pc' = [pc EXCEPT ![b] = "idle"]
      /\ myXid' = [myXid EXCEPT ![b] = 0]
      /\ UNCHANGED <<nextXid, xid, xmin, grant, work, firstSnap, querySnap, exited>>
  BY DEF ReleaseLocks, Goto, snapVars
<1>2. /\ pc \in [Backends -> PCs] /\ myXid \in [Backends -> Nat] /\ xid[b] = 0
      /\ nextXid \in Nat \ {0} /\ Len(exited) \in Nat
  BY <1>1 DEF Inv, Types, OwnXids
<1>3. /\ pc'[b] = "idle" /\ myXid'[b] = 0
      /\ \A q \in Backends \ {b} : pc'[q] = pc[q] /\ myXid'[q] = myXid[q]
  BY <1>1, <1>2
<1>4. Types'
  BY <1>1, <1>2 DEF Inv, Types, PCs
<1>5. Holding'
  BY <1>1, <1>3 DEF Inv, Holding
<1>6. OwnXids'
  BY <1>1, <1>2, <1>3 DEF Inv, OwnXids
<1>7. Ends'
  <2>1. ASSUME NEW i \in 1..Len(exited), NEW q \in Backends, exited[i] = myXid'[q]
        PROVE  pc'[q] = "unlock"
    <3>1. exited[i] # 0
      BY <1>2 DEF Inv, Ends
    <3> QED
      BY <1>3, <2>1, <3>1 DEF Inv, Ends
  <2>2. ASSUME NEW x \in 1..(nextXid - 1)
        PROVE  \/ \E i \in 1..Len(exited) : exited[i] = x
               \/ \E q \in Backends : myXid'[q] = x /\ pc'[q] # "unlock"
    BY <1>1, <1>3 DEF Inv, Ends
  <2> QED
    BY <1>1, <2>1, <2>2 DEF Inv, Ends
<1>8. Scans'
  BY <1>1, <1>3 DEF Inv, Scans, Scanning
<1>9. Prefixes'
  <2>1. ASSUME NEW q \in Backends \ {b}
        PROVE  \A s \in InUse(q)' : \E n \in 0..Len(exited') : Prefix(q, s, n)'
    BY <1>1, <1>3, SnapshotsKept DEF Inv, Prefixes
  <2>2. firstSnap[b] = NoSnapshot /\ querySnap[b] = NoSnapshot
    BY <1>1 DEF Inv, Prefixes
  <2>3. InUse(b)' = {}
    BY <1>1, <2>2 DEF InUse
  <2> QED
    BY <1>1, <1>3, <2>1, <2>2, <2>3 DEF Inv, Prefixes
<1> QED
  BY <1>4, <1>5, <1>6, <1>7, <1>8, <1>9 DEF Inv

LEMMA NextInv == Inv /\ [Next]_vars => Inv'
<1> SUFFICES ASSUME Inv, [Next]_vars PROVE Inv'
  OBVIOUS
<1>1. ASSUME NEW b \in Backends, Step(b) PROVE Inv'
  BY <1>1, StoreInv, AsideSteps, ReadInv, EndInv, OldestInv, ScanInv, LeaveInv, ReleaseInv DEF Step
<1>2. ASSUME NEW b \in Backends, Call(b) PROVE Inv'
  BY <1>2, NewXidInv, OldestInv, AsideSteps, RecordInv DEF Call
<1>3. CASE UNCHANGED vars
  <2>1. UNCHANGED <<nextXid, xid, xmin, grant, pc, myXid, work, firstSnap, querySnap, exited>>
    BY <1>3 DEF vars, clockVars, xactVars, snapVars
  <2> QED
    BY <2>1 DEF Inv, Types, Holding, OwnXids, Ends, Scans, Scanning, Prefixes, Prefix, InUse, EndedFor
<1> QED
  BY <1>1, <1>2, <1>3 DEF Next

LEMMA PrefixFromInv == Inv => SnapshotIsPrefix
<1> SUFFICES ASSUME Inv, NEW b \in Backends, NEW s \in InUse(b)
             PROVE  /\ \A x \in 1..(nextXid - 1) \ {myXid[b]} :
                          EndedFor(s, x) => x \in Range(exited)
                    /\ \A j \in 1..Len(exited) : \A i \in 1..j :
                          EndedFor(s, exited[j]) => EndedFor(s, exited[i])
  BY DEF SnapshotIsPrefix
<1>1. PICK n \in 0..Len(exited) : Prefix(b, s, n)
  BY DEF Inv, Prefixes
<1>2. nextXid \in Nat \ {0} /\ exited \in Seq(Nat) /\ Len(exited) \in Nat
  BY DEF Inv, Types
<1>3. pc[b] # "unlock"
  BY DEF Inv, Prefixes, InUse
<1>4. \A i \in 1..Len(exited) : exited[i] \in Nat \ {0, myXid[b]}
  BY <1>2, <1>3 DEF Inv, Ends
<1>5. ASSUME NEW x \in 1..(nextXid - 1) \ {myXid[b]}, EndedFor(s, x)
      PROVE  x \in Range(exited)
  <2>1. x \in Nat \ {0, myXid[b]}
    BY <1>2
  <2>2. PICK i \in 1..n : exited[i] = x
    BY <1>1, <1>5, <2>1 DEF Prefix
  <2>3. i \in DOMAIN exited
    BY <1>1, <1>2
  <2> QED
    BY <2>2, <2>3 DEF Range
<1>6. ASSUME NEW j \in 1..Len(exited), NEW i \in 1..j, EndedFor(s, exited[j])
      PROVE  EndedFor(s, exited[i])
  <2>1. i \in 1..Len(exited)
    BY <1>2
  <2>2. PICK k \in 1..n : exited[k] = exited[j]
    BY <1>1, <1>4, <1>6 DEF Prefix
  <2>3. k = j
    BY <1>1, <1>2, <2>2 DEF Inv, Ends
  <2>4. i \in 1..n
    BY <1>1, <1>2, <2>3
  <2> QED
    BY <1>1, <1>4, <2>1, <2>4 DEF Prefix
<1> QED
  BY <1>5, <1>6

\* What a snapshot takes for ended has ended, and is a prefix of the order in which
\* the transactions have ended: SInvalLock keeps transactions from leaving while
\* the PGPROCs are scanned, and XidGenLock, under which xmax is read, keeps an
\* assigned xid from being overlooked before it is in its PGPROC.
THEOREM PrefixInvariant == Spec => []SnapshotIsPrefix
<1>1. Spec => []Inv
  BY InitInv, NextInv, PTL DEF Spec
<1> QED
  BY <1>1, PrefixFromInv, PTL
-----------------------------------------------------------------------------
(***************************************************************************)
(* What the snapshots are for.  First the cutoffs, of VACUUM and of index  *)
(* scans: what is below them has ended, also for every snapshot, since a   *)
(* backend shows its xmin before its snapshot can be overlooked.           *)
(***************************************************************************)
Exited(x) == \E i \in 1..Len(exited) : exited[i] = x

\* The two locks, and what they are for.
Excluding ==
    \A b, q \in Backends, l \in LWLocks : grant[b][l] = "exclusive" /\ q # b => grant[q][l] = "none"
Alone ==
    \A b \in Backends :
        /\ First(b) /\ pc[b] \in {"xmax", "scan"} => grant[b]["SInvalLock"] = "exclusive"
        /\ pc[b] = "newxid" => myXid[b] = nextXid - 1

\* The xmin that a backend shows is at most that of its snapshots, and all
\* transactions below it have ended.
Xmins ==
    \A b \in Backends :
        /\ First(b) => querySnap[b] = NoSnapshot
        /\ ~First(b) =>
              /\ xmin[b] \in 1..myXid[b]
              /\ \A s \in InUse(b) : xmin[b] <= s.xmin
              /\ \A y \in 1..(xmin[b] - 1) : Exited(y)

\* A scan has heeded the xmin of every PGPROC that it has read.
Heed(b) ==
    /\ pc[b] = "scan" =>
          /\ work[b].xmin > 0 /\ (~First(b) => xmin[b] <= work[b].xmin)
          /\ \A q \in Backends \ {b} : ~First(q) =>
                myXid[q] < work[b].xmax /\ (q \notin work[b].todo => work[b].oldest <= xmin[q])
    /\ pc[b] = "oldest" =>
          /\ work[b].oldest <= myXid[b]
          /\ \A q \in Backends \ work[b].todo :
                /\ xid[q] # 0 => work[b].oldest <= xid[q]
                /\ ~First(q) => work[b].oldest <= xmin[q]

\* What is below a cutoff has ended, also for every snapshot.
Cutoffs ==
    \A v \in Backends :
        /\ \A y \in 1..(oldestXmin[v] - 1) :
              Exited(y) /\ \A b \in Backends : \A s \in InUse(b) : EndedFor(s, y)
        /\ \A y \in 1..(recentGlobalXmin[v] - 1) :
              /\ Exited(y)
              /\ \A b \in Backends \ {v} : \A s \in InUse(b) : EndedFor(s, y)
              /\ querySnap[v] # NoSnapshot => EndedFor(querySnap[v], y)

CutInv ==
    /\ oldestXmin \in [Backends -> Nat] /\ recentGlobalXmin \in [Backends -> Nat]
    /\ Excluding /\ Alone /\ Xmins /\ (\A b \in Backends : Heed(b)) /\ Cutoffs

\* The parts of the invariant that are about the versions of the row.
RowTypes ==
    /\ clog \in [Xids -> {"running", "committed", "aborted"}] /\ DidCommit(0)
    /\ nextXid <= MaxXid + 1
    /\ DOMAIN heap \subseteq Xids
    /\ \A x \in DOMAIN heap : heap[x].xmax \in 0..(nextXid - 1) /\ heap[x].marked \in BOOLEAN

\* The transactions that have committed, and those whose versions there are.
Committed ==
    \A x \in Xids : DidCommit(x) =>
        x = 0 \/ Exited(x) \/ \E q \in Backends : myXid[q] = x /\ pc[q] = "exit"
Inserted == \A x \in DOMAIN heap : x = 0 \/ Exited(x) \/ \E q \in Backends : xid[q] = x

\* Until it commits, nobody but the transaction itself has touched its version.
Own ==
    \A q \in Backends : myXid[q] # 0 /\ ~DidCommit(myXid[q]) /\ pc[q] # "unlock" =>
        /\ \A x \in DOMAIN heap : heap[x].xmax = myXid[q] /\ ~heap[x].marked => myXid[q] \in DOMAIN heap
        /\ myXid[q] \in DOMAIN heap => heap[myXid[q]].xmax = 0 \/ heap[myXid[q]].marked

\* An updater looks at a version that has committed or is its own; VACUUM at one whose
\* inserter has ended.
Chosen ==
    /\ version \in [Backends -> Xids] /\ xwait \in [Backends -> Xids]
    /\ \A q \in Backends :
        /\ pc[q] \in {"update", "wait"} => DidCommit(version[q]) \/ version[q] = myXid[q]
        /\ pc[q] = "vacuum" => version[q] = 0 \/ Exited(version[q])

\* There is always a live version, whoever else than those that have ended may be
\* counted among the ended (S): so that the next one to end finds the claim true.
Counted(x, S) == DidCommit(x) /\ (x = 0 \/ x \in S)
Live(x, S) == Counted(x, S) /\ ~(heap[x].xmax # 0 /\ ~heap[x].marked /\ Counted(heap[x].xmax, S))
AlwaysOne ==
    \A S \in SUBSET Xids : (\A i \in 1..Len(exited) : exited[i] \in S) =>
        \E x \in DOMAIN heap : Live(x, S)

\* What was removed from the index is dead to all that may look.
Dead(x, y) ==
    /\ y # 0 /\ heap[x].xmax = y /\ ~heap[x].marked /\ DidCommit(y) /\ Exited(y)
    /\ \A b \in Backends :
          /\ querySnap[b] # NoSnapshot => EndedFor(querySnap[b], y)
          /\ b # killer[x] /\ ~First(b) => EndedFor(firstSnap[b], y)
Kills ==
    \A x \in DOMAIN killer :
        /\ x \in Xids /\ (x = 0 \/ Exited(x))
        /\ ~DidCommit(x) \/ x \notin DOMAIN heap \/ Dead(x, heap[x].xmax)

RowInv == RowTypes /\ Committed /\ Inserted /\ Own /\ Chosen /\ AlwaysOne /\ NoVersionLost /\ Kills
-----------------------------------------------------------------------------
LEMMA ExitedKept ==
    ASSUME Inv, exited' = exited \/ \E x \in Nat : exited' = Append(exited, x), NEW y, Exited(y)
    PROVE  Exited(y)'
<1>1. exited \in Seq(Nat) /\ Len(exited) \in Nat
  BY DEF Inv, Types
<1>2. PICK i \in 1..Len(exited) : exited[i] = y
  BY DEF Exited
<1>3. CASE exited' = exited
  BY <1>2, <1>3 DEF Exited
<1>4. ASSUME NEW x \in Nat, exited' = Append(exited, x)
      PROVE  Exited(y)'
  <2>1. i \in 1..Len(exited') /\ exited'[i] = y
    BY <1>1, <1>2, <1>4, AppendProperties
  <2> QED
    BY <2>1 DEF Exited
<1> QED
  BY <1>3, <1>4

\* Whoever shows an xid has not ended.
LEMMA Running ==
    ASSUME Inv, NEW b \in Backends
    PROVE  /\ pc[b] # "unlock" => ~Exited(myXid[b])
           /\ xid[b] # 0 => ~Exited(xid[b]) /\ xid[b] = myXid[b]
           /\ \A y : Exited(y) => y \in 1..(nextXid - 1)
           /\ myXid[b] \in Nat /\ xid[b] \in Nat /\ xmin[b] \in Nat /\ myXid[b] < nextXid /\ nextXid \in Nat
           /\ pc[b] \in PCs /\ work[b] \in Works
BY DEF Inv, Types, Ends, OwnXids, Exited

\* A snapshot in use, and the transaction that uses it.
LEMMA Using ==
    ASSUME Inv, CutInv, NEW b \in Backends, NEW s \in InUse(b)
    PROVE  /\ ~First(b) /\ pc[b] \notin {"idle", "newxid", "newlock", "exit", "unlock"}
           /\ s \in Snapshots /\ s.xmin \in Nat /\ s.xmax \in Nat /\ xmin[b] <= s.xmin
           /\ xmin[b] \in 1..myXid[b] /\ xid[b] = myXid[b]
           /\ \A y \in Nat : y < xmin[b] => EndedFor(s, y)
           /\ \A y \in Nat \ {0, myXid[b]} : EndedFor(s, y) => Exited(y)
<1>1. ~First(b)
  BY DEF CutInv, Xmins, InUse, First
<1>2. pc[b] \notin {"idle", "newxid", "newlock", "exit", "unlock"}
  BY DEF Inv, Prefixes, InUse
<1>3. s \in Snapshots /\ s.xmin \in Nat /\ s.xmax \in Nat
  BY DEF Inv, Types, InUse, Snapshots
<1>4. xmin[b] \in 1..myXid[b] /\ xmin[b] <= s.xmin /\ xmin[b] \in Nat
  BY <1>1, Running DEF CutInv, Xmins
<1>5. xid[b] = myXid[b]
  BY <1>2 DEF Inv, OwnXids
<1>6. \A y \in Nat : y < xmin[b] => EndedFor(s, y)
  BY <1>3, <1>4 DEF EndedFor
<1>7. \A y \in Nat \ {0, myXid[b]} : EndedFor(s, y) => Exited(y)
  <2>1. PICK n \in 0..Len(exited) : Prefix(b, s, n)
    BY DEF Inv, Prefixes
  <2>2. \A i \in 1..n : i \in 1..Len(exited)
    BY DEF Inv, Types
  <2> QED
    BY <2>1, <2>2 DEF Prefix, Exited
<1> QED
  BY <1>1, <1>2, <1>3, <1>4, <1>5, <1>6, <1>7

LEMMA CutInit == Init => CutInv
BY DEF Init, CutInv, Excluding, Alone, Xmins, Heed, Cutoffs, First, InUse, LWLocks

\* Steps that take no snapshot and find no cutoff.
LEMMA CutoffsKept ==
    ASSUME Inv, CutInv, exited' = exited \/ \E x \in Nat : exited' = Append(exited, x),
           \A q \in Backends :
              \/ UNCHANGED <<firstSnap[q], querySnap[q], oldestXmin[q], recentGlobalXmin[q]>>
              \/ /\ firstSnap'[q] = NoSnapshot /\ querySnap'[q] = NoSnapshot
                 /\ oldestXmin'[q] = 0 /\ recentGlobalXmin'[q] = 0,
           \A q \in Backends : First(q) \/ UNCHANGED <<xmin[q], myXid[q]>>
    PROVE  Xmins' /\ Cutoffs'
<1>1. \A q \in Backends : \A s \in InUse(q)' : s \in InUse(q)
  BY DEF InUse
<1>2. \A y : Exited(y) => Exited(y)'
  BY ExitedKept
<1>3. \A s, y : EndedFor(s, y)' <=> EndedFor(s, y)
  BY DEF EndedFor
<1>4. Xmins'
  <2>1. ASSUME NEW b \in Backends
        PROVE  /\ First(b)' => querySnap'[b] = NoSnapshot
               /\ ~First(b)' => /\ xmin'[b] \in 1..myXid'[b]
                                /\ \A s \in InUse(b)' : xmin'[b] <= s.xmin
                                /\ \A y \in 1..(xmin'[b] - 1) : Exited(y)'
    <3>1. CASE UNCHANGED <<firstSnap[b], querySnap[b]>>
      <4>1. First(b)' <=> First(b)
        BY <3>1 DEF First
      <4> QED
        BY <1>1, <1>2, <3>1, <4>1 DEF CutInv, Xmins
    <3>2. CASE firstSnap'[b] = NoSnapshot /\ querySnap'[b] = NoSnapshot
      BY <3>2 DEF First
    <3> QED
      BY <3>1, <3>2
  <2> QED
    BY <2>1 DEF Xmins
<1>5. Cutoffs'
  <2>1. ASSUME NEW v \in Backends
        PROVE  /\ \A y \in 1..(oldestXmin'[v] - 1) :
                     Exited(y)' /\ \A b \in Backends : \A s \in InUse(b)' : EndedFor(s, y)
               /\ \A y \in 1..(recentGlobalXmin'[v] - 1) :
                     /\ Exited(y)'
                     /\ \A b \in Backends \ {v} : \A s \in InUse(b)' : EndedFor(s, y)
                     /\ querySnap'[v] # NoSnapshot => EndedFor(querySnap'[v], y)
    <3>1. CASE UNCHANGED <<querySnap[v], oldestXmin[v], recentGlobalXmin[v]>>
      BY <1>1, <1>2, <3>1 DEF CutInv, Cutoffs
    <3>2. CASE oldestXmin'[v] = 0 /\ recentGlobalXmin'[v] = 0
      BY <3>2
    <3> QED
      BY <3>1, <3>2
  <2> QED
    BY <1>3, <2>1 DEF Cutoffs
<1> QED
  BY <1>4, <1>5

LEMMA HeedKept ==
    ASSUME Inv, NEW c \in Backends, Heed(c),
           pc'[c] \in {"scan", "oldest"} => UNCHANGED <<pc[c], work[c], myXid[c], firstSnap[c], xmin[c]>>,
           \A q \in Backends : First(q)' \/ (~First(q) /\ UNCHANGED <<xmin[q], myXid[q]>>),
           \A q \in Backends : xid'[q] \in {0, xid[q]}
    PROVE  Heed(c)'
BY DEF Heed, First

\* A lock is granted, or released.
LEMMA GrantKept ==
    ASSUME Inv, Excluding, NEW b \in Backends, NEW l \in LWLocks,
           \/ \E m \in {"shared", "exclusive"} : Lock!Acquire(b, l, m)
           \/ Lock!Release(b, l)
    PROVE  Excluding'
<1>1. CASE Lock!Release(b, l)
  <2>1. /\ grant'[b][l] = "none"
        /\ \A q \in Backends, k \in LWLocks : q # b \/ k # l => grant'[q][k] = grant[q][k]
    BY <1>1, GrantType DEF Lock!Release, Inv
  <2> QED
    BY <2>1 DEF Excluding
<1>2. ASSUME NEW m \in {"shared", "exclusive"}, Lock!Acquire(b, l, m)
      PROVE  Excluding'
  <2>1. /\ grant'[b][l] = m
        /\ \A q \in Backends, k \in LWLocks : q # b \/ k # l => grant'[q][k] = grant[q][k]
    BY <1>2, GrantType DEF Lock!Acquire, Inv
  <2>2. \A q \in Backends \ {b} : grant[q][l] # "exclusive" /\ (m = "exclusive" => grant[q][l] = "none")
    BY <1>2 DEF Lock!Acquire, Lock!Compatible
  <2> QED
    BY <2>1, <2>2 DEF Excluding
<1> QED
  BY <1>1, <1>2

\* The steps that only move on in a transaction, or end it.
LEMMA CutQuiet ==
    ASSUME Inv, CutInv, NEW b \in Backends,
           pc'[b] \notin {"newxid", "xmax", "scan", "oldest"}, \A q \in Backends \ {b} : pc'[q] = pc[q],
           UNCHANGED <<nextXid, grant, work>>,
           exited' = exited \/ \E x \in Nat : exited' = Append(exited, x),
           oldestXmin' \in [Backends -> Nat], recentGlobalXmin' \in [Backends -> Nat],
           \A q \in Backends :
              \/ UNCHANGED <<firstSnap[q], querySnap[q], oldestXmin[q], recentGlobalXmin[q]>>
              \/ /\ q = b /\ firstSnap'[q] = NoSnapshot /\ querySnap'[q] = NoSnapshot
                 /\ oldestXmin'[q] = 0 /\ recentGlobalXmin'[q] = 0,
           \A q \in Backends : First(q) \/ UNCHANGED <<xmin[q], myXid[q]>>,
           \A q \in Backends \ {b} : UNCHANGED <<xmin[q], myXid[q]>>,
           \A q \in Backends : xid'[q] \in {0, xid[q]}
    PROVE  CutInv'
<1>1. Xmins' /\ Cutoffs'
  BY CutoffsKept
<1>2. ASSUME NEW c \in Backends PROVE Heed(c)'
  <2>1. Heed(c)
    BY DEF CutInv
  <2>2. pc'[c] \in {"scan", "oldest"} =>
          UNCHANGED <<pc[c], work[c], myXid[c], firstSnap[c], xmin[c]>>
    OBVIOUS
  <2>3. ASSUME NEW q \in Backends PROVE First(q)' \/ (~First(q) /\ UNCHANGED <<xmin[q], myXid[q]>>)
    <3>1. firstSnap'[q] = firstSnap[q] \/ firstSnap'[q] = NoSnapshot
      OBVIOUS
    <3>2. First(q)' \/ ~First(q)
      BY <3>1 DEF First
    <3> QED
      BY <3>2
  <2> QED
    BY <2>1, <2>2, <2>3, HeedKept
<1>3. Excluding' /\ Alone'
  <2>1. Excluding'
    BY DEF CutInv, Excluding
  <2>2. ASSUME NEW q \in Backends
        PROVE  /\ pc'[q] \in {"newxid", "xmax", "scan"} => q # b /\ pc'[q] = pc[q]
               /\ q # b => (First(q)' <=> First(q)) /\ myXid'[q] = myXid[q]
    <3>1. q # b => firstSnap'[q] = firstSnap[q]
      OBVIOUS
    <3> QED
      BY <3>1 DEF First
  <2>3. ASSUME NEW q \in Backends, First(q)', pc'[q] \in {"xmax", "scan"}
        PROVE  grant'[q]["SInvalLock"] = "exclusive"
    <3>1. First(q) /\ pc[q] \in {"xmax", "scan"}
      BY <2>2, <2>3
    <3> QED
      BY <3>1 DEF CutInv, Alone
  <2>4. ASSUME NEW q \in Backends, pc'[q] = "newxid"
        PROVE  myXid'[q] = nextXid' - 1
    <3>1. pc[q] = "newxid" /\ myXid'[q] = myXid[q] /\ nextXid' = nextXid
      BY <2>2, <2>4
    <3> QED
      BY <3>1 DEF CutInv, Alone
  <2>5. Alone'
    BY <2>3, <2>4 DEF Alone
  <2> QED
    BY <2>1, <2>5
<1> QED
  BY <1>1, <1>2, <1>3 DEF CutInv

LEMMA CutRecord ==
    ASSUME Inv, CutInv, NEW b \in Backends, RecordTransactionCommit(b) \/ RecordTransactionAbort(b)
    PROVE  CutInv'
<1>1. /\ pc \in [Backends -> PCs]
      /\ firstSnap \in [Backends -> Snapshots] /\ querySnap \in [Backends -> Snapshots]
      /\ oldestXmin \in [Backends -> Nat] /\ recentGlobalXmin \in [Backends -> Nat]
  BY DEF Inv, Types, CutInv
<1>2. /\ pc' = [pc EXCEPT ![b] = "exit"]
      /\ firstSnap' = [firstSnap EXCEPT ![b] = NoSnapshot] /\ querySnap' = [querySnap EXCEPT ![b] = NoSnapshot]
      /\ oldestXmin' = [oldestXmin EXCEPT ![b] = 0] /\ recentGlobalXmin' = [recentGlobalXmin EXCEPT ![b] = 0]
      /\ UNCHANGED <<nextXid, grant, work, exited, xmin, myXid, xid>>
  BY DEF RecordTransactionCommit, RecordTransactionAbort, Record, ForgetSnapshots, Goto, clockVars, xactVars
<1>3. /\ pc'[b] = "exit" /\ \A q \in Backends \ {b} : pc'[q] = pc[q]
      /\ oldestXmin' \in [Backends -> Nat] /\ recentGlobalXmin' \in [Backends -> Nat]
      /\ \A q \in Backends :
              \/ UNCHANGED <<firstSnap[q], querySnap[q], oldestXmin[q], recentGlobalXmin[q]>>
              \/ /\ q = b /\ firstSnap'[q] = NoSnapshot /\ querySnap'[q] = NoSnapshot
                 /\ oldestXmin'[q] = 0 /\ recentGlobalXmin'[q] = 0
  BY <1>1, <1>2
<1> QED
  BY <1>2, <1>3, CutQuiet

LEMMA CutLeave ==
    ASSUME Inv, CutInv, NEW b \in Backends, LeaveProcArray(b) \/ ReleaseLocks(b)
    PROVE  CutInv'
<1>1. /\ pc \in [Backends -> PCs] /\ xid \in [Backends -> Nat] /\ xmin \in [Backends -> Nat]
      /\ myXid \in [Backends -> Nat]
      /\ oldestXmin \in [Backends -> Nat] /\ recentGlobalXmin \in [Backends -> Nat]
  BY DEF Inv, Types, CutInv
<1>2. /\ pc[b] \in {"exit", "unlock"}
      /\ pc' = [pc EXCEPT ![b] = "unlock"] \/ pc' = [pc EXCEPT ![b] = "idle"]
      /\ xid' = xid \/ xid' = [xid EXCEPT ![b] = 0]
      /\ xmin' = xmin \/ xmin' = [xmin EXCEPT ![b] = 0]
      /\ myXid' = myXid \/ myXid' = [myXid EXCEPT ![b] = 0]
      /\ exited' = exited \/ exited' = Append(exited, myXid[b])
      /\ UNCHANGED <<nextXid, grant, work, firstSnap, querySnap, oldestXmin, recentGlobalXmin>>
  BY DEF LeaveProcArray, ReleaseLocks, Goto, xactVars, snapVars
<1>3. First(b)
  BY <1>2 DEF Inv, Prefixes, First
<1>4. /\ pc'[b] \in {"unlock", "idle"} /\ \A q \in Backends \ {b} : pc'[q] = pc[q]
      /\ \A q \in Backends : xid'[q] \in {0, xid[q]}
      /\ \A q \in Backends \ {b} : UNCHANGED <<xmin[q], myXid[q]>>
      /\ exited' = exited \/ \E x \in Nat : exited' = Append(exited, x)
  BY <1>1, <1>2
<1>5. \A q \in Backends : First(q) \/ UNCHANGED <<xmin[q], myXid[q]>>
  BY <1>3, <1>4
<1> QED
  BY <1>1, <1>2, <1>4, <1>5, CutQuiet

\* A new xid, its store, and the lock for a snapshot.
LEMMA CutNewXid ==
    ASSUME Inv, CutInv, NEW b \in Backends, GetNewTransactionId(b)
    PROVE  CutInv'
<1>1. /\ pc[b] = "idle" /\ pc' = [pc EXCEPT ![b] = "newxid"]
      /\ Lock!Acquire(b, "XidGenLock", "exclusive")
      /\ myXid' = [myXid EXCEPT ![b] = nextXid] /\ nextXid' = nextXid + 1
      /\ UNCHANGED <<xid, xmin, work, firstSnap, querySnap, oldestXmin, recentGlobalXmin, exited>>
  BY DEF GetNewTransactionId, Goto, snapVars
<1>2. /\ pc \in [Backends -> PCs] /\ myXid \in [Backends -> Nat] /\ nextXid \in Nat
      /\ oldestXmin \in [Backends -> Nat] /\ recentGlobalXmin \in [Backends -> Nat]
  BY DEF Inv, Types, CutInv
<1>3. First(b)
  BY <1>1 DEF Inv, Prefixes, First
<1>4. /\ pc'[b] = "newxid" /\ \A q \in Backends \ {b} : UNCHANGED <<pc[q], myXid[q]>>
      /\ myXid'[b] = nextXid' - 1
  BY <1>1, <1>2
<1>5. Xmins' /\ Cutoffs'
  BY <1>1, <1>3, <1>4, CutoffsKept
<1>6. ASSUME NEW c \in Backends PROVE Heed(c)'
  <2>1. Heed(c)
    BY DEF CutInv
  <2>2. pc'[c] \in {"scan", "oldest"} => UNCHANGED <<pc[c], work[c], myXid[c], firstSnap[c], xmin[c]>>
    BY <1>1, <1>4
  <2>3. ASSUME NEW q \in Backends PROVE First(q)' \/ (~First(q) /\ UNCHANGED <<xmin[q], myXid[q]>>)
    <3>1. First(q)' <=> First(q)
      BY <1>1 DEF First
    <3> QED
      BY <1>1, <1>3, <1>4, <3>1
  <2> QED
    BY <1>1, <2>1, <2>2, <2>3, HeedKept
<1>7. Excluding'
  BY <1>1, GrantKept, LocksTwo DEF CutInv
<1>8. Alone'
  <2>1. \A q \in Backends \ {b} : grant[q]["XidGenLock"] = "none"
    BY <1>1 DEF Lock!Acquire, Lock!Compatible
  <2>2. \A q \in Backends \ {b} : pc[q] # "newxid"
    BY <2>1 DEF Inv, Holding
  <2>3. \A q \in Backends \ {b} : grant'[q] = grant[q]
    BY <1>1 DEF Lock!Acquire, Inv, Types
  <2> QED
    BY <1>1, <1>4, <2>2, <2>3 DEF Alone, CutInv, First
<1> QED
  BY <1>1, <1>2, <1>5, <1>6, <1>7, <1>8 DEF CutInv

LEMMA CutStore ==
    ASSUME Inv, CutInv, NEW b \in Backends, StoreXid(b)
    PROVE  CutInv'
<1>1. /\ pc[b] = "newxid" /\ pc' = [pc EXCEPT ![b] = "newlock"]
      /\ Lock!Release(b, "XidGenLock") /\ xid' = [xid EXCEPT ![b] = myXid[b]]
      /\ UNCHANGED <<nextXid, xmin, myXid, work, firstSnap, querySnap,
                     oldestXmin, recentGlobalXmin, exited>>
  BY DEF StoreXid, Goto, snapVars, xactVars
<1>2. pc \in [Backends -> PCs] /\ xid \in [Backends -> Nat]
  BY DEF Inv, Types
<1>3. pc'[b] = "newlock" /\ xid'[b] = myXid[b] /\ \A q \in Backends \ {b} : UNCHANGED <<pc[q], xid[q]>>
  BY <1>1, <1>2
<1>4. Xmins' /\ Cutoffs'
  BY <1>1, CutoffsKept
<1>5. myXid[b] = nextXid - 1
  BY <1>1 DEF CutInv, Alone
<1>6. ASSUME NEW c \in Backends PROVE Heed(c)'
  <2>1. Heed(c) /\ First(c)' = First(c) /\ \A q \in Backends : First(q)' = First(q)
    BY <1>1 DEF CutInv, First
  <2>2. pc'[c] \in {"scan", "oldest"} => pc'[c] = pc[c]
    BY <1>3
  <2>3. pc[c] = "oldest" => work[c].oldest <= xid'[b]
    <3>1. pc[c] = "oldest" => work[c].oldest <= myXid[c] /\ work[c].oldest \in Nat
      BY <2>1, Running DEF Heed, Works
    <3>2. myXid[c] < nextXid /\ myXid[c] \in Nat /\ nextXid \in Nat /\ myXid[b] \in Nat
      BY Running
    <3> QED
      BY <1>3, <1>5, <3>1, <3>2
  <2> QED
    BY <1>1, <1>3, <2>1, <2>2, <2>3 DEF Heed
<1>7. Excluding'
  BY <1>1, GrantKept, LocksTwo DEF CutInv
<1>8. Alone'
  <2>1. \A q \in Backends : grant'[q]["SInvalLock"] = grant[q]["SInvalLock"]
    BY <1>1, LocksTwo DEF Lock!Release, Inv, Types
  <2> QED
    BY <1>1, <1>3, <2>1 DEF Alone, CutInv, First
<1> QED
  BY <1>1, <1>4, <1>6, <1>7, <1>8 DEF CutInv

LEMMA CutQuery ==
    ASSUME Inv, CutInv, NEW b \in Backends, SetQuerySnapshot(b)
    PROVE  CutInv'
<1> DEFINE m == IF First(b) THEN "exclusive" ELSE "shared"
<1>1. /\ pc[b] = "run" /\ pc' = [pc EXCEPT ![b] = "xmax"] /\ Lock!Acquire(b, "SInvalLock", m)
      /\ UNCHANGED <<nextXid, xid, xmin, myXid, work, firstSnap, querySnap,
                     oldestXmin, recentGlobalXmin, exited>>
  BY DEF SetQuerySnapshot, Goto, snapVars, xactVars
<1>2. m \in {"shared", "exclusive"} /\ (First(b) => m = "exclusive")
  OBVIOUS
<1> HIDE DEF m
<1>3. pc'[b] = "xmax" /\ \A q \in Backends \ {b} : pc'[q] = pc[q]
  BY <1>1 DEF Inv, Types
<1>4. Xmins' /\ Cutoffs'
  BY <1>1, CutoffsKept
<1>5. \A q \in Backends : First(q)' <=> First(q)
  BY <1>1 DEF First
<1>6. ASSUME NEW c \in Backends PROVE Heed(c)'
  BY <1>1, <1>3, <1>5 DEF CutInv, Heed
<1>7. Excluding'
  BY <1>1, <1>2, GrantKept, LocksTwo DEF CutInv
<1>8. Alone'
  <2>1. /\ grant'[b]["SInvalLock"] = m
        /\ \A q \in Backends \ {b} : grant'[q]["SInvalLock"] = grant[q]["SInvalLock"]
    BY <1>1, LocksTwo DEF Lock!Acquire, Inv, Types
  <2> QED
    BY <1>1, <1>2, <1>3, <1>5, <2>1 DEF Alone, CutInv
<1> QED
  BY <1>1, <1>4, <1>6, <1>7, <1>8 DEF CutInv

LEMMA CutRead ==
    ASSUME Inv, CutInv, NEW b \in Backends, ReadNewTransactionId(b)
    PROVE  CutInv'
<1> DEFINE w == [todo |-> Backends \ {b}, xmin |-> myXid[b], xmax |-> nextXid, xip |-> {},
                 oldest |-> myXid[b]]
<1>1. /\ pc[b] = "xmax" /\ pc' = [pc EXCEPT ![b] = "scan"] /\ work' = [work EXCEPT ![b] = w]
      /\ UNCHANGED <<nextXid, xid, xmin, grant, myXid, firstSnap, querySnap,
                     oldestXmin, recentGlobalXmin, exited>>
  BY DEF ReadNewTransactionId, Goto, clockVars, xactVars
<1>2. /\ pc'[b] = "scan" /\ work'[b] = w /\ \A q \in Backends \ {b} : UNCHANGED <<pc[q], work[q]>>
  BY <1>1 DEF Inv, Types
<1>3. Xmins' /\ Cutoffs'
  BY <1>1, CutoffsKept
<1>4. \A q \in Backends : First(q)' <=> First(q)
  BY <1>1 DEF First
<1>5. w.todo = Backends \ {b} /\ w.xmin = myXid[b] /\ w.xmax = nextXid
  OBVIOUS
<1> HIDE DEF w
<1>6. ASSUME NEW c \in Backends PROVE Heed(c)'
  <2>1. CASE c = b
    <3>1. myXid[b] \in Nat /\ myXid[b] # 0
      BY <1>1, Running DEF Inv, OwnXids
    <3>2. ~First(b) => xmin[b] <= myXid[b]
      BY <3>1 DEF CutInv, Xmins
    <3>3. \A q \in Backends : myXid[q] < nextXid
      BY Running
    <3> QED
      BY <1>1, <1>2, <1>4, <1>5, <2>1, <3>1, <3>2, <3>3 DEF Heed
  <2>2. CASE c # b
    BY <1>1, <1>2, <1>4, <2>2 DEF CutInv, Heed
  <2> QED
    BY <2>1, <2>2
<1>7. Excluding' /\ Alone'
  BY <1>1, <1>2, <1>4 DEF CutInv, Excluding, Alone
<1> QED
  BY <1>1, <1>3, <1>6, <1>7 DEF CutInv

LEMMA CutScan ==
    ASSUME Inv, CutInv, NEW b \in Backends, NEW q \in Backends, ScanProc(b, q)
    PROVE  CutInv'
<1> DEFINE w == work[b]
           v == work'[b]
           found == xid[q] # 0 /\ xid[q] < w.xmax
<1>1. /\ pc[b] = "scan" /\ q \in w.todo
      /\ UNCHANGED <<nextXid, xid, xmin, grant, pc, myXid, firstSnap, querySnap,
                     oldestXmin, recentGlobalXmin, exited>>
  BY DEF ScanProc, clockVars, xactVars
<1>2. /\ work \in [Backends -> Works] /\ w \in Works
      /\ w.xmin \in Nat /\ w.xmax \in Nat /\ w.oldest \in Nat
      /\ xid[q] \in Nat /\ xmin[q] \in Nat
  BY Running DEF Inv, Types, Works
<1>3. /\ \A r \in Backends \ {b} : work'[r] = work[r]
      /\ v.todo = w.todo \ {q} /\ v.xmax = w.xmax
      /\ v.xmin = (IF found THEN Lesser(w.xmin, xid[q]) ELSE w.xmin)
      /\ v.oldest = (IF found /\ xmin[q] # 0 THEN Lesser(w.oldest, xmin[q]) ELSE w.oldest)
  <2> DEFINE u == [w EXCEPT !.todo = @ \ {q}]
             t == [u EXCEPT !.xmin = Lesser(@, xid[q]), !.xip = @ \union {xid[q]},
                            !.oldest = IF xmin[q] = 0 THEN @ ELSE Lesser(@, xmin[q])]
  <2>1. work' = [work EXCEPT ![b] = IF xid[q] = 0 \/ xid[q] >= w.xmax THEN u ELSE t]
    BY DEF ScanProc
  <2>2. /\ u \in Works /\ u.todo = w.todo \ {q} /\ u.xmax = w.xmax /\ u.xmin = w.xmin
        /\ u.oldest = w.oldest
    BY <1>2 DEF Works
  <2> HIDE DEF u
  <2>3. /\ t.todo = u.todo /\ t.xmax = u.xmax /\ t.xmin = Lesser(u.xmin, xid[q])
        /\ t.oldest = IF xmin[q] = 0 THEN u.oldest ELSE Lesser(u.oldest, xmin[q])
    BY <2>2 DEF Works
  <2> HIDE DEF t
  <2>4. v = IF found THEN t ELSE u
    BY <1>2, <2>1
  <2> QED
    BY <1>2, <2>1, <2>2, <2>3, <2>4
<1> HIDE DEF v
<1>4. /\ v.xmin \in Nat /\ v.xmin <= w.xmin /\ (v.xmin = w.xmin \/ (found /\ v.xmin = xid[q]))
      /\ v.oldest \in Nat /\ v.oldest <= w.oldest
      /\ (found /\ xmin[q] # 0) => v.oldest <= xmin[q]
  <2>1. v.xmin \in Nat /\ v.xmin <= w.xmin /\ (v.xmin = w.xmin \/ (found /\ v.xmin = xid[q]))
    <3>1. CASE found
      BY <1>2, <1>3, <3>1 DEF Lesser
    <3>2. CASE ~found
      BY <1>2, <1>3, <3>2
    <3> QED
      BY <3>1, <3>2
  <2>2. v.oldest \in Nat /\ v.oldest <= w.oldest /\ ((found /\ xmin[q] # 0) => v.oldest <= xmin[q])
    <3>1. CASE found /\ xmin[q] # 0
      BY <1>2, <1>3, <3>1 DEF Lesser
    <3>2. CASE ~(found /\ xmin[q] # 0)
      <4>1. v.oldest = w.oldest
        BY <1>3, <3>2
      <4> QED
        BY <1>2, <3>2, <4>1
    <3> QED
      BY <3>1, <3>2
  <2> QED
    BY <2>1, <2>2
<1>5. Xmins' /\ Cutoffs'
  BY <1>1, CutoffsKept
<1>6. \A r \in Backends : First(r)' <=> First(r)
  BY <1>1 DEF First
<1>7. ASSUME ~First(b) PROVE xmin[b] <= v.xmin
  <2>1. xmin[b] <= w.xmin /\ \A y \in 1..(xmin[b] - 1) : Exited(y)
    BY <1>1, <1>7 DEF CutInv, Heed, Xmins
  <2>2. found => xmin[b] <= xid[q]
    BY <1>2, <2>1, Running
  <2> QED
    BY <1>4, <2>1, <2>2
<1>8. ASSUME NEW r \in Backends \ {b}, ~First(r)
      PROVE  myXid[r] < v.xmax /\ (r \notin v.todo => v.oldest <= xmin[r])
  <2>1. myXid[r] < w.xmax /\ (r \notin w.todo => w.oldest <= xmin[r])
    BY <1>1, <1>8 DEF CutInv, Heed
  <2>2. r = q => found /\ xmin[q] # 0
    <3>1. xmin[r] \in 1..myXid[r]
      BY <1>8 DEF CutInv, Xmins
    <3>2. pc[r] \notin {"idle", "newxid", "unlock"}
      BY <1>8 DEF Inv, Prefixes, First
    <3>3. xid[r] = myXid[r] /\ myXid[r] # 0
      BY <3>2 DEF Inv, OwnXids
    <3> QED
      BY <2>1, <3>1, <3>3
  <2> QED
    BY <1>2, <1>3, <1>4, <2>1, <2>2, Running
<1>9. v.xmin > 0
  BY <1>1, <1>2, <1>4 DEF CutInv, Heed
<1>10. ASSUME NEW c \in Backends PROVE Heed(c)'
  <2>1. CASE c = b
    BY <1>1, <1>6, <1>7, <1>8, <1>9, <2>1 DEF Heed, v
  <2>2. CASE c # b
    BY <1>1, <1>3, <1>6, <2>2 DEF CutInv, Heed
  <2> QED
    BY <2>1, <2>2
<1>11. Excluding' /\ Alone'
  BY <1>1, <1>6 DEF CutInv, Excluding, Alone
<1> QED
  BY <1>1, <1>5, <1>10, <1>11 DEF CutInv

LEMMA CutOldest ==
    ASSUME Inv, CutInv, NEW b \in Backends, GetOldestXmin(b)
    PROVE  CutInv'
<1> DEFINE w == [NoWork EXCEPT !.todo = Backends, !.oldest = myXid[b]]
<1>1. /\ pc[b] = "run" /\ pc' = [pc EXCEPT ![b] = "oldest"] /\ work' = [work EXCEPT ![b] = w]
      /\ Lock!Acquire(b, "SInvalLock", "shared")
      /\ UNCHANGED <<nextXid, xid, xmin, myXid, firstSnap, querySnap, oldestXmin, recentGlobalXmin, exited>>
  BY DEF GetOldestXmin, Goto, xactVars
<1>2. pc'[b] = "oldest" /\ work'[b] = w /\ \A q \in Backends \ {b} : UNCHANGED <<pc[q], work[q]>>
  BY <1>1 DEF Inv, Types
<1>3. Xmins' /\ Cutoffs'
  BY <1>1, CutoffsKept
<1>4. \A q \in Backends : First(q)' <=> First(q)
  BY <1>1 DEF First
<1>5. w.todo = Backends /\ w.oldest = myXid[b] /\ myXid[b] <= myXid[b]
  BY Running DEF NoWork
<1> HIDE DEF w
<1>6. ASSUME NEW c \in Backends PROVE Heed(c)'
  <2>1. CASE c = b
    BY <1>1, <1>2, <1>5, <2>1 DEF Heed
  <2>2. CASE c # b
    BY <1>1, <1>2, <1>4, <2>2 DEF CutInv, Heed
  <2> QED
    BY <2>1, <2>2
<1>7. Excluding'
  BY <1>1, GrantKept, LocksTwo DEF CutInv
<1>8. Alone'
  <2>1. \A q \in Backends \ {b} : grant'[q]["SInvalLock"] = grant[q]["SInvalLock"]
    BY <1>1, LocksTwo DEF Lock!Acquire, Inv, Types
  <2> QED
    BY <1>1, <1>2, <1>4, <2>1 DEF Alone, CutInv
<1> QED
  BY <1>1, <1>3, <1>6, <1>7, <1>8 DEF CutInv

LEMMA CutScanOldest ==
    ASSUME Inv, CutInv, NEW b \in Backends, NEW q \in Backends, ScanOldest(b, q)
    PROVE  CutInv'
<1> DEFINE w == work[b]
           v == work'[b]
<1>1. /\ pc[b] = "oldest" /\ q \in w.todo
      /\ UNCHANGED <<nextXid, xid, xmin, grant, pc, myXid, firstSnap, querySnap,
                     oldestXmin, recentGlobalXmin, exited>>
  BY DEF ScanOldest, clockVars, xactVars
<1>2. /\ work \in [Backends -> Works] /\ w \in Works /\ w.oldest \in Nat
      /\ xid[q] \in Nat /\ xmin[q] \in Nat
  BY Running DEF Inv, Types, Works
<1>3. /\ \A r \in Backends \ {b} : work'[r] = work[r]
      /\ v.todo = w.todo \ {q} /\ v.oldest = OldestOf(q, w.oldest)
  <2> DEFINE u == [w EXCEPT !.todo = @ \ {q}, !.oldest = OldestOf(q, @)]
  <2>1. work' = [work EXCEPT ![b] = u]
    BY <1>2 DEF ScanOldest, Works
  <2>2. u.todo = w.todo \ {q} /\ u.oldest = OldestOf(q, w.oldest)
    BY <1>2 DEF Works
  <2> HIDE DEF u
  <2> QED
    BY <1>2, <2>1, <2>2
<1> HIDE DEF v
<1>4. /\ v.oldest \in Nat /\ v.oldest <= w.oldest
      /\ xid[q] # 0 => v.oldest <= xid[q] /\ (xmin[q] # 0 => v.oldest <= xmin[q])
  BY <1>2, <1>3 DEF OldestOf, Lesser
<1>5. Xmins' /\ Cutoffs'
  BY <1>1, CutoffsKept
<1>6. \A r \in Backends : First(r)' <=> First(r)
  BY <1>1 DEF First
<1>7. ASSUME NEW r \in Backends \ v.todo
      PROVE  /\ xid[r] # 0 => v.oldest <= xid[r]
             /\ ~First(r) => v.oldest <= xmin[r]
  <2>1. CASE r = q
    <3>1. ASSUME ~First(r) PROVE v.oldest <= xmin[r]
      <4>1. xmin[r] \in 1..myXid[r]
        BY <3>1 DEF CutInv, Xmins
      <4>2. pc[r] \notin {"idle", "newxid", "unlock"}
        BY <3>1 DEF Inv, Prefixes, First
      <4>3. xid[r] = myXid[r] /\ myXid[r] # 0
        BY <4>2 DEF Inv, OwnXids
      <4> QED
        BY <1>2, <1>4, <2>1, <4>1, <4>3
    <3> QED
      BY <1>4, <2>1, <3>1
  <2>2. CASE r # q
    <3>1. /\ xid[r] # 0 => w.oldest <= xid[r]
          /\ ~First(r) => w.oldest <= xmin[r]
      BY <1>1, <1>3, <2>2 DEF CutInv, Heed
    <3> QED
      BY <1>2, <1>4, <3>1, Running
  <2> QED
    BY <2>1, <2>2
<1>8. v.oldest <= myXid[b]
  <2>1. w.oldest <= myXid[b] /\ myXid[b] \in Nat
    BY <1>1, Running DEF CutInv, Heed
  <2> QED
    BY <1>2, <1>4, <2>1
<1>9. ASSUME NEW c \in Backends PROVE Heed(c)'
  <2>1. CASE c = b
    BY <1>1, <1>6, <1>7, <1>8, <2>1 DEF Heed, v
  <2>2. CASE c # b
    BY <1>1, <1>3, <1>6, <2>2 DEF CutInv, Heed
  <2> QED
    BY <2>1, <2>2
<1>10. Excluding' /\ Alone'
  BY <1>1, <1>6 DEF CutInv, Excluding, Alone
<1> QED
  BY <1>1, <1>5, <1>9, <1>10 DEF CutInv

\* A snapshot is complete: what is below its xmin has ended, what has ended has
\* ended for it, and its cutoff is not above the xmin of any backend in a snapshot.
LEMMA ScanDone ==
    ASSUME Inv, CutInv, NEW b \in Backends, pc[b] = "scan", work[b].todo = {},
           NEW s, s.xmin = work[b].xmin, s.xmax = work[b].xmax, s.xip = work[b].xip
    PROVE  /\ work[b].xmin \in 1..myXid[b] /\ work[b].oldest \in Nat
           /\ \A y \in 1..(work[b].xmin - 1) : Exited(y)
           /\ \A y : Exited(y) => EndedFor(s, y)
           /\ \A y \in Nat \ {0, myXid[b]} : EndedFor(s, y) => Exited(y)
           /\ \A q \in Backends \ {b} : ~First(q) => work[b].oldest <= xmin[q]
           /\ ~First(b) => xmin[b] <= work[b].xmin
<1> DEFINE w == work[b]
<1>1. Scanning(b) /\ Heed(b)
  BY DEF Inv, Scans, CutInv
<1>2. w.xmin \in Nat /\ w.xmax \in Nat /\ w.oldest \in Nat /\ myXid[b] \in Nat
  BY Running DEF Works
<1>3. w.xmin \in 1..myXid[b] /\ w.xmin < w.xmax
  BY <1>1, <1>2 DEF Scanning, Heed
<1>4. ASSUME NEW y \in 1..(w.xmin - 1) PROVE Exited(y)
  <2>1. y \in 1..(w.xmax - 1) /\ y # myXid[b] /\ ~(w.xmin <= y)
    BY <1>2, <1>3
  <2> QED
    BY <1>1, <2>1 DEF Scanning, Exited
<1>5. \A y : Exited(y) => EndedFor(s, y)
  BY <1>1 DEF Scanning, Exited, EndedFor
<1>6. (\A q \in Backends \ {b} : ~First(q) => w.oldest <= xmin[q]) /\ (~First(b) => xmin[b] <= w.xmin)
  BY <1>1 DEF Heed
<1>7. ASSUME NEW y \in Nat \ {0, myXid[b]}, EndedFor(s, y) PROVE Exited(y)
  <2>1. CASE y < w.xmin
    BY <1>2, <1>4, <2>1
  <2>2. CASE y < w.xmax /\ y \notin w.xip
    <3>1. y \in 1..(w.xmax - 1)
      BY <1>2, <2>2
    <3> QED
      BY <1>1, <2>2, <3>1 DEF Scanning, Exited
  <2> QED
    BY <1>7, <2>1, <2>2 DEF EndedFor
<1> QED
  BY <1>2, <1>3, <1>4, <1>5, <1>6, <1>7

\* What the end of GetSnapshotData does.
LEMMA EndFacts ==
    ASSUME Inv, CutInv, NEW b \in Backends, EndSnapshot(b),
           NEW s, s = [xmin |-> work[b].xmin, xmax |-> work[b].xmax, xip |-> work[b].xip]
    PROVE  /\ pc[b] = "scan" /\ work[b].todo = {} /\ pc'[b] = "run"
           /\ querySnap'[b] = s /\ firstSnap'[b] = (IF First(b) THEN s ELSE firstSnap[b]) /\ s # NoSnapshot
           /\ xmin'[b] = (IF First(b) THEN s.xmin ELSE xmin[b])
           /\ recentGlobalXmin'[b] = Lesser(work[b].oldest, s.xmin)
           /\ \A q \in Backends \ {b} :
                 UNCHANGED <<pc[q], work[q], xmin[q], firstSnap[q], querySnap[q], recentGlobalXmin[q]>>
           /\ UNCHANGED <<nextXid, xid, myXid, oldestXmin, exited>>
           /\ Lock!Release(b, "SInvalLock")
           /\ s.xmin = work[b].xmin /\ s.xmax = work[b].xmax /\ s.xip = work[b].xip
           /\ recentGlobalXmin'[b] \in Nat /\ recentGlobalXmin' \in [Backends -> Nat]
<1>1. /\ pc[b] = "scan" /\ work[b].todo = {} /\ pc' = [pc EXCEPT ![b] = "run"]
      /\ querySnap' = [querySnap EXCEPT ![b] = s]
      /\ firstSnap' = [firstSnap EXCEPT ![b] = IF First(b) THEN s ELSE @]
      /\ xmin' = [xmin EXCEPT ![b] = IF First(b) THEN s.xmin ELSE @]
      /\ recentGlobalXmin' = [recentGlobalXmin EXCEPT ![b] = Lesser(work[b].oldest, s.xmin)]
      /\ work' = [work EXCEPT ![b] = NoWork]
      /\ Lock!Release(b, "SInvalLock")
      /\ UNCHANGED <<nextXid, xid, myXid, oldestXmin, exited>>
  BY DEF EndSnapshot, Goto, xactVars
<1>2. /\ s.xmin = work[b].xmin /\ s.xmax = work[b].xmax /\ s.xip = work[b].xip
  OBVIOUS
<1>3. /\ pc \in [Backends -> PCs] /\ work \in [Backends -> Works] /\ xmin \in [Backends -> Nat]
      /\ firstSnap \in [Backends -> Snapshots] /\ querySnap \in [Backends -> Snapshots]
      /\ recentGlobalXmin \in [Backends -> Nat]
  BY DEF Inv, Types, CutInv
<1>4. s.xmin > 0 /\ work[b].oldest \in Nat /\ s.xmin \in Nat
  BY <1>1, <1>2, ScanDone, Running
<1>5. s # NoSnapshot
  BY <1>4 DEF NoSnapshot
<1>6. Lesser(work[b].oldest, s.xmin) \in Nat
  BY <1>4 DEF Lesser
<1> QED
  BY <1>1, <1>2, <1>3, <1>5, <1>6

LEMMA CutEnd ==
    ASSUME Inv, CutInv, NEW b \in Backends, EndSnapshot(b)
    PROVE  CutInv'
<1> DEFINE w == work[b]
           s == [xmin |-> w.xmin, xmax |-> w.xmax, xip |-> w.xip]
           c == recentGlobalXmin'[b]
<1>1. /\ pc[b] = "scan" /\ w.todo = {} /\ pc'[b] = "run"
      /\ querySnap'[b] = s /\ firstSnap'[b] = (IF First(b) THEN s ELSE firstSnap[b]) /\ s # NoSnapshot
      /\ xmin'[b] = (IF First(b) THEN s.xmin ELSE xmin[b])
      /\ c = Lesser(w.oldest, s.xmin)
      /\ UNCHANGED <<nextXid, xid, myXid, oldestXmin, exited>>
      /\ Lock!Release(b, "SInvalLock")
      /\ s.xmin = w.xmin /\ s.xmax = w.xmax /\ s.xip = w.xip
      /\ c \in Nat /\ recentGlobalXmin' \in [Backends -> Nat]
  BY EndFacts
<1>2. \A q \in Backends \ {b} :
          UNCHANGED <<pc[q], work[q], xmin[q], firstSnap[q], querySnap[q], recentGlobalXmin[q]>>
  BY EndFacts
<1> HIDE DEF s
<1>3. /\ w.xmin \in 1..myXid[b] /\ w.oldest \in Nat
      /\ \A y \in 1..(w.xmin - 1) : Exited(y)
      /\ \A y : Exited(y) => EndedFor(s, y)
      /\ \A q \in Backends \ {b} : ~First(q) => w.oldest <= xmin[q]
      /\ ~First(b) => xmin[b] <= w.xmin
  BY <1>1, ScanDone
<1> HIDE DEF c
<1>4. c <= w.oldest /\ c <= w.xmin /\ w.xmin \in Nat
  BY <1>1, <1>3, Running DEF Lesser
<1>5. \A y : Exited(y)' <=> Exited(y)
  BY <1>1 DEF Exited
<1>6. \A t, y : EndedFor(t, y)' <=> EndedFor(t, y)
  BY DEF EndedFor
<1>7. /\ \A q \in Backends \ {b} : InUse(q)' = InUse(q) /\ First(q)' = First(q)
      /\ ~First(b)' /\ \A t \in InUse(b)' : t = s \/ (~First(b) /\ t = firstSnap[b] /\ t \in InUse(b))
  BY <1>1, <1>2 DEF InUse, First
<1>8. Xmins'
  <2>1. ASSUME NEW q \in Backends \ {b}
        PROVE  /\ First(q)' => querySnap'[q] = NoSnapshot
               /\ ~First(q)' => /\ xmin'[q] \in 1..myXid'[q]
                                /\ \A t \in InUse(q)' : xmin'[q] <= t.xmin
                                /\ \A y \in 1..(xmin'[q] - 1) : Exited(y)'
    BY <1>1, <1>2, <1>5, <1>7 DEF CutInv, Xmins
  <2>2. CASE First(b)
    BY <1>1, <1>3, <1>4, <1>5, <1>7, <2>1, <2>2 DEF Xmins
  <2>3. CASE ~First(b)
    <3>1. /\ xmin[b] \in 1..myXid[b] /\ \A t \in InUse(b) : xmin[b] <= t.xmin
          /\ \A y \in 1..(xmin[b] - 1) : Exited(y)
      BY <2>3 DEF CutInv, Xmins
    <3>2. xmin'[b] \in 1..myXid'[b] /\ \A y \in 1..(xmin'[b] - 1) : Exited(y)'
      BY <1>1, <1>5, <2>3, <3>1
    <3>3. \A t \in InUse(b)' : xmin'[b] <= t.xmin
      BY <1>1, <1>3, <1>7, <2>3, <3>1
    <3> QED
      BY <1>7, <2>1, <3>2, <3>3 DEF Xmins
  <2> QED
    BY <2>2, <2>3
<1>9. ASSUME NEW r \in Backends PROVE Heed(r)'
  <2>1. CASE r = b
    BY <1>1, <2>1 DEF Heed
  <2>2. CASE r # b /\ First(b)
    <3>1. grant[b]["SInvalLock"] = "exclusive"
      BY <1>1, <2>2 DEF CutInv, Alone
    <3>2. grant[r]["SInvalLock"] = "none"
      BY <2>2, <3>1, LocksTwo DEF CutInv, Excluding
    <3>3. pc[r] \notin {"scan", "oldest"}
      BY <3>2 DEF Inv, Holding
    <3> QED
      BY <1>2, <2>2, <3>3 DEF Heed
  <2>3. CASE r # b /\ ~First(b)
    <3>1. Heed(r) /\ UNCHANGED <<pc[r], work[r], xid, myXid>>
      BY <1>1, <1>2, <2>3 DEF CutInv
    <3>2. ASSUME NEW q \in Backends PROVE (First(q)' <=> First(q)) /\ xmin'[q] = xmin[q]
      <4>1. CASE q = b
        BY <1>1, <1>7, <2>3, <4>1
      <4>2. CASE q # b
        BY <1>2, <1>7, <4>2
      <4> QED
        BY <4>1, <4>2
    <3> QED
      BY <3>1, <3>2 DEF Heed
  <2> QED
    BY <2>1, <2>2, <2>3
<1>10. Excluding'
  BY <1>1, GrantKept, LocksTwo DEF CutInv
<1>11. Alone'
  <2>1. \A q \in Backends \ {b} : grant'[q] = grant[q]
    BY <1>1 DEF Lock!Release, Inv, Types
  <2> QED
    BY <1>1, <1>2, <1>7, <2>1 DEF Alone, CutInv
<1>12. ASSUME NEW v \in Backends, NEW y \in 1..(oldestXmin'[v] - 1)
       PROVE  Exited(y) /\ \A q \in Backends : \A t \in InUse(q)' : EndedFor(t, y)
  <2>1. Exited(y) /\ \A q \in Backends : \A t \in InUse(q) : EndedFor(t, y)
    BY <1>1 DEF CutInv, Cutoffs
  <2> QED
    BY <1>3, <1>7, <2>1
<1>13. ASSUME NEW v \in Backends, NEW y \in 1..(recentGlobalXmin'[v] - 1)
       PROVE  /\ Exited(y)
              /\ \A q \in Backends \ {v} : \A t \in InUse(q)' : EndedFor(t, y)
              /\ querySnap'[v] # NoSnapshot => EndedFor(querySnap'[v], y)
  <2>1. CASE v = b
    <3>1. y \in Nat /\ y < c /\ y \in 1..(w.xmin - 1)
      BY <1>1, <1>4, <2>1 DEF c
    <3>2. Exited(y) /\ EndedFor(s, y)
      BY <1>3, <3>1
    <3>3. ASSUME NEW q \in Backends \ {b}, NEW t \in InUse(q) PROVE EndedFor(t, y)
      <4>1. ~First(q) /\ xmin[q] \in Nat /\ \A z \in Nat : z < xmin[q] => EndedFor(t, z)
        BY Using, Running
      <4>2. w.oldest <= xmin[q]
        BY <1>3, <4>1
      <4>3. y < xmin[q]
        BY <1>1, <1>3, <1>4, <3>1, <4>1, <4>2
      <4> QED
        BY <3>1, <4>1, <4>3
    <3> QED
      BY <1>1, <1>7, <2>1, <3>2, <3>3
  <2>2. CASE v # b
    <3>1. /\ Exited(y) /\ \A q \in Backends \ {v} : \A t \in InUse(q) : EndedFor(t, y)
          /\ querySnap[v] # NoSnapshot => EndedFor(querySnap[v], y)
      BY <1>2, <2>2 DEF CutInv, Cutoffs
    <3> QED
      BY <1>2, <1>3, <1>7, <2>2, <3>1
  <2> QED
    BY <2>1, <2>2
<1>14. Cutoffs'
  BY <1>5, <1>6, <1>12, <1>13 DEF Cutoffs
<1> QED
  BY <1>1, <1>8, <1>9, <1>10, <1>11, <1>14 DEF CutInv

\* The cutoff of VACUUM: whatever runs is not below it, since a transaction that has
\* an xid and does not show it yet has the newest one.
LEMMA CutEndOldest ==
    ASSUME Inv, CutInv, NEW b \in Backends, EndOldest(b)
    PROVE  CutInv'
<1> DEFINE c == work[b].oldest
<1>1. /\ pc[b] = "oldest" /\ work[b].todo = {} /\ pc' = [pc EXCEPT ![b] = "run"]
      /\ oldestXmin' = [oldestXmin EXCEPT ![b] = c] /\ work' = [work EXCEPT ![b] = NoWork]
      /\ Lock!Release(b, "SInvalLock")
      /\ UNCHANGED <<nextXid, xid, xmin, myXid, firstSnap, querySnap, recentGlobalXmin, exited>>
  BY DEF EndOldest, Goto, xactVars
<1>2. /\ pc \in [Backends -> PCs] /\ work \in [Backends -> Works] /\ c \in Nat
      /\ oldestXmin \in [Backends -> Nat] /\ recentGlobalXmin \in [Backends -> Nat]
  BY DEF Inv, Types, CutInv, Works
<1>3. /\ c <= myXid[b]
      /\ \A q \in Backends : (xid[q] # 0 => c <= xid[q]) /\ (~First(q) => c <= xmin[q])
  BY <1>1 DEF CutInv, Heed
<1>4. /\ pc'[b] = "run" /\ oldestXmin'[b] = c /\ oldestXmin' \in [Backends -> Nat]
      /\ \A q \in Backends \ {b} : UNCHANGED <<pc[q], work[q], oldestXmin[q]>>
  BY <1>1, <1>2
<1> HIDE DEF c
<1>5. ASSUME NEW y \in 1..(c - 1) PROVE Exited(y)
  <2>1. y \in Nat /\ y < c /\ y # 0 /\ y \in 1..(nextXid - 1)
    BY <1>2, <1>3, Running
  <2>2. SUFFICES ASSUME NEW q \in Backends, myXid[q] = y, pc[q] # "unlock" PROVE FALSE
    BY <2>1 DEF Inv, Ends, Exited
  <2>3. CASE pc[q] = "newxid"
    <3>1. y = nextXid - 1
      BY <2>2, <2>3 DEF CutInv, Alone
    <3> QED
      BY <1>2, <1>3, <2>1, <3>1, Running
  <2>4. CASE pc[q] # "newxid"
    <3>1. xid[q] = y
      BY <2>1, <2>2, <2>4 DEF Inv, OwnXids
    <3> QED
      BY <1>2, <1>3, <2>1, <3>1
  <2> QED
    BY <2>3, <2>4
<1>6. ASSUME NEW y \in 1..(c - 1), NEW q \in Backends, NEW t \in InUse(q)
      PROVE  EndedFor(t, y)
  <2>1. ~First(q) /\ xmin[q] \in Nat /\ \A z \in Nat : z < xmin[q] => EndedFor(t, z)
    BY Using, Running
  <2>2. y \in Nat /\ y < xmin[q]
    BY <1>2, <1>3, <2>1
  <2> QED
    BY <2>1, <2>2
<1>7. \A q \in Backends : First(q)' = First(q) /\ InUse(q)' = InUse(q)
  BY <1>1 DEF First, InUse
<1>8. (\A t, y : EndedFor(t, y)' <=> EndedFor(t, y)) /\ \A y : Exited(y)' <=> Exited(y)
  BY <1>1 DEF EndedFor, Exited
<1>9. Xmins'
  BY <1>1, <1>7, <1>8 DEF CutInv, Xmins
<1>10. ASSUME NEW v \in Backends, NEW y \in 1..(oldestXmin'[v] - 1)
       PROVE  Exited(y) /\ \A q \in Backends : \A t \in InUse(q) : EndedFor(t, y)
  <2>1. CASE v = b
    BY <1>4, <1>5, <1>6, <2>1
  <2>2. CASE v # b
    BY <1>4, <2>2 DEF CutInv, Cutoffs
  <2> QED
    BY <2>1, <2>2
<1>11. Cutoffs'
  BY <1>1, <1>7, <1>8, <1>10 DEF CutInv, Cutoffs
<1>12. ASSUME NEW r \in Backends PROVE Heed(r)'
  BY <1>1, <1>4, <1>7 DEF CutInv, Heed
<1>13. Excluding'
  BY <1>1, GrantKept, LocksTwo DEF CutInv
<1>14. Alone'
  <2>1. \A q \in Backends \ {b} : grant'[q] = grant[q]
    BY <1>1 DEF Lock!Release, Inv, Types
  <2> QED
    BY <1>1, <1>4, <1>7, <2>1 DEF Alone, CutInv
<1> QED
  BY <1>1, <1>2, <1>4, <1>9, <1>11, <1>12, <1>13, <1>14 DEF CutInv

\* The steps that touch neither the PGPROCs nor the snapshots.
LEMMA CutAside ==
    ASSUME Inv, CutInv, NEW b \in Backends,
           \/ XactLockTableInsert(b) \/ ExamineVersion(b) \/ XactLockTableWait(b) \/ VacuumVersion(b)
           \/ \E x \in Xids : ChooseVersion(b, x) \/ VacuumPage(b, x) \/ KillPriorTuple(b, x)
    PROVE  CutInv'
<1>1. pc \in [Backends -> PCs] /\ oldestXmin \in [Backends -> Nat] /\ recentGlobalXmin \in [Backends -> Nat]
  BY DEF Inv, Types, CutInv
<1> USE DEF Goto, BackToQuery, clockVars, xactVars, snapVars
<1>2. UNCHANGED <<nextXid, grant, work, exited, oldestXmin, recentGlobalXmin, firstSnap, querySnap,
                  xmin, myXid, xid>>
  <2>1. CASE XactLockTableInsert(b) \/ XactLockTableWait(b) \/ VacuumVersion(b)
    BY <2>1 DEF XactLockTableInsert, XactLockTableWait, VacuumVersion
  <2>2. CASE ExamineVersion(b)
    BY <2>2 DEF ExamineVersion
  <2>3. CASE \E x \in Xids : ChooseVersion(b, x) \/ VacuumPage(b, x) \/ KillPriorTuple(b, x)
    BY <2>3 DEF ChooseVersion, VacuumPage, KillPriorTuple
  <2> QED
    BY <2>1, <2>2, <2>3
<1>3. \/ pc' = pc /\ pc[b] \in {"run", "update"}
      \/ \E l \in {"run", "update", "wait", "vacuum", "failed"} : pc' = [pc EXCEPT ![b] = l]
  <2>1. CASE XactLockTableInsert(b) \/ XactLockTableWait(b) \/ VacuumVersion(b)
    BY <2>1 DEF XactLockTableInsert, XactLockTableWait, VacuumVersion
  <2>2. CASE ExamineVersion(b)
    BY <2>2 DEF ExamineVersion, NothingToDo, Update, MarkForUpdate, FollowUpdate, WaitForUpdate
  <2>3. CASE \E x \in Xids : ChooseVersion(b, x) \/ VacuumPage(b, x) \/ KillPriorTuple(b, x)
    BY <2>3 DEF ChooseVersion, VacuumPage, KillPriorTuple
  <2> QED
    BY <2>1, <2>2, <2>3
<1>4. pc'[b] \notin {"newxid", "xmax", "scan", "oldest"} /\ \A q \in Backends \ {b} : pc'[q] = pc[q]
  BY <1>1, <1>3
<1> QED
  BY <1>1, <1>2, <1>4, CutQuiet

LEMMA CutNext == Inv /\ CutInv /\ [Next]_vars => CutInv'
<1> SUFFICES ASSUME Inv, CutInv, [Next]_vars PROVE CutInv'
  OBVIOUS
<1>1. ASSUME NEW b \in Backends, Step(b) PROVE CutInv'
  BY <1>1, CutStore, CutAside, CutRead, CutEnd, CutEndOldest, CutScan, CutScanOldest, CutLeave DEF Step
<1>2. ASSUME NEW b \in Backends, Call(b) PROVE CutInv'
  BY <1>2, CutNewXid, CutQuery, CutOldest, CutAside, CutRecord DEF Call
<1>3. CASE UNCHANGED vars
  <2>1. UNCHANGED <<nextXid, xid, xmin, grant, pc, myXid, work, firstSnap, querySnap, oldestXmin,
                    recentGlobalXmin, exited>>
    BY <1>3 DEF vars, clockVars, xactVars, snapVars
  <2>2. Excluding' /\ Alone' /\ oldestXmin' \in [Backends -> Nat] /\ recentGlobalXmin' \in [Backends -> Nat]
    BY <2>1 DEF CutInv, Excluding, Alone, First
  <2>3. Xmins' /\ Cutoffs'
    BY <2>1, CutoffsKept
  <2>4. \A b \in Backends : Heed(b)'
    BY <2>1 DEF CutInv, Heed, First
  <2> QED
    BY <2>2, <2>3, <2>4 DEF CutInv
<1> QED
  BY <1>1, <1>2, <1>3 DEF Next
-----------------------------------------------------------------------------
(***************************************************************************)
(* The versions of the row.                                                *)
(***************************************************************************)
LEMMA RowInit == Init => RowInv
<1> SUFFICES ASSUME Init PROVE RowInv
  OBVIOUS
<1>1. 0 \in Xids /\ MaxXid \in Nat
  BY MaxXidNat DEF Xids
<1>2. /\ clog \in [Xids -> {"running", "committed", "aborted"}]
      /\ \A x \in Xids : DidCommit(x) <=> x = 0
      /\ heap[0].xmax = 0 /\ heap[0].marked = FALSE /\ DOMAIN heap = {0} /\ DOMAIN killer = {}
      /\ nextXid = 1
  BY <1>1 DEF Init, DidCommit
<1>3. RowTypes /\ Committed /\ Inserted
  <2>1. \A x \in DOMAIN heap : x = 0 /\ heap[x].xmax \in 0..(nextXid - 1) /\ heap[x].marked \in BOOLEAN
    <3>1. 0 \in 0..(nextXid - 1)
      BY <1>2
    <3> QED
      BY <1>2, <3>1
  <2>2. nextXid <= MaxXid + 1
    BY <1>1, <1>2
  <2>3. DOMAIN heap \subseteq Xids
    BY <1>1, <1>2
  <2>4. RowTypes
    BY <1>1, <1>2, <2>1, <2>2, <2>3 DEF RowTypes
  <2> QED
    BY <1>2, <2>1, <2>4 DEF Committed, Inserted
<1>4. Own /\ Chosen /\ Kills
  BY <1>1, <1>2 DEF Init, Own, Chosen, Kills
<1>5. \A S \in SUBSET Xids : Live(0, S)
  BY <1>1, <1>2 DEF Live, Counted
<1>6. AlwaysOne
  BY <1>2, <1>5 DEF AlwaysOne
<1>7. NoVersionLost
  BY DEF Init, NoVersionLost, InUse
<1> QED
  BY <1>3, <1>4, <1>6, <1>7 DEF RowInv

LEMMA Bounded ==
    ASSUME Inv, RowInv
    PROVE  /\ \A x \in 0..(nextXid - 1) : x \in Xids
           /\ \A x \in Xids : x \in Nat
           /\ 0 \in Xids
<1>1. nextXid \in Nat /\ nextXid <= MaxXid + 1 /\ MaxXid \in Nat
  BY MaxXidNat DEF RowInv, RowTypes, Inv, Types
<1> QED
  BY <1>1 DEF Xids

\* A running transaction has not committed, and all xids that were assigned are in
\* the bound.
LEMMA Mine ==
    ASSUME Inv, RowInv, NEW b \in Backends
    PROVE  /\ pc[b] \notin {"idle", "exit", "unlock"} =>
                 myXid[b] \in Xids \ {0} /\ ~DidCommit(myXid[b]) /\ ~Exited(myXid[b])
           /\ \A x \in 0..(nextXid - 1) : x \in Xids
           /\ \A x \in Xids : x \in Nat
           /\ \A q \in Backends : myXid[b] = myXid[q] /\ myXid[b] # 0 => b = q
           /\ nextXid \in Nat
<1>1. nextXid \in Nat /\ nextXid <= MaxXid + 1 /\ MaxXid \in Nat
  BY Running, MaxXidNat DEF RowInv, RowTypes
<1>2. (\A x \in 0..(nextXid - 1) : x \in Xids) /\ \A x \in Xids : x \in Nat
  BY <1>1 DEF Xids
<1>3. \A q \in Backends : myXid[b] = myXid[q] /\ myXid[b] # 0 => b = q
  BY DEF Inv, OwnXids
<1>4. ASSUME pc[b] \notin {"idle", "exit", "unlock"}
      PROVE  myXid[b] \in Xids \ {0} /\ ~DidCommit(myXid[b]) /\ ~Exited(myXid[b])
  <2>1. myXid[b] # 0 /\ ~Exited(myXid[b])
    BY <1>4, Running DEF Inv, OwnXids
  <2>2. myXid[b] \in Xids
    BY <1>1, <1>2, Running
  <2>3. \A q \in Backends : myXid[q] = myXid[b] => pc[q] # "exit"
    BY <1>3, <1>4, <2>1
  <2> QED
    BY <2>1, <2>2, <2>3 DEF RowInv, Committed
<1> QED
  BY <1>1, <1>2, <1>3, <1>4

\* Steps that change neither the row, nor who has committed or ended, nor a snapshot.
LEMMA RowFrame ==
    ASSUME RowInv, UNCHANGED <<heap, killer, exited, firstSnap, querySnap, myXid, nextXid>>,
           clog' \in [Xids -> {"running", "committed", "aborted"}],
           \A x \in Xids : DidCommit(x)' <=> DidCommit(x),
           \A q \in Backends : xid'[q] = xid[q] \/ xid[q] = 0,
           \A q \in Backends : pc'[q] = pc[q] \/ pc[q] \notin {"exit", "unlock"},
           Inv
    PROVE  RowTypes' /\ Committed' /\ Inserted' /\ Own' /\ AlwaysOne' /\ NoVersionLost' /\ Kills'
<1>1. /\ \A x : Exited(x)' <=> Exited(x)
      /\ \A s, x : EndedFor(s, x)' <=> EndedFor(s, x)
      /\ \A q \in Backends : InUse(q)' = InUse(q) /\ (First(q)' <=> First(q))
  BY DEF Exited, EndedFor, InUse, First
<1>2. /\ \A x \in DOMAIN heap : x \in Xids /\ heap[x].xmax \in Xids
      /\ \A q \in Backends : myXid[q] \in Xids
      /\ 0 \in Xids
  <2>1. 0 \in Xids
    BY MaxXidNat DEF Xids
  <2>2. \A x \in 0..(nextXid - 1) : x \in Xids
    BY Bounded
  <2>3. ASSUME NEW q \in Backends PROVE myXid[q] \in Xids
    BY <2>2, Running
  <2> QED
    BY <2>1, <2>2, <2>3 DEF RowInv, RowTypes
<1>3. RowTypes'
  BY <1>2 DEF RowInv, RowTypes
<1>4. Committed'
  BY <1>1 DEF RowInv, Committed
<1>5. Inserted'
  <2>1. ASSUME NEW x \in DOMAIN heap, x # 0, ~Exited(x)
        PROVE  \E q \in Backends : xid'[q] = x
    <3>1. PICK q \in Backends : xid[q] = x
      BY <2>1 DEF RowInv, Inserted
    <3> QED
      BY <2>1, <3>1
  <2> QED
    BY <1>1, <2>1 DEF Inserted
<1>6. Own'
  <2>1. ASSUME NEW q \in Backends, myXid[q] # 0, ~DidCommit(myXid[q])', pc'[q] # "unlock"
        PROVE  /\ \A x \in DOMAIN heap : heap[x].xmax = myXid[q] /\ ~heap[x].marked => myXid[q] \in DOMAIN heap
               /\ myXid[q] \in DOMAIN heap => heap[myXid[q]].xmax = 0 \/ heap[myXid[q]].marked
    <3>1. ~DidCommit(myXid[q])
      BY <1>2, <2>1
    <3> QED
      BY <2>1, <3>1 DEF RowInv, Own
  <2> QED
    BY <2>1 DEF Own
<1>7. AlwaysOne'
  <2>1. \A x \in DOMAIN heap, S \in SUBSET Xids : Live(x, S)' <=> Live(x, S)
    BY <1>2 DEF Live, Counted
  <2> QED
    BY <2>1 DEF RowInv, AlwaysOne
<1>8. NoVersionLost'
  <2>1. \A q \in Backends, x \in DOMAIN heap : \A s : SatisfiesSnapshot(q, s, x)' <=> SatisfiesSnapshot(q, s, x)
    BY <1>1, <1>2 DEF SatisfiesSnapshot, Sees
  <2> QED
    BY <1>1, <2>1 DEF RowInv, NoVersionLost
<1>9. Kills'
  <2>1. \A x \in DOMAIN heap : Dead(x, heap[x].xmax) => Dead(x, heap[x].xmax)'
    BY <1>1, <1>2 DEF Dead
  <2> QED
    BY <1>1, <2>1 DEF RowInv, Kills
<1> QED
  BY <1>3, <1>4, <1>5, <1>6, <1>7, <1>8, <1>9

LEMMA RowQuiet ==
    ASSUME RowInv, Inv, NEW b \in Backends,
           UNCHANGED <<clog, heap, killer, version, xwait, exited, firstSnap, querySnap, myXid, nextXid>>,
           \A q \in Backends : xid'[q] = xid[q] \/ xid[q] = 0,
           \A q \in Backends \ {b} : pc'[q] = pc[q],
           pc[b] \notin {"exit", "unlock"}, pc'[b] \notin {"update", "wait", "vacuum"}
    PROVE  RowInv'
<1>1. \A q \in Backends : pc'[q] = pc[q] \/ pc[q] \notin {"exit", "unlock"}
  OBVIOUS
<1>2. clog' \in [Xids -> {"running", "committed", "aborted"}] /\ \A x \in Xids : DidCommit(x)' <=> DidCommit(x)
  BY DEF RowInv, RowTypes, DidCommit
<1>3. RowTypes' /\ Committed' /\ Inserted' /\ Own' /\ AlwaysOne' /\ NoVersionLost' /\ Kills'
  BY <1>1, <1>2, RowFrame
<1>4. Chosen'
  BY DEF RowInv, Chosen, DidCommit, Exited
<1> QED
  BY <1>3, <1>4 DEF RowInv

LEMMA RowScans ==
    ASSUME Inv, RowInv, NEW b \in Backends,
           \/ StoreXid(b) \/ XactLockTableInsert(b) \/ SetQuerySnapshot(b) \/ ReadNewTransactionId(b)
           \/ GetOldestXmin(b) \/ EndOldest(b)
           \/ \E q \in Backends : ScanProc(b, q) \/ ScanOldest(b, q)
    PROVE  RowInv'
<1>1. pc \in [Backends -> PCs] /\ xid \in [Backends -> Nat]
  BY DEF Inv, Types
<1>2. pc[b] = "newxid" => xid[b] = 0
  BY DEF Inv, OwnXids
<1> USE DEF Goto, clockVars, rowVars, xactVars, snapVars, updVars
<1>3. CASE StoreXid(b)
  BY <1>1, <1>2, <1>3, RowQuiet DEF StoreXid
<1>4. CASE XactLockTableInsert(b)
  BY <1>1, <1>4, RowQuiet DEF XactLockTableInsert
<1>5. CASE SetQuerySnapshot(b)
  BY <1>1, <1>5, RowQuiet DEF SetQuerySnapshot
<1>6. CASE ReadNewTransactionId(b)
  BY <1>1, <1>6, RowQuiet DEF ReadNewTransactionId
<1>7. CASE GetOldestXmin(b)
  BY <1>1, <1>7, RowQuiet DEF GetOldestXmin
<1>8. CASE EndOldest(b)
  BY <1>1, <1>8, RowQuiet DEF EndOldest
<1>9. ASSUME NEW q \in Backends, ScanProc(b, q) PROVE RowInv'
  BY <1>1, <1>9, RowQuiet DEF ScanProc
<1>10. ASSUME NEW q \in Backends, ScanOldest(b, q) PROVE RowInv'
  BY <1>1, <1>10, RowQuiet DEF ScanOldest
<1> QED
  BY <1>3, <1>4, <1>5, <1>6, <1>7, <1>8, <1>9, <1>10

\* A new transaction has no versions yet.
LEMMA RowNewXid ==
    ASSUME Inv, RowInv, NEW b \in Backends, GetNewTransactionId(b)
    PROVE  RowInv'
<1>1. /\ pc[b] = "idle" /\ pc' = [pc EXCEPT ![b] = "newxid"] /\ nextXid <= MaxXid
      /\ myXid' = [myXid EXCEPT ![b] = nextXid] /\ nextXid' = nextXid + 1
      /\ UNCHANGED <<xid, clog, heap, killer, firstSnap, querySnap, version, xwait, exited>>
  BY DEF GetNewTransactionId, Goto, snapVars, rowVars, updVars
<1>2. /\ pc'[b] = "newxid" /\ myXid'[b] = nextXid
      /\ \A q \in Backends \ {b} : UNCHANGED <<pc[q], myXid[q]>>
  BY <1>1 DEF Inv, Types
<1>3. /\ \A x : DidCommit(x)' <=> DidCommit(x)
      /\ \A x : Exited(x)' <=> Exited(x)
      /\ \A s, x : EndedFor(s, x)' <=> EndedFor(s, x)
      /\ \A q \in Backends : InUse(q)' = InUse(q) /\ First(q)' = First(q)
  BY <1>1 DEF DidCommit, Exited, EndedFor, InUse, First
<1>4. nextXid \in Nat /\ MaxXid \in Nat
  BY Mine, MaxXidNat
<1>5. RowTypes'
  BY <1>1, <1>3, <1>4 DEF RowInv, RowTypes
<1>6. Committed'
  BY <1>1, <1>2, <1>3 DEF RowInv, Committed
<1>7. Inserted' /\ AlwaysOne' /\ Kills'
  BY <1>1, <1>3 DEF RowInv, Inserted, AlwaysOne, Live, Counted, Kills, Dead
<1>8. Own'
  <2>1. nextXid \notin DOMAIN heap
    <3>1. nextXid # 0 /\ ~Exited(nextXid)
      BY <1>4, Running DEF Inv, Types
    <3>2. ASSUME NEW q \in Backends PROVE xid[q] # nextXid
      <4>1. myXid[q] < nextXid /\ myXid[q] \in Nat /\ (xid[q] = 0 \/ xid[q] = myXid[q])
        BY Running
      <4> QED
        BY <1>4, <3>1, <4>1
    <3> QED
      BY <3>1, <3>2 DEF RowInv, Inserted
  <2>2. \A x \in DOMAIN heap : heap[x].xmax # nextXid
    BY <1>4 DEF RowInv, RowTypes
  <2>3. ASSUME NEW q \in Backends \ {b}, myXid'[q] # 0, ~DidCommit(myXid'[q]), pc'[q] # "unlock"
        PROVE  /\ \A x \in DOMAIN heap : heap[x].xmax = myXid'[q] /\ ~heap[x].marked => myXid'[q] \in DOMAIN heap
               /\ myXid'[q] \in DOMAIN heap => heap[myXid'[q]].xmax = 0 \/ heap[myXid'[q]].marked
    BY <1>2, <2>3 DEF RowInv, Own
  <2> QED
    BY <1>1, <1>2, <1>3, <2>1, <2>2, <2>3 DEF Own
<1>9. Chosen'
  BY <1>1, <1>2, <1>3 DEF RowInv, Chosen
<1>10. NoVersionLost'
  <2>1. InUse(b) = {}
    BY <1>1 DEF Inv, Prefixes, InUse
  <2>2. ASSUME NEW q \in Backends, NEW s \in InUse(q)'
        PROVE  \E x \in DOMAIN heap' : SatisfiesSnapshot(q, s, x)'
    <3>1. s \in InUse(q) /\ q # b
      BY <1>3, <2>1
    <3>2. PICK x \in DOMAIN heap : SatisfiesSnapshot(q, s, x)
      BY <3>1 DEF RowInv, NoVersionLost
    <3>3. SatisfiesSnapshot(q, s, x)'
      BY <1>1, <1>2, <1>3, <3>1, <3>2 DEF SatisfiesSnapshot, Sees
    <3> QED
      BY <1>1, <3>3
  <2> QED
    BY <2>2 DEF NoVersionLost
<1> QED
  BY <1>5, <1>6, <1>7, <1>8, <1>9, <1>10 DEF RowInv

\* A transaction ends.
LEMMA RowLeave ==
    ASSUME Inv, RowInv, NEW b \in Backends, LeaveProcArray(b)
    PROVE  RowInv'
<1>1. /\ pc[b] = "exit" /\ pc' = [pc EXCEPT ![b] = "unlock"] /\ xid' = [xid EXCEPT ![b] = 0]
      /\ exited' = Append(exited, myXid[b])
      /\ UNCHANGED <<nextXid, myXid, clog, heap, killer, firstSnap, querySnap, version, xwait>>
  BY DEF LeaveProcArray, Goto, snapVars, rowVars, updVars, xactVars
<1>2. /\ pc'[b] = "unlock" /\ xid'[b] = 0
      /\ \A q \in Backends \ {b} : UNCHANGED <<pc[q], xid[q]>>
  BY <1>1 DEF Inv, Types
<1>3. /\ \A x : DidCommit(x)' <=> DidCommit(x)
      /\ \A s, x : EndedFor(s, x)' <=> EndedFor(s, x)
      /\ \A q \in Backends : InUse(q)' = InUse(q) /\ First(q)' = First(q)
  BY <1>1 DEF DidCommit, EndedFor, InUse, First
<1>4. exited \in Seq(Nat) /\ Len(exited) \in Nat /\ myXid[b] \in Nat /\ xid[b] = myXid[b]
  <2>1. exited \in Seq(Nat) /\ myXid \in [Backends -> Nat]
    BY DEF Inv, Types
  <2>2. xid[b] = myXid[b]
    BY <1>1 DEF Inv, OwnXids
  <2> QED
    BY <2>1, <2>2
<1>5. /\ \A x : Exited(x) => Exited(x)'
      /\ \A S : (\A i \in 1..Len(exited') : exited'[i] \in S) => \A i \in 1..Len(exited) : exited[i] \in S
      /\ \A x : x = myXid[b] => Exited(x)'
  <2>1. \A x : Exited(x) => Exited(x)'
    BY <1>1, <1>4, ExitedKept
  <2>2. /\ Len(exited') = Len(exited) + 1 /\ exited'[Len(exited) + 1] = myXid[b]
        /\ \A i \in 1..Len(exited) : i \in 1..Len(exited') /\ exited'[i] = exited[i]
        /\ Len(exited) + 1 \in 1..Len(exited')
    BY <1>1, <1>4, AppendProperties
  <2>3. \A x : x = myXid[b] => Exited(x)'
    BY <2>2 DEF Exited
  <2>4. \A S : (\A i \in 1..Len(exited') : exited'[i] \in S) => \A i \in 1..Len(exited) : exited[i] \in S
    BY <2>2
  <2> QED
    BY <2>1, <2>3, <2>4
<1>6. RowTypes'
  BY <1>1, <1>3 DEF RowInv, RowTypes
<1>7. Committed'
  <2>1. ASSUME NEW x \in Xids, DidCommit(x), x # 0, ~Exited(x)
        PROVE  Exited(x)' \/ \E q \in Backends : myXid'[q] = x /\ pc'[q] = "exit"
    <3>1. PICK q \in Backends : myXid[q] = x /\ pc[q] = "exit"
      BY <2>1 DEF RowInv, Committed
    <3> QED
      BY <1>1, <1>2, <1>5, <3>1
  <2> QED
    BY <1>3, <1>5, <2>1 DEF Committed
<1>8. Inserted'
  <2>1. ASSUME NEW x \in DOMAIN heap, x # 0, ~Exited(x)
        PROVE  Exited(x)' \/ \E q \in Backends : xid'[q] = x
    <3>1. PICK q \in Backends : xid[q] = x
      BY <2>1 DEF RowInv, Inserted
    <3> QED
      BY <1>2, <1>4, <1>5, <3>1
  <2> QED
    BY <1>1, <1>5, <2>1 DEF Inserted
<1>9. Own'
  BY <1>1, <1>2, <1>3 DEF RowInv, Own
<1>10. Chosen'
  BY <1>1, <1>2, <1>3, <1>5 DEF RowInv, Chosen
<1>11. AlwaysOne'
  <2>1. \A x, S : Live(x, S)' <=> Live(x, S)
    BY <1>1, <1>3 DEF Live, Counted
  <2> QED
    BY <1>1, <1>5, <2>1 DEF RowInv, AlwaysOne
<1>12. NoVersionLost'
  BY <1>1, <1>3 DEF RowInv, NoVersionLost, SatisfiesSnapshot, Sees
<1>13. Kills'
  BY <1>1, <1>3, <1>5 DEF RowInv, Kills, Dead
<1> QED
  BY <1>6, <1>7, <1>8, <1>9, <1>10, <1>11, <1>12, <1>13 DEF RowInv

LEMMA RowRelease ==
    ASSUME Inv, RowInv, NEW b \in Backends, ReleaseLocks(b)
    PROVE  RowInv'
<1>1. /\ pc[b] = "unlock" /\ pc' = [pc EXCEPT ![b] = "idle"] /\ myXid' = [myXid EXCEPT ![b] = 0]
      /\ UNCHANGED <<nextXid, xid, clog, heap, killer, firstSnap, querySnap, version, xwait, exited>>
  BY DEF ReleaseLocks, Goto, snapVars, rowVars, updVars
<1>2. /\ pc'[b] = "idle" /\ myXid'[b] = 0
      /\ \A q \in Backends \ {b} : UNCHANGED <<pc[q], myXid[q]>>
  BY <1>1 DEF Inv, Types
<1>3. /\ \A x : DidCommit(x)' <=> DidCommit(x)
      /\ \A x : Exited(x)' <=> Exited(x)
      /\ \A s, x : EndedFor(s, x)' <=> EndedFor(s, x)
      /\ \A q \in Backends : InUse(q)' = InUse(q) /\ First(q)' = First(q)
  BY <1>1 DEF DidCommit, Exited, EndedFor, InUse, First
<1>4. RowTypes' /\ Inserted' /\ AlwaysOne' /\ Kills'
  BY <1>1, <1>3 DEF RowInv, RowTypes, Inserted, AlwaysOne, Live, Counted, Kills, Dead
<1>5. Committed'
  BY <1>1, <1>2, <1>3 DEF RowInv, Committed
<1>6. Own' /\ Chosen'
  BY <1>1, <1>2, <1>3 DEF RowInv, Own, Chosen
<1>7. NoVersionLost'
  <2>1. InUse(b) = {}
    BY <1>1 DEF Inv, Prefixes, InUse
  <2>2. ASSUME NEW q \in Backends, NEW s \in InUse(q)'
        PROVE  \E x \in DOMAIN heap' : SatisfiesSnapshot(q, s, x)'
    <3>1. s \in InUse(q) /\ q # b
      BY <1>3, <2>1
    <3>2. PICK x \in DOMAIN heap : SatisfiesSnapshot(q, s, x)
      BY <3>1 DEF RowInv, NoVersionLost
    <3>3. SatisfiesSnapshot(q, s, x)'
      BY <1>1, <1>2, <1>3, <3>1, <3>2 DEF SatisfiesSnapshot, Sees
    <3> QED
      BY <1>1, <3>3
  <2> QED
    BY <2>2 DEF NoVersionLost
<1> QED
  BY <1>4, <1>5, <1>6, <1>7 DEF RowInv

\* A transaction that commits is seen with both its version and its update, or,
\* where it is not taken for ended, with neither.
LEMMA RowRecord ==
    ASSUME Inv, CutInv, RowInv, NEW b \in Backends, RecordTransactionCommit(b) \/ RecordTransactionAbort(b)
    PROVE  RowInv'
<1>0. PICK y : y = myXid[b]
  OBVIOUS
<1>1. PICK status \in {"committed", "aborted"} :
        /\ pc[b] \in {"run", "failed"} /\ pc' = [pc EXCEPT ![b] = "exit"]
        /\ clog' = (IF madeEntry[b] THEN [clog EXCEPT ![y] = status] ELSE clog)
        /\ firstSnap' = [firstSnap EXCEPT ![b] = NoSnapshot]
        /\ querySnap' = [querySnap EXCEPT ![b] = NoSnapshot]
        /\ UNCHANGED <<nextXid, xid, myXid, heap, killer, version, xwait, exited>>
  BY <1>0 DEF RecordTransactionCommit, RecordTransactionAbort, Record, ForgetSnapshots, Goto, clockVars,
         xactVars, updVars
<1>2. y \in Xids \ {0} /\ ~DidCommit(y) /\ ~Exited(y)
  BY <1>0, <1>1, Mine
<1>3. /\ pc'[b] = "exit" /\ querySnap'[b] = NoSnapshot /\ firstSnap'[b] = NoSnapshot
      /\ \A q \in Backends \ {b} : UNCHANGED <<pc[q], querySnap[q], firstSnap[q]>>
  BY <1>1 DEF Inv, Types
<1>4. clog \in [Xids -> {"running", "committed", "aborted"}] /\ DidCommit(0)
  BY DEF RowInv, RowTypes
<1>5. /\ clog' \in [Xids -> {"running", "committed", "aborted"}]
      /\ \A x \in Xids : DidCommit(x) => DidCommit(x)'
      /\ \A x \in Xids : DidCommit(x)' => DidCommit(x) \/ x = y
  BY <1>1, <1>2, <1>4 DEF DidCommit
<1>6. /\ \A x : Exited(x)' <=> Exited(x)
      /\ \A s, x : EndedFor(s, x)' <=> EndedFor(s, x)
      /\ \A q \in Backends \ {b} : InUse(q)' = InUse(q) /\ First(q)' = First(q)
      /\ InUse(b)' = {} /\ First(b)'
  BY <1>1, <1>3 DEF Exited, EndedFor, InUse, First
<1>7. (\A x \in DOMAIN heap : x \in Xids /\ heap[x].xmax \in Xids) /\ \A q \in Backends : myXid[q] \in Xids
  BY Mine, Running DEF RowInv, RowTypes
<1>8. RowTypes'
  <2>1. 0 \in Xids
    BY MaxXidNat DEF Xids
  <2> QED
    BY <1>1, <1>4, <1>5, <2>1 DEF RowInv, RowTypes
<1>9. Committed'
  <2>1. ASSUME NEW x \in Xids, DidCommit(x)', x # 0, ~Exited(x)
        PROVE  \E q \in Backends : myXid'[q] = x /\ pc'[q] = "exit"
    <3>1. CASE x = y
      BY <1>0, <1>1, <1>3, <3>1
    <3>2. CASE x # y
      <4>1. PICK q \in Backends : myXid[q] = x /\ pc[q] = "exit"
        BY <1>5, <2>1, <3>2 DEF RowInv, Committed
      <4> QED
        BY <1>1, <1>3, <4>1
    <3> QED
      BY <3>1, <3>2
  <2> QED
    BY <1>6, <2>1 DEF Committed
<1>10. Inserted'
  BY <1>1, <1>6 DEF RowInv, Inserted
<1>11. Own'
  <2>1. ASSUME NEW q \in Backends, myXid'[q] # 0, ~DidCommit(myXid[q])', pc'[q] # "unlock"
        PROVE  /\ \A x \in DOMAIN heap : heap[x].xmax = myXid[q] /\ ~heap[x].marked => myXid[q] \in DOMAIN heap
               /\ myXid[q] \in DOMAIN heap => heap[myXid[q]].xmax = 0 \/ heap[myXid[q]].marked
    <3>1. ~DidCommit(myXid[q]) /\ myXid[q] # 0 /\ pc[q] # "unlock"
      BY <1>1, <1>3, <1>5, <1>7, <2>1
    <3> QED
      BY <3>1 DEF RowInv, Own
  <2> QED
    BY <1>1, <2>1 DEF Own
<1>12. Chosen'
  BY <1>1, <1>3, <1>5, <1>6 DEF RowInv, Chosen
<1>13. AlwaysOne'
  <2>1. ASSUME NEW S \in SUBSET Xids, \A i \in 1..Len(exited) : exited[i] \in S
        PROVE  \E x \in DOMAIN heap : Live(x, S)'
    <3>1. PICK x \in DOMAIN heap : Live(x, S)
      BY <2>1 DEF RowInv, AlwaysOne
    <3>2. \A z \in Xids : Counted(z, S) => Counted(z, S)'
      BY <1>5 DEF Counted
    <3>3. \A z \in Xids : Counted(z, S)' => Counted(z, S) \/ (z = y /\ y \in S /\ DidCommit(y)')
      BY <1>2, <1>5 DEF Counted
    <3>4. CASE heap[x].xmax # 0 /\ ~heap[x].marked /\ heap[x].xmax = y /\ y \in S /\ DidCommit(y)'
      <4>1. y \in DOMAIN heap /\ (heap[y].xmax = 0 \/ heap[y].marked)
        BY <1>0, <1>1, <1>2, <3>4 DEF RowInv, Own
      <4>2. Counted(y, S)'
        BY <3>4 DEF Counted
      <4>3. Live(y, S)'
        BY <1>1, <4>1, <4>2 DEF Live
      <4> QED
        BY <4>1, <4>3
    <3>5. CASE ~(heap[x].xmax # 0 /\ ~heap[x].marked /\ heap[x].xmax = y /\ y \in S /\ DidCommit(y)')
      <4>1. Live(x, S)'
        BY <1>1, <1>7, <3>1, <3>2, <3>3, <3>5 DEF Live
      <4> QED
        BY <4>1
    <3> QED
      BY <3>4, <3>5
  <2> QED
    BY <1>1, <2>1 DEF AlwaysOne
<1>14. NoVersionLost'
  <2>1. ASSUME NEW q \in Backends, NEW s \in InUse(q)'
        PROVE  \E x \in DOMAIN heap' : SatisfiesSnapshot(q, s, x)'
    <3>1. s \in InUse(q) /\ q # b
      BY <1>6
    <3>2. PICK x \in DOMAIN heap : SatisfiesSnapshot(q, s, x)
      BY <3>1 DEF RowInv, NoVersionLost
    <3>3. y # myXid[q]
      BY <1>0, <1>2, <3>1, Mine
    <3>4. ~EndedFor(s, y)
      <4>1. y \in Nat \ {0, myXid[q]}
        BY <1>2, <3>3, Mine
      <4> QED
        BY <1>2, <3>1, <4>1, Using
    <3>5. \A z \in Xids : Sees(q, s, z)' <=> Sees(q, s, z)
      BY <1>1, <1>5, <1>6, <3>4 DEF Sees
    <3>6. SatisfiesSnapshot(q, s, x)'
      BY <1>1, <1>7, <3>2, <3>5 DEF SatisfiesSnapshot
    <3> QED
      BY <1>1, <3>6
  <2> QED
    BY <2>1 DEF NoVersionLost
<1>15. Kills'
  <2>1. ASSUME NEW x \in DOMAIN killer
        PROVE  /\ x \in Xids /\ (x = 0 \/ Exited(x))
               /\ (~DidCommit(x))' \/ x \notin DOMAIN heap \/ Dead(x, heap[x].xmax)'
    <3>1. x \in Xids /\ (x = 0 \/ Exited(x)) /\ x # y
      BY <1>2 DEF RowInv, Kills
    <3>2. CASE ~DidCommit(x)
      BY <1>5, <3>1, <3>2
    <3>3. CASE x \in DOMAIN heap /\ Dead(x, heap[x].xmax)
      <4>1. PICK m \in Xids : m = heap[x].xmax
        BY <1>7, <3>3
      <4>2. m # 0 /\ heap'[x].xmax = m /\ ~heap'[x].marked /\ DidCommit(m)' /\ Exited(m)'
        BY <1>1, <1>5, <1>6, <3>3, <4>1 DEF Dead
      <4>3. ASSUME NEW q \in Backends
            PROVE  /\ querySnap'[q] # NoSnapshot => EndedFor(querySnap[q], m)'
                   /\ q # killer'[x] /\ ~First(q)' => EndedFor(firstSnap[q], m)'
        <5>1. CASE q = b
          BY <1>3, <1>6, <5>1
        <5>2. CASE q # b
          BY <1>1, <1>3, <1>6, <3>3, <4>1, <5>2 DEF Dead, EndedFor
        <5> QED
          BY <5>1, <5>2
      <4>4. Dead(x, m)'
        BY <4>2, <4>3 DEF Dead
      <4> QED
        BY <1>1, <3>1, <4>1, <4>4
    <3> QED
      BY <3>1, <3>2, <3>3 DEF RowInv, Kills
  <2> QED
    BY <1>1, <1>6, <2>1 DEF Kills
<1> QED
  BY <1>8, <1>9, <1>10, <1>11, <1>12, <1>13, <1>14, <1>15 DEF RowInv

\* A transaction that waited for another marks it as aborted, if it crashed.
LEMMA RowWait ==
    ASSUME Inv, RowInv, NEW b \in Backends, XactLockTableWait(b)
    PROVE  RowInv'
<1>1. /\ pc[b] = "wait" /\ pc' = [pc EXCEPT ![b] = "update"]
      /\ clog' = [clog EXCEPT ![xwait[b]] =
                    IF DidCommit(xwait[b]) \/ DidAbort(xwait[b]) THEN @ ELSE "aborted"]
      /\ xwait' = [xwait EXCEPT ![b] = 0]
      /\ UNCHANGED <<nextXid, xid, myXid, heap, killer, version, firstSnap, querySnap, exited>>
  BY DEF XactLockTableWait, Goto, clockVars, xactVars, snapVars
<1>2. pc'[b] = "update" /\ \A q \in Backends \ {b} : pc'[q] = pc[q] /\ xwait'[q] \in {xwait[q], 0}
  BY <1>1 DEF Inv, Types
<1>3. clog \in [Xids -> {"running", "committed", "aborted"}] /\ xwait[b] \in Xids
  BY <1>1 DEF RowInv, RowTypes, Chosen
<1>4. /\ clog' \in [Xids -> {"running", "committed", "aborted"}]
      /\ \A x \in Xids : DidCommit(x)' <=> DidCommit(x)
  BY <1>1, <1>3 DEF DidCommit
<1>5. RowTypes' /\ Committed' /\ Inserted' /\ Own' /\ AlwaysOne' /\ NoVersionLost' /\ Kills'
  <2>1. \A q \in Backends : pc'[q] = pc[q] \/ pc[q] \notin {"exit", "unlock"}
    BY <1>1, <1>2
  <2> QED
    BY <1>1, <1>4, <2>1, RowFrame
<1>6. Chosen'
  <2>1. version' \in [Backends -> Xids] /\ xwait' \in [Backends -> Xids]
    BY <1>1, Bounded DEF RowInv, Chosen
  <2>2. ASSUME NEW q \in Backends
        PROVE  /\ pc'[q] \in {"update", "wait"} => DidCommit(version[q])' \/ version'[q] = myXid'[q]
               /\ pc'[q] = "vacuum" => version'[q] = 0 \/ Exited(version[q])'
    <3>1. pc'[q] \in {"update", "wait"} => pc[q] \in {"update", "wait"}
      BY <1>1, <1>2
    <3>2. pc'[q] = "vacuum" => pc[q] = "vacuum"
      BY <1>2
    <3>3. version[q] \in Xids
      BY DEF RowInv, Chosen
    <3>4. pc'[q] = "vacuum" => version'[q] = 0 \/ Exited(version[q])'
      BY <1>1, <3>2 DEF RowInv, Chosen, Exited
    <3>5. ASSUME pc'[q] \in {"update", "wait"} PROVE DidCommit(version[q])' \/ version'[q] = myXid'[q]
      <4>1. DidCommit(version[q]) \/ version[q] = myXid[q]
        BY <3>1, <3>5 DEF RowInv, Chosen
      <4> QED
        BY <1>1, <1>4, <3>3, <4>1
    <3> QED
      BY <3>4, <3>5
  <2> QED
    BY <2>1, <2>2 DEF Chosen
<1> QED
  BY <1>5, <1>6 DEF RowInv

\* Steps that come to a version, or leave it as it is.
LEMMA RowMoves ==
    ASSUME RowInv, Inv, NEW b \in Backends,
           UNCHANGED <<clog, heap, killer, exited, firstSnap, querySnap, myXid, xid, nextXid>>,
           \A q \in Backends \ {b} : UNCHANGED <<pc[q], version[q]>>,
           version' \in [Backends -> Xids], xwait' \in [Backends -> Xids],
           pc[b] \notin {"exit", "unlock"},
           pc'[b] \in {"update", "wait"} => DidCommit(version'[b]) \/ version'[b] = myXid[b],
           pc'[b] = "vacuum" => version'[b] = 0 \/ Exited(version'[b])
    PROVE  RowInv'
<1>1. \A q \in Backends : pc'[q] = pc[q] \/ pc[q] \notin {"exit", "unlock"}
  OBVIOUS
<1>2. clog' \in [Xids -> {"running", "committed", "aborted"}] /\ \A x \in Xids : DidCommit(x)' <=> DidCommit(x)
  BY DEF RowInv, RowTypes, DidCommit
<1>3. RowTypes' /\ Committed' /\ Inserted' /\ Own' /\ AlwaysOne' /\ NoVersionLost' /\ Kills'
  BY <1>1, <1>2, RowFrame
<1>4. Chosen'
  BY DEF RowInv, Chosen, DidCommit, Exited
<1> QED
  BY <1>3, <1>4 DEF RowInv

LEMMA RowChoose ==
    ASSUME Inv, RowInv, NEW b \in Backends, NEW x \in Xids, ChooseVersion(b, x) \/ VacuumPage(b, x)
    PROVE  RowInv'
<1>1. /\ pc[b] = "run" /\ x \in DOMAIN heap /\ version' = [version EXCEPT ![b] = x]
      /\ pc' = [pc EXCEPT ![b] = "update"] \/ pc' = [pc EXCEPT ![b] = "vacuum"]
      /\ UNCHANGED <<clog, heap, killer, exited, firstSnap, querySnap, myXid, xid, nextXid, xwait>>
  BY DEF ChooseVersion, VacuumPage, Goto, clockVars, rowVars, snapVars, xactVars
<1>2. pc \in [Backends -> PCs] /\ version \in [Backends -> Xids] /\ xwait \in [Backends -> Xids]
  BY DEF Inv, Types, RowInv, Chosen
<1>3. /\ version' \in [Backends -> Xids] /\ version'[b] = x
      /\ \A q \in Backends \ {b} : UNCHANGED <<pc[q], version[q]>>
  BY <1>1, <1>2
<1>4. CASE ChooseVersion(b, x)
  <2>1. pc'[b] = "update" /\ (DidCommit(x) \/ x = myXid[b])
    BY <1>2, <1>4 DEF ChooseVersion, Goto, SatisfiesSnapshot, Sees
  <2> QED
    BY <1>1, <1>2, <1>3, <2>1, RowMoves
<1>5. CASE VacuumPage(b, x)
  <2>1. pc'[b] = "vacuum" /\ ~IsInProgress(x)
    BY <1>2, <1>5 DEF VacuumPage, Goto
  <2>2. x = 0 \/ Exited(x)
    BY <1>1, <2>1 DEF RowInv, Inserted, IsInProgress
  <2> QED
    BY <1>1, <1>2, <1>3, <2>1, <2>2, RowMoves
<1> QED
  BY <1>4, <1>5

LEMMA RowLook ==
    ASSUME Inv, RowInv, NEW b \in Backends, ExamineVersion(b),
           \/ NothingToDo(b)
           \/ version[b] \in DOMAIN heap /\ (FollowUpdate(b) \/ WaitForUpdate(b))
    PROVE  RowInv'
<1>1. /\ pc[b] = "update"
      /\ UNCHANGED <<clog, killer, exited, firstSnap, querySnap, myXid, xid, nextXid>>
  BY DEF ExamineVersion, clockVars, snapVars
<1>2. pc \in [Backends -> PCs] /\ version \in [Backends -> Xids] /\ xwait \in [Backends -> Xids] /\ 0 \in Xids
  BY Bounded DEF Inv, Types, RowInv, Chosen
<1>3. DidCommit(version[b]) \/ version[b] = myXid[b]
  BY <1>1 DEF RowInv, Chosen
<1>4. version[b] \in DOMAIN heap => heap[version[b]].xmax \in Xids
  BY Bounded DEF RowInv, RowTypes
<1>5. CASE NothingToDo(b)
  <2>1. /\ pc' = [pc EXCEPT ![b] = "run"] /\ version' = [version EXCEPT ![b] = 0]
        /\ UNCHANGED <<heap, xwait>>
    BY <1>5 DEF NothingToDo, BackToQuery, Goto
  <2>2. /\ pc'[b] = "run" /\ version' \in [Backends -> Xids]
        /\ \A q \in Backends \ {b} : UNCHANGED <<pc[q], version[q]>>
    BY <1>2, <2>1
  <2> QED
    BY <1>1, <1>2, <2>1, <2>2, RowMoves
<1>6. CASE version[b] \in DOMAIN heap /\ FollowUpdate(b)
  <2>1. /\ DidCommit(heap[version[b]].xmax) /\ UNCHANGED <<heap, xwait>>
        /\ \/ pc' = [pc EXCEPT ![b] = "failed"] /\ version' = [version EXCEPT ![b] = 0]
           \/ pc' = pc /\ version' = [version EXCEPT ![b] = heap[version[b]].xmax]
    BY <1>2, <1>6 DEF FollowUpdate, Updated, Goto
  <2>2. /\ version' \in [Backends -> Xids] /\ (pc'[b] = "failed" \/ (pc'[b] = "update" /\ DidCommit(version'[b])))
        /\ \A q \in Backends \ {b} : UNCHANGED <<pc[q], version[q]>>
    BY <1>1, <1>2, <1>4, <1>6, <2>1
  <2> QED
    BY <1>1, <1>2, <2>1, <2>2, RowMoves
<1>7. CASE version[b] \in DOMAIN heap /\ WaitForUpdate(b)
  <2>1. /\ pc' = [pc EXCEPT ![b] = "wait"] /\ xwait' = [xwait EXCEPT ![b] = heap[version[b]].xmax]
        /\ UNCHANGED <<heap, version>>
    BY <1>7 DEF WaitForUpdate, Goto
  <2>2. /\ xwait' \in [Backends -> Xids] /\ pc'[b] = "wait"
        /\ \A q \in Backends \ {b} : UNCHANGED <<pc[q], version[q]>>
    BY <1>2, <1>4, <1>7, <2>1
  <2> QED
    BY <1>1, <1>2, <1>3, <2>1, <2>2, RowMoves
<1> QED
  BY <1>5, <1>6, <1>7

\* A version that may be updated gets a new xmax, that of a running transaction.
LEMMA RowWrite ==
    ASSUME Inv, CutInv, RowInv, NEW b \in Backends, pc[b] = "update",
           NEW y, y = myXid[b], NEW v \in DOMAIN heap, v = version[b], MayBeUpdated(b, v),
           DOMAIN heap \subseteq DOMAIN heap', DOMAIN heap' \subseteq DOMAIN heap \union {y},
           heap'[v].xmax = y, heap'[v].marked \in BOOLEAN,
           heap'[v].marked \/ y \in DOMAIN heap' \ DOMAIN heap,
           y \in DOMAIN heap' \ DOMAIN heap => heap'[y].xmax = 0 /\ heap'[y].marked = FALSE,
           \A x \in DOMAIN heap \ {v} : heap'[x] = heap[x],
           UNCHANGED <<clog, killer, exited, firstSnap, querySnap, myXid, xid, nextXid, xwait>>,
           pc' = [pc EXCEPT ![b] = "run"], version' = [version EXCEPT ![b] = 0]
    PROVE  RowInv'
<1>1. y \in Xids \ {0} /\ ~DidCommit(y) /\ ~Exited(y) /\ y \in 0..(nextXid - 1) /\ xid[b] = y
  <2>1. y \in Xids \ {0} /\ ~DidCommit(y) /\ ~Exited(y)
    BY Mine
  <2>2. y \in 0..(nextXid - 1)
    BY Running
  <2>3. xid[b] = y
    BY DEF Inv, OwnXids
  <2> QED
    BY <2>1, <2>2, <2>3
<1>2. DidCommit(v) \/ v = y
  BY DEF RowInv, Chosen
<1>3. /\ \A x : DidCommit(x)' <=> DidCommit(x)
      /\ \A x : Exited(x)' <=> Exited(x)
      /\ \A s, x : EndedFor(s, x)' <=> EndedFor(s, x)
      /\ \A q \in Backends : InUse(q)' = InUse(q) /\ (First(q)' <=> First(q))
  BY DEF DidCommit, Exited, EndedFor, InUse, First
<1>4. pc'[b] = "run" /\ \A q \in Backends \ {b} : pc'[q] = pc[q] /\ version'[q] = version[q]
  BY DEF Inv, Types, RowInv, Chosen
<1>5. ASSUME NEW x \in DOMAIN heap'
      PROVE  \/ x \in DOMAIN heap /\ x # v /\ heap'[x] = heap[x]
             \/ x = v /\ x \in DOMAIN heap /\ heap'[x].xmax = y
             \/ x = y /\ x \notin DOMAIN heap /\ heap'[x].xmax = 0 /\ heap'[x].marked = FALSE
  OBVIOUS
<1>6. y = v => heap'[v].marked
  OBVIOUS
<1>7. RowTypes'
  <2>1. DOMAIN heap' \subseteq Xids
    BY <1>1 DEF RowInv, RowTypes
  <2>2. ASSUME NEW x \in DOMAIN heap' PROVE heap'[x].xmax \in 0..(nextXid - 1) /\ heap'[x].marked \in BOOLEAN
    <3>1. 0 \in 0..(nextXid - 1)
      BY <1>1, Mine
    <3> QED
      BY <1>1, <1>5, <3>1 DEF RowInv, RowTypes
  <2> QED
    BY <1>3, <2>1, <2>2 DEF RowInv, RowTypes
<1>8. Committed'
  BY <1>3, <1>4 DEF RowInv, Committed
<1>9. Inserted'
  BY <1>1, <1>3, <1>5 DEF RowInv, Inserted
<1>10. Own'
  <2>1. ASSUME NEW q \in Backends, myXid[q] # 0, ~DidCommit(myXid[q]), pc'[q] # "unlock"
        PROVE  /\ \A x \in DOMAIN heap' : heap'[x].xmax = myXid[q] /\ ~heap'[x].marked => myXid[q] \in DOMAIN heap'
               /\ myXid[q] \in DOMAIN heap' => heap'[myXid[q]].xmax = 0 \/ heap'[myXid[q]].marked
    <3>1. pc[q] # "unlock"
      BY <1>4, <2>1
    <3>2. /\ \A x \in DOMAIN heap : heap[x].xmax = myXid[q] /\ ~heap[x].marked => myXid[q] \in DOMAIN heap
          /\ myXid[q] \in DOMAIN heap => heap[myXid[q]].xmax = 0 \/ heap[myXid[q]].marked
      BY <2>1, <3>1 DEF RowInv, Own
    <3>3. CASE q = b
      BY <1>1, <1>5, <1>6, <3>2, <3>3
    <3>4. CASE q # b
      <4>1. myXid[q] # y /\ myXid[q] # v
        BY <1>1, <1>2, <2>1, <3>4, Mine
      <4> QED
        BY <1>1, <1>5, <2>1, <3>2, <4>1
    <3> QED
      BY <3>3, <3>4
  <2> QED
    BY <1>3, <2>1 DEF Own
<1>11. Chosen'
  BY <1>3, <1>4, Bounded DEF RowInv, Chosen
<1>12. AlwaysOne'
  <2>1. ASSUME NEW S \in SUBSET Xids, \A i \in 1..Len(exited) : exited[i] \in S
        PROVE  \E x \in DOMAIN heap' : Live(x, S)'
    <3>1. PICK x \in DOMAIN heap : Live(x, S)
      BY <2>1 DEF RowInv, AlwaysOne
    <3>2. \A z : Counted(z, S)' <=> Counted(z, S)
      BY <1>3 DEF Counted
    <3>3. Live(x, S)'
      <4>1. CASE x = v
        <5>1. ~Counted(y, S)
          BY <1>1 DEF Counted
        <5> QED
          BY <3>1, <3>2, <4>1, <5>1 DEF Live
      <4>2. CASE x # v
        BY <3>1, <3>2, <4>2 DEF Live
      <4> QED
        BY <4>1, <4>2
    <3> QED
      BY <3>3
  <2> QED
    BY <2>1 DEF AlwaysOne
<1>13. NoVersionLost'
  <2>1. ASSUME NEW q \in Backends, NEW s \in InUse(q)
        PROVE  \E x \in DOMAIN heap' : SatisfiesSnapshot(q, s, x)'
    <3>1. PICK x \in DOMAIN heap : SatisfiesSnapshot(q, s, x)
      BY <2>1 DEF RowInv, NoVersionLost
    <3>2. \A z : Sees(q, s, z)' <=> Sees(q, s, z)
      BY <1>3 DEF Sees
    <3>3. CASE x # v
      <4>1. SatisfiesSnapshot(q, s, x)'
        BY <3>1, <3>2, <3>3 DEF SatisfiesSnapshot
      <4> QED
        BY <4>1
    <3>4. CASE x = v /\ (q # b \/ heap'[v].marked)
      <4>1. q # b => ~Sees(q, s, y)
        BY <1>1, Mine DEF Sees
      <4>2. SatisfiesSnapshot(q, s, x)'
        BY <3>1, <3>2, <3>4, <4>1 DEF SatisfiesSnapshot
      <4> QED
        BY <4>2
    <3>5. CASE q = b /\ ~heap'[v].marked
      <4>1. y \in DOMAIN heap' /\ heap'[y].xmax = 0
        BY <3>5
      <4>2. SatisfiesSnapshot(q, s, y)'
        BY <3>5, <4>1 DEF SatisfiesSnapshot, Sees
      <4> QED
        BY <4>1, <4>2
    <3> QED
      BY <3>3, <3>4, <3>5
  <2> QED
    BY <1>3, <2>1 DEF NoVersionLost
<1>14. Kills'
  <2>1. ASSUME NEW x \in DOMAIN killer
        PROVE  /\ x \in Xids /\ (x = 0 \/ Exited(x))
               /\ ~DidCommit(x) \/ x \notin DOMAIN heap' \/ Dead(x, heap[x].xmax)'
    <3>1. x \in Xids /\ (x = 0 \/ Exited(x)) /\ x # y
      BY <1>1 DEF RowInv, Kills
    <3>2. ASSUME x \in DOMAIN heap, Dead(x, heap[x].xmax)
          PROVE  Dead(x, heap[x].xmax)'
      <4>1. x # v
        BY <3>2 DEF MayBeUpdated, Dead, DidCommit, DidAbort
      <4>2. heap'[x] = heap[x]
        BY <3>2, <4>1
      <4> QED
        BY <1>3, <3>2, <4>2 DEF Dead, EndedFor
    <3> QED
      BY <1>5, <3>1, <3>2 DEF RowInv, Kills
  <2> QED
    BY <1>3, <2>1 DEF Kills
<1> QED
  BY <1>7, <1>8, <1>9, <1>10, <1>11, <1>12, <1>13, <1>14 DEF RowInv

LEMMA RowExamine ==
    ASSUME Inv, CutInv, RowInv, NEW b \in Backends, ExamineVersion(b)
    PROVE  RowInv'
<1> DEFINE y == myXid[b]
           v == version[b]
<1>1. /\ pc[b] = "update"
      /\ UNCHANGED <<clog, killer, exited, firstSnap, querySnap, myXid, xid, nextXid>>
  BY DEF ExamineVersion, clockVars, snapVars
<1>2. CASE v \in DOMAIN heap /\ Update(b)
  <2>1. /\ MayBeUpdated(b, v) /\ y \notin DOMAIN heap
        /\ heap' = [x \in DOMAIN heap \union {y} |->
                       IF x = v THEN [xmax |-> y, marked |-> FALSE]
                       ELSE IF x = y THEN [xmax |-> 0, marked |-> FALSE]
                       ELSE heap[x]]
        /\ pc' = [pc EXCEPT ![b] = "run"] /\ version' = [version EXCEPT ![b] = 0] /\ xwait' = xwait
    BY <1>2 DEF Update, BackToQuery, Goto
  <2>2. /\ DOMAIN heap' = DOMAIN heap \union {y}
        /\ heap'[v].xmax = y /\ heap'[v].marked \in BOOLEAN
        /\ heap'[y].xmax = 0 /\ heap'[y].marked = FALSE
        /\ \A x \in DOMAIN heap \ {v} : heap'[x] = heap[x]
    BY <1>2, <2>1
  <2> HIDE DEF y, v
  <2>3. y = myXid[b] /\ v = version[b]
    BY DEF y, v
  <2> QED
    BY <1>1, <1>2, <2>1, <2>2, <2>3, RowWrite
<1>3. CASE v \in DOMAIN heap /\ MarkForUpdate(b)
  <2>1. /\ MayBeUpdated(b, v)
        /\ heap' = [heap EXCEPT ![v] = [xmax |-> y, marked |-> TRUE]]
        /\ pc' = [pc EXCEPT ![b] = "run"] /\ version' = [version EXCEPT ![b] = 0] /\ xwait' = xwait
    BY <1>3 DEF MarkForUpdate, BackToQuery, Goto
  <2>2. /\ DOMAIN heap' = DOMAIN heap
        /\ heap'[v].xmax = y /\ heap'[v].marked = TRUE
        /\ \A x \in DOMAIN heap \ {v} : heap'[x] = heap[x]
    BY <1>3, <2>1
  <2> HIDE DEF y, v
  <2>3. y = myXid[b] /\ v = version[b]
    BY DEF y, v
  <2> QED
    BY <1>1, <1>3, <2>1, <2>2, <2>3, RowWrite
<1> QED
  BY <1>2, <1>3, RowLook DEF ExamineVersion

\* VACUUM removes versions of transactions that did not commit, and versions whose
\* deleter has ended and is taken for ended by every snapshot.
LEMMA RowVacuum ==
    ASSUME Inv, CutInv, RowInv, NEW b \in Backends, VacuumVersion(b)
    PROVE  RowInv'
<1>0. PICK v : v = version[b]
  OBVIOUS
<1>1. /\ pc[b] = "vacuum" /\ pc' = [pc EXCEPT ![b] = "run"] /\ version' = [version EXCEPT ![b] = 0]
      /\ heap' = IF ~DidCommit(v) \/ DeadBefore(v, oldestXmin[b])
                 THEN [x \in DOMAIN heap \ {v} |-> heap[x]] ELSE heap
      /\ UNCHANGED <<clog, killer, exited, firstSnap, querySnap, myXid, xid, nextXid, xwait>>
  BY <1>0 DEF VacuumVersion, BackToQuery, Goto, clockVars, snapVars, xactVars
<1>2. v = 0 \/ Exited(v)
  BY <1>0, <1>1 DEF RowInv, Chosen
<1>3. /\ DOMAIN heap' \subseteq DOMAIN heap
      /\ \A x \in DOMAIN heap' : heap'[x] = heap[x]
      /\ \A x \in DOMAIN heap \ DOMAIN heap' : x = v /\ (~DidCommit(v) \/ DeadBefore(v, oldestXmin[b]))
  <2>1. CASE ~DidCommit(v) \/ DeadBefore(v, oldestXmin[b])
    BY <1>1, <2>1
  <2>2. CASE ~(~DidCommit(v) \/ DeadBefore(v, oldestXmin[b]))
    BY <1>1, <2>2
  <2> QED
    BY <2>1, <2>2
<1>4. /\ \A x : DidCommit(x)' <=> DidCommit(x)
      /\ \A x : Exited(x)' <=> Exited(x)
      /\ \A s, x : EndedFor(s, x)' <=> EndedFor(s, x)
      /\ \A q \in Backends : InUse(q)' = InUse(q) /\ (First(q)' <=> First(q))
  BY <1>1 DEF DidCommit, Exited, EndedFor, InUse, First
<1>5. pc'[b] = "run" /\ \A q \in Backends \ {b} : pc'[q] = pc[q] /\ version'[q] = version[q]
  BY <1>1 DEF Inv, Types, RowInv, Chosen
\* The version that is removed had a deleter who has ended, or is of nobody.
<1>6. ASSUME NEW x \in DOMAIN heap \ DOMAIN heap', DidCommit(x)
      PROVE  /\ heap[x].xmax \in Xids \ {0} /\ heap[x].xmax < oldestXmin[b] /\ ~heap[x].marked
             /\ DidCommit(heap[x].xmax) /\ Exited(heap[x].xmax)
  <2>1. heap[x].xmax \in Xids /\ DeadBefore(x, oldestXmin[b])
    BY <1>3, <1>6, Bounded DEF RowInv, RowTypes
  <2>2. Exited(heap[x].xmax)
    <3>1. SUFFICES ASSUME NEW q \in Backends, myXid[q] = heap[x].xmax, pc[q] = "exit" PROVE FALSE
      BY <2>1 DEF DeadBefore, RowInv, Committed
    <3>2. xid[q] = myXid[q]
      BY <3>1 DEF Inv, OwnXids
    <3> QED
      BY <2>1, <3>1, <3>2 DEF DeadBefore, IsInProgress
  <2> QED
    BY <2>1, <2>2 DEF DeadBefore
<1>7. RowTypes'
  BY <1>1, <1>3, <1>4 DEF RowInv, RowTypes
<1>8. Committed' /\ Inserted'
  BY <1>1, <1>3, <1>4, <1>5 DEF RowInv, Committed, Inserted
<1>9. Own'
  <2>1. ASSUME NEW q \in Backends, myXid[q] # 0, ~DidCommit(myXid[q]), pc'[q] # "unlock"
        PROVE  /\ \A x \in DOMAIN heap' : heap'[x].xmax = myXid[q] /\ ~heap'[x].marked => myXid[q] \in DOMAIN heap'
               /\ myXid[q] \in DOMAIN heap' => heap'[myXid[q]].xmax = 0 \/ heap'[myXid[q]].marked
    <3>1. pc[q] # "unlock"
      BY <1>1, <1>5, <2>1
    <3>2. /\ \A x \in DOMAIN heap : heap[x].xmax = myXid[q] /\ ~heap[x].marked => myXid[q] \in DOMAIN heap
          /\ myXid[q] \in DOMAIN heap => heap[myXid[q]].xmax = 0 \/ heap[myXid[q]].marked
      BY <2>1, <3>1 DEF RowInv, Own
    <3>3. myXid[q] # v
      BY <1>2, <2>1, <3>1, Running
    <3>4. myXid[q] \in DOMAIN heap => myXid[q] \in DOMAIN heap'
      BY <1>3, <3>3
    <3> QED
      BY <1>3, <3>2, <3>4
  <2> QED
    BY <1>1, <1>4, <2>1 DEF Own
<1>10. Chosen'
  BY <1>1, <1>4, <1>5, Bounded DEF RowInv, Chosen
<1>11. AlwaysOne'
  <2>1. ASSUME NEW S \in SUBSET Xids, \A i \in 1..Len(exited) : exited[i] \in S
        PROVE  \E x \in DOMAIN heap' : Live(x, S)'
    <3>1. PICK x \in DOMAIN heap : Live(x, S)
      BY <2>1 DEF RowInv, AlwaysOne
    <3>2. x \in DOMAIN heap'
      <4>1. SUFFICES ASSUME x \notin DOMAIN heap' PROVE FALSE
        OBVIOUS
      <4>2. DidCommit(x)
        BY <3>1 DEF Live, Counted
      <4>3. /\ heap[x].xmax # 0 /\ ~heap[x].marked /\ DidCommit(heap[x].xmax) /\ Exited(heap[x].xmax)
        BY <1>6, <4>1, <4>2
      <4>4. heap[x].xmax \in S
        BY <2>1, <4>3 DEF Exited
      <4> QED
        BY <3>1, <4>3, <4>4 DEF Live, Counted
    <3>3. Live(x, S)'
      BY <1>3, <1>4, <3>1, <3>2 DEF Live, Counted
    <3> QED
      BY <3>2, <3>3
  <2> QED
    BY <1>1, <2>1 DEF AlwaysOne
<1>12. NoVersionLost'
  <2>1. ASSUME NEW q \in Backends, NEW s \in InUse(q)
        PROVE  \E x \in DOMAIN heap' : SatisfiesSnapshot(q, s, x)'
    <3>1. PICK x \in DOMAIN heap : SatisfiesSnapshot(q, s, x)
      BY <2>1 DEF RowInv, NoVersionLost
    <3>2. x \in DOMAIN heap'
      <4>1. SUFFICES ASSUME x \notin DOMAIN heap' PROVE FALSE
        OBVIOUS
      <4>2. DidCommit(x)
        <5>1. pc[q] \notin {"idle", "unlock"}
          BY Using
        <5>2. myXid[q] # 0 /\ ~Exited(myXid[q])
          BY <5>1, Running DEF Inv, OwnXids
        <5>3. x # myXid[q]
          BY <1>2, <1>3, <4>1, <5>2
        <5> QED
          BY <3>1, <5>3 DEF SatisfiesSnapshot, Sees
      <4>3. PICK m : m = heap[x].xmax
        OBVIOUS
      <4>4. m \in Xids \ {0} /\ m < oldestXmin[b] /\ ~heap[x].marked /\ DidCommit(m)
        BY <1>6, <4>1, <4>2, <4>3
      <4>5. m \in 1..(oldestXmin[b] - 1)
        BY <4>4, Bounded DEF CutInv
      <4>6. EndedFor(s, m)
        BY <4>5 DEF CutInv, Cutoffs
      <4> QED
        BY <3>1, <4>3, <4>4, <4>6 DEF SatisfiesSnapshot, Sees
    <3>3. SatisfiesSnapshot(q, s, x)'
      BY <1>1, <1>3, <1>4, <3>1, <3>2 DEF SatisfiesSnapshot, Sees
    <3> QED
      BY <3>2, <3>3
  <2> QED
    BY <1>4, <2>1 DEF NoVersionLost
<1>13. Kills'
  BY <1>1, <1>3, <1>4 DEF RowInv, Kills, Dead
<1> QED
  BY <1>7, <1>8, <1>9, <1>10, <1>11, <1>12, <1>13 DEF RowInv

\* What an index scan removes is dead to all, the other snapshots included.
LEMMA RowKill ==
    ASSUME Inv, CutInv, RowInv, NEW b \in Backends, NEW v \in Xids, KillPriorTuple(b, v)
    PROVE  RowInv'
<1>1. /\ pc[b] = "run" /\ v \in DOMAIN heap /\ v \notin DOMAIN killer /\ ~IsInProgress(v)
      /\ ~DidCommit(v) \/ DeadBefore(v, recentGlobalXmin[b])
      /\ killer' = [x \in DOMAIN killer \union {v} |-> IF x = v THEN b ELSE killer[x]]
      /\ UNCHANGED <<clog, heap, pc, exited, firstSnap, querySnap, myXid, xid, nextXid, version, xwait>>
  BY DEF KillPriorTuple, clockVars, snapVars, xactVars, updVars
<1>2. /\ \A x : DidCommit(x)' <=> DidCommit(x)
      /\ \A x : Exited(x)' <=> Exited(x)
      /\ \A s, x : EndedFor(s, x)' <=> EndedFor(s, x)
      /\ \A q \in Backends : InUse(q)' = InUse(q) /\ (First(q)' <=> First(q))
  BY <1>1 DEF DidCommit, Exited, EndedFor, InUse, First
<1>3. RowTypes' /\ Committed' /\ Inserted' /\ Own' /\ Chosen'
  BY <1>1, <1>2 DEF RowInv, RowTypes, Committed, Inserted, Own, Chosen
<1>4. AlwaysOne' /\ NoVersionLost'
  <2>1. \A x, S : Live(x, S)' <=> Live(x, S)
    BY <1>1, <1>2 DEF Live, Counted
  <2>2. \A q \in Backends, x \in DOMAIN heap : \A s : SatisfiesSnapshot(q, s, x)' <=> SatisfiesSnapshot(q, s, x)
    BY <1>1, <1>2 DEF SatisfiesSnapshot, Sees
  <2>3. AlwaysOne'
    BY <1>1, <2>1 DEF RowInv, AlwaysOne
  <2>4. NoVersionLost'
    BY <1>1, <1>2, <2>2 DEF RowInv, NoVersionLost
  <2> QED
    BY <2>3, <2>4
<1>5. v = 0 \/ Exited(v)
  BY <1>1 DEF RowInv, Inserted, IsInProgress
<1>6. ASSUME DidCommit(v) PROVE Dead(v, heap[v].xmax)'
  <2>1. PICK m : m = heap[v].xmax
    OBVIOUS
  <2>2. m # 0 /\ ~heap[v].marked /\ DidCommit(m) /\ m < recentGlobalXmin[b] /\ m \in Xids
    BY <1>1, <1>6, <2>1, Bounded DEF DeadBefore, RowInv, RowTypes
  <2>3. m \in 1..(recentGlobalXmin[b] - 1)
    BY <2>2, Bounded DEF CutInv
  <2>4. /\ Exited(m) /\ \A q \in Backends \ {b} : \A s \in InUse(q) : EndedFor(s, m)
        /\ querySnap[b] # NoSnapshot => EndedFor(querySnap[b], m)
    BY <2>3 DEF CutInv, Cutoffs
  <2>5. ASSUME NEW q \in Backends
        PROVE  /\ querySnap[q] # NoSnapshot => EndedFor(querySnap[q], m)
               /\ q # b /\ ~First(q) => EndedFor(firstSnap[q], m)
    BY <2>4 DEF InUse, First
  <2>6. killer'[v] = b
    BY <1>1
  <2>7. Dead(v, m)'
    BY <1>1, <1>2, <2>1, <2>2, <2>4, <2>5, <2>6 DEF Dead
  <2> QED
    BY <1>1, <2>1, <2>7
<1>7. Kills'
  <2>1. ASSUME NEW x \in DOMAIN killer
        PROVE  /\ x \in Xids /\ (x = 0 \/ Exited(x))
               /\ ~DidCommit(x) \/ x \notin DOMAIN heap \/ Dead(x, heap[x].xmax)'
    <3>1. x # v /\ killer'[x] = killer[x]
      BY <1>1
    <3> QED
      BY <1>1, <1>2, <3>1 DEF RowInv, Kills, Dead
  <2>2. DOMAIN killer' = DOMAIN killer \union {v}
    BY <1>1
  <2> QED
    BY <1>1, <1>2, <1>5, <1>6, <2>1, <2>2 DEF Kills
<1> QED
  BY <1>3, <1>4, <1>7 DEF RowInv

\* A new snapshot sees the version of its own transaction, or the one that is left
\* by the transactions that have ended.
LEMMA RowEnd ==
    ASSUME Inv, CutInv, RowInv, NEW b \in Backends, EndSnapshot(b)
    PROVE  RowInv'
<1>0. PICK s : s = [xmin |-> work[b].xmin, xmax |-> work[b].xmax, xip |-> work[b].xip]
  OBVIOUS
<1>1. /\ pc[b] = "scan" /\ work[b].todo = {} /\ pc'[b] = "run"
      /\ querySnap'[b] = s /\ firstSnap'[b] = (IF First(b) THEN s ELSE firstSnap[b]) /\ s # NoSnapshot
      /\ UNCHANGED <<nextXid, xid, myXid, exited>>
      /\ s.xmin = work[b].xmin /\ s.xmax = work[b].xmax /\ s.xip = work[b].xip
      /\ \A q \in Backends \ {b} : UNCHANGED <<pc[q], firstSnap[q], querySnap[q]>>
  BY <1>0, EndFacts
<1>2. UNCHANGED <<clog, heap, killer, version, xwait>>
  BY DEF EndSnapshot, rowVars, updVars
<1>3. /\ \A y : Exited(y) => EndedFor(s, y)
      /\ \A y \in Nat \ {0, myXid[b]} : EndedFor(s, y) => Exited(y)
      /\ work[b].xmin \in 1..myXid[b] /\ myXid[b] \in Nat
  BY <1>1, ScanDone, Running
<1>4. EndedFor(s, 0)
  BY <1>1, <1>3 DEF EndedFor
<1>5. PICK y : y = myXid[b]
  OBVIOUS
<1>6. y \in Xids \ {0} /\ ~DidCommit(y) /\ ~Exited(y)
  BY <1>1, <1>5, Mine
<1>7. /\ \A x : DidCommit(x)' <=> DidCommit(x)
      /\ \A x : Exited(x)' <=> Exited(x)
      /\ \A t, x : EndedFor(t, x)' <=> EndedFor(t, x)
      /\ \A q \in Backends \ {b} : InUse(q)' = InUse(q) /\ (First(q)' <=> First(q))
      /\ \A t \in InUse(b)' : t = s \/ t \in InUse(b)
  BY <1>1, <1>2 DEF DidCommit, Exited, EndedFor, InUse, First
<1>8. /\ \A x \in DOMAIN heap : x \in Xids /\ heap[x].xmax \in Xids
      /\ \A x \in Xids : x \in Nat
  BY Bounded DEF RowInv, RowTypes
<1>9. RowTypes' /\ Committed' /\ Inserted' /\ Own' /\ Chosen'
  <2>1. RowTypes' /\ Inserted'
    BY <1>1, <1>2, <1>7 DEF RowInv, RowTypes, Inserted
  <2>2. Committed' /\ Own' /\ Chosen'
    BY <1>1, <1>2, <1>7 DEF RowInv, Committed, Own, Chosen
  <2> QED
    BY <2>1, <2>2
<1>10. AlwaysOne'
  BY <1>1, <1>2, <1>7 DEF RowInv, AlwaysOne, Live, Counted
<1>11. \E x \in DOMAIN heap : SatisfiesSnapshot(b, s, x)
  <2>1. CASE y \in DOMAIN heap
    <3>1. heap[y].xmax = 0 \/ heap[y].marked
      BY <1>1, <1>5, <1>6, <2>1 DEF RowInv, Own
    <3>2. SatisfiesSnapshot(b, s, y)
      BY <1>5, <3>1 DEF SatisfiesSnapshot, Sees
    <3> QED
      BY <2>1, <3>2
  <2>2. CASE y \notin DOMAIN heap
    <3> DEFINE S == {x \in Xids : Exited(x)}
    <3>1. \A i \in 1..Len(exited) : exited[i] \in S
      <4>1. \A i \in 1..Len(exited) : exited[i] \in 0..(nextXid - 1)
        BY DEF Inv, Ends
      <4>2. \A i \in 1..Len(exited) : exited[i] \in Xids
        BY <4>1, Bounded
      <4> QED
        BY <4>2 DEF Exited
    <3>2. PICK x \in DOMAIN heap : Live(x, S)
      BY <3>1 DEF RowInv, AlwaysOne
    <3>3. Sees(b, s, x)
      BY <1>3, <1>4, <3>2 DEF Live, Counted, Sees
    <3>4. ASSUME heap[x].xmax # 0, ~heap[x].marked PROVE ~Sees(b, s, heap[x].xmax)
      <4>1. PICK m \in Xids : m = heap[x].xmax
        BY <1>8
      <4>2. m # y
        BY <1>1, <1>5, <1>6, <2>2, <3>4, <4>1 DEF RowInv, Own
      <4>3. ~(DidCommit(m) /\ Exited(m))
        BY <3>2, <3>4, <4>1 DEF Live, Counted
      <4>4. EndedFor(s, m) => Exited(m)
        BY <1>3, <1>5, <1>8, <3>4, <4>1, <4>2
      <4> QED
        BY <1>5, <4>1, <4>2, <4>3, <4>4 DEF Sees
    <3>5. SatisfiesSnapshot(b, s, x)
      BY <3>3, <3>4 DEF SatisfiesSnapshot
    <3> QED
      BY <3>5
  <2> QED
    BY <2>1, <2>2
<1>12. NoVersionLost'
  <2>1. \A q \in Backends, x \in DOMAIN heap : \A t : SatisfiesSnapshot(q, t, x)' <=> SatisfiesSnapshot(q, t, x)
    BY <1>1, <1>2, <1>7 DEF SatisfiesSnapshot, Sees
  <2>2. ASSUME NEW q \in Backends, NEW t \in InUse(q)'
        PROVE  \E x \in DOMAIN heap' : SatisfiesSnapshot(q, t, x)'
    <3>1. (q = b /\ t = s) \/ t \in InUse(q)
      BY <1>7
    <3>2. \E x \in DOMAIN heap : SatisfiesSnapshot(q, t, x)
      BY <1>11, <3>1 DEF RowInv, NoVersionLost
    <3> QED
      BY <1>2, <2>1, <3>2
  <2> QED
    BY <2>2 DEF NoVersionLost
<1>13. Kills'
  <2>1. ASSUME NEW x \in DOMAIN heap, Dead(x, heap[x].xmax)
        PROVE  Dead(x, heap[x].xmax)'
    <3>1. PICK m : m = heap[x].xmax
      OBVIOUS
    <3>2. m # 0 /\ heap[x].xmax = m /\ ~heap[x].marked /\ DidCommit(m) /\ Exited(m)
      BY <2>1, <3>1 DEF Dead
    <3>3. ASSUME NEW q \in Backends
          PROVE  /\ querySnap'[q] # NoSnapshot => EndedFor(querySnap'[q], m)
                 /\ q # killer[x] /\ ~First(q)' => EndedFor(firstSnap'[q], m)
      <4>1. CASE q = b
        BY <1>1, <1>3, <2>1, <3>1, <3>2, <4>1 DEF Dead
      <4>2. CASE q # b
        BY <1>1, <1>7, <2>1, <3>1, <4>2 DEF Dead
      <4> QED
        BY <4>1, <4>2
    <3>4. Dead(x, m)'
      BY <1>2, <1>7, <3>2, <3>3 DEF Dead
    <3> QED
      BY <1>2, <3>1, <3>4
  <2> QED
    BY <1>2, <1>7, <2>1 DEF RowInv, Kills
<1> QED
  BY <1>9, <1>10, <1>12, <1>13 DEF RowInv

LEMMA RowNext == Inv /\ CutInv /\ RowInv /\ [Next]_vars => RowInv'
<1> SUFFICES ASSUME Inv, CutInv, RowInv, [Next]_vars PROVE RowInv'
  OBVIOUS
<1>1. ASSUME NEW b \in Backends, Step(b) PROVE RowInv'
  BY <1>1, RowScans, RowEnd, RowExamine, RowWait, RowVacuum, RowLeave, RowRelease DEF Step
<1>2. ASSUME NEW b \in Backends, Call(b) PROVE RowInv'
  BY <1>2, RowNewXid, RowScans, RowChoose, RowKill, RowRecord DEF Call
<1>3. CASE UNCHANGED vars
  <2>1. UNCHANGED <<nextXid, xid, pc, myXid, clog, heap, killer, firstSnap, querySnap, version, xwait, exited>>
    BY <1>3 DEF vars, clockVars, rowVars, xactVars, snapVars, updVars
  <2>2. clog' \in [Xids -> {"running", "committed", "aborted"}] /\ \A x \in Xids : DidCommit(x)' <=> DidCommit(x)
    BY <2>1 DEF RowInv, RowTypes, DidCommit
  <2>3. RowTypes' /\ Committed' /\ Inserted' /\ Own' /\ AlwaysOne' /\ NoVersionLost' /\ Kills'
    BY <2>1, <2>2, RowFrame
  <2>4. Chosen'
    BY <2>1 DEF RowInv, Chosen, DidCommit, Exited
  <2> QED
    BY <2>3, <2>4 DEF RowInv
<1> QED
  BY <1>1, <1>2, <1>3 DEF Next

\* What was removed from the index has a deleter who has ended for all who may look.
LEMMA KilledFromInv ==
    ASSUME Inv, CutInv, RowInv
    PROVE  KilledUnseen
<1>1. SUFFICES ASSUME NEW x \in DOMAIN killer, NEW b \in Backends, NEW s \in InUse(b),
                      s = querySnap[b] \/ (b # killer[x] /\ s = firstSnap[b]), Seen(b, s, x)
               PROVE  FALSE
  BY DEF KilledUnseen, InUse
<1>2. x \in DOMAIN heap /\ SatisfiesSnapshot(b, s, x) /\ x \in Xids /\ (x = 0 \/ Exited(x))
  BY <1>1 DEF Seen, RowInv, Kills
<1>3. x # myXid[b]
  <2>1. pc[b] \notin {"idle", "unlock"}
    BY Using
  <2>2. myXid[b] # 0 /\ ~Exited(myXid[b])
    BY <2>1, Running DEF Inv, OwnXids
  <2> QED
    BY <1>2, <2>2
<1>4. DidCommit(x)
  BY <1>2, <1>3 DEF SatisfiesSnapshot, Sees
<1>5. Dead(x, heap[x].xmax)
  BY <1>2, <1>4 DEF RowInv, Kills
<1>6. ~First(b) /\ s # NoSnapshot
  BY Using DEF InUse
<1>7. EndedFor(s, heap[x].xmax)
  BY <1>1, <1>5, <1>6 DEF Dead
<1> QED
  BY <1>2, <1>5, <1>7 DEF SatisfiesSnapshot, Sees, Dead

LEMMA RowInvariant == Spec => [](Inv /\ CutInv /\ RowInv)
<1>1. Init => Inv /\ CutInv /\ RowInv
  BY InitInv, CutInit, RowInit
<1>2. (Inv /\ CutInv /\ RowInv) /\ [Next]_vars => (Inv /\ CutInv /\ RowInv)'
  BY NextInv, CutNext, RowNext
<1> QED
  BY <1>1, <1>2, PTL DEF Spec

\* VACUUM removes no version that an open snapshot still needs: every snapshot sees a
\* version of the row, also one that was being taken, and had not published its xmin,
\* while GetOldestXmin scanned the PGPROCs.
THEOREM VersionInvariant == Spec => []NoVersionLost
<1>1. Inv /\ CutInv /\ RowInv => NoVersionLost
  BY DEF RowInv
<1> QED
  BY <1>1, RowInvariant, PTL

\* A version that an index scan has removed from the index, by a RecentGlobalXmin that
\* may be old, is seen by no other transaction and by no current query.
THEOREM KilledInvariant == Spec => []KilledUnseen
<1>1. Inv /\ CutInv /\ RowInv => KilledUnseen
  BY KilledFromInv
<1> QED
  BY <1>1, RowInvariant, PTL
=============================================================================
