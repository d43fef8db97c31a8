-------------------------- MODULE CacheInvalProofs --------------------------
(***************************************************************************)
(* Proofs about CacheInval for any number of backends and relations: an    *)
(* entry is current under a lock, whoever has an entry that is out of date *)
(* will be told, and no file with obsolete entries is left around.         *)
(***************************************************************************)
EXTENDS CacheInval, SequenceTheorems, TLAPS

PCs == {"out", "load", "startup", "write", "check", "rename", "unlink", "idle", "begin", "run",
        "lock", "locked", "recorded", "send", "sendInit", "sending"}
Sending == {"send", "sendInit", "sending"}
InXact == {"begin", "run", "lock", "locked", "recorded"}
Locks == {"none", "share", "exclusive"}
Versions == [Relations -> Nat]

Types ==
    /\ \A b \in Backends : pending[b] \in Seq(Relations) \union {Queue!Reset, Queue!Out}
    /\ DOMAIN pending = Backends /\ DOMAIN data = Backends
    /\ catalog \in Versions /\ made \in Nat
    /\ \A r \in Relations : catalog[r] # 0
    /\ current \in [Backends -> Versions] /\ prior \in [Backends -> Versions]
    /\ cache \in [Backends -> Versions]
    /\ currentMsgs \in [Backends -> SUBSET Relations] /\ priorMsgs \in [Backends -> SUBSET Relations]
    /\ locks \in [Backends -> [Relations -> Locks]]
    /\ DOMAIN opening = Backends /\ invals \in [Backends -> BOOLEAN]
    /\ initFile \in [InitRels -> Nat] \union {NoFile}
    /\ pc \in [Backends -> PCs]

\* Only a backend that runs reads messages, and one that starts has no entry.
StartsAt(b) ==
    /\ pc[b] = "out" <=> pending[b] = Queue!Out
    /\ pc[b] \in {"out", "load", "startup"} => cache[b] = Nothing

Exclusion ==
    \A b, c \in Backends, r \in Relations :
        locks[b][r] = "exclusive" /\ c # b => locks[c][r] = "none"

\* Whoever has written the rows of a relation has a message about it, and, until
\* that is sent, the exclusive lock.
WritingAt(b) ==
    /\ pc[b] \notin InXact => current[b] = Nothing /\ prior[b] = Nothing /\ currentMsgs[b] = {}
    /\ pc[b] \notin InXact \union Sending => priorMsgs[b] = {}
    /\ pc[b] \notin InXact \union Sending => \A r \in Relations : locks[b][r] = "none"
    /\ pc[b] = "lock" => \E r \in Relations, mode \in {"share", "exclusive"} :
                            opening[b] = <<r, mode>> /\ locks[b][r] # "exclusive"
    /\ \A r \in Relations :
          /\ current[b][r] # 0 => r \in currentMsgs[b]
          /\ prior[b][r] # 0 => r \in priorMsgs[b]
          /\ r \in currentMsgs[b] \union priorMsgs[b] => locks[b][r] = "exclusive"

\* b is about to be told that the rows of r have changed.
Told(b, r) ==
    \/ pending[b] = Queue!Reset \/ r \in Range(pending[b])
    \/ \E c \in Backends : pc[c] \in Sending /\ r \in priorMsgs[c]

StaleAt(b) == \A r \in Relations \ InitRels : cache[b][r] \in {0, Visible(b, r)} \/ Told(b, r)

CurrentAt(b) ==
    \A r \in Relations \ InitRels :
        (pc[b] = "run" /\ locks[b][r] # "none") => cache[b][r] \in {0, Visible(b, r)}

\* Only who holds RelCacheInitLock replaces the init file, ...
InitLock == \A b \in Backends : pc[b] \in {"check", "rename", "unlink"} => initLock = b

\* ... and there are unlinks to come for each entry of the file that is out of
\* date, or that the file is about to have.
Unlinks(r) ==
    \E c \in Backends : pc[c] = "sendInit" \/ (pc[c] = "send" /\ r \in priorMsgs[c])
FileFresh == \A r \in InitRels : initFile = NoFile \/ initFile[r] = catalog[r] \/ Unlinks(r)
SavingAt(b) ==
    /\ pc[b] = "sending" => priorMsgs[b] \intersect InitRels = {}
    /\ \A r \in InitRels :
          /\ pc[b] = "rename" => cache[b][r] = catalog[r] \/ Unlinks(r)
          /\ (pc[b] \in {"write", "check"} /\ ~invals[b]) => cache[b][r] # 0
          /\ (pc[b] \in {"write", "check"} /\ ~invals[b]) => cache[b][r] = catalog[r] \/ Told(b, r)

At(b) == StartsAt(b) /\ WritingAt(b) /\ StaleAt(b) /\ CurrentAt(b)

Inv == Types /\ Exclusion /\ InitLock /\ FileFresh /\ \A b \in Backends : At(b) /\ SavingAt(b)
-----------------------------------------------------------------------------
LEMMA InitInv == Init => Inv
<1> SUFFICES ASSUME Init PROVE Inv
  OBVIOUS
<1>1. Nothing \in Versions /\ \A r \in Relations : Nothing[r] = 0
  BY DEF Nothing, Versions
<1>2. Types
  BY <1>1, BoundsNatural DEF Init, Types, Queue!Init, Versions, Locks, PCs
<1>3. Exclusion /\ InitLock /\ FileFresh
  BY DEF Init, Exclusion, InitLock, FileFresh
<1>4. \A b \in Backends : WritingAt(b)
  BY <1>1 DEF Init, WritingAt, InXact, Sending
<1>5. \A b \in Backends : StartsAt(b) /\ StaleAt(b) /\ CurrentAt(b) /\ SavingAt(b)
  BY <1>1 DEF Init, Queue!Init, StartsAt, StaleAt, CurrentAt, SavingAt
<1> QED
  BY <1>2, <1>3, <1>4, <1>5 DEF Inv, At

\* What is pending is pending until it is read.
LEMMA Appended ==
    ASSUME NEW s \in Seq(Relations), NEW m \in Relations
    PROVE  Append(s, m) \in Seq(Relations) /\ Range(Append(s, m)) = Range(s) \union {m}
<1>1. /\ Append(s, m) \in Seq(Relations) /\ Len(Append(s, m)) = Len(s) + 1
      /\ \A i \in 1..Len(s) : Append(s, m)[i] = s[i]
      /\ Append(s, m)[Len(s) + 1] = m
  BY AppendProperties
<1>2. Len(s) \in Nat /\ DOMAIN s = 1..Len(s) /\ DOMAIN Append(s, m) = 1..(Len(s) + 1)
  BY <1>1, LenProperties
<1>3. ASSUME NEW x \in Range(Append(s, m)) PROVE x \in Range(s) \union {m}
  <2>1. PICK i \in 1..(Len(s) + 1) : Append(s, m)[i] = x
    BY <1>2 DEF Range
  <2>2. i \in 1..Len(s) \/ i = Len(s) + 1
    BY <1>2
  <2> QED
    BY <1>1, <1>2, <2>1, <2>2 DEF Range
<1>4. ASSUME NEW x \in Range(s) PROVE x \in Range(Append(s, m))
  <2>1. PICK i \in 1..Len(s) : s[i] = x
    BY <1>2 DEF Range
  <2>2. i \in DOMAIN Append(s, m) /\ Append(s, m)[i] = x
    BY <1>1, <1>2, <2>1
  <2> QED
    BY <2>2 DEF Range
<1>5. m \in Range(Append(s, m))
  <2>1. Len(s) + 1 \in DOMAIN Append(s, m)
    BY <1>2
  <2> QED
    BY <1>1, <2>1 DEF Range
<1> QED
  BY <1>1, <1>3, <1>4, <1>5

LEMMA HeadTail ==
    ASSUME NEW s \in Seq(Relations), s # <<>>
    PROVE  /\ Head(s) \in Relations /\ Tail(s) \in Seq(Relations)
           /\ \A x \in Range(s) : x = Head(s) \/ x \in Range(Tail(s))
<1>1. /\ Head(s) \in Relations /\ Tail(s) \in Seq(Relations) /\ Len(Tail(s)) = Len(s) - 1
      /\ \A i \in 1..Len(Tail(s)) : Tail(s)[i] = s[i + 1]
      /\ Head(s) = s[1]
  BY HeadTailProperties
<1>2. Len(s) \in Nat /\ DOMAIN s = 1..Len(s) /\ DOMAIN Tail(s) = 1..(Len(s) - 1)
  BY <1>1, LenProperties
<1>3. ASSUME NEW x \in Range(s), x # Head(s) PROVE x \in Range(Tail(s))
  <2>1. PICK i \in 1..Len(s) : s[i] = x
    BY <1>2 DEF Range
  <2>2. i # 1
    BY <1>1, <1>3, <2>1
  <2>3. i - 1 \in 1..Len(Tail(s)) /\ (i - 1) + 1 = i
    BY <1>1, <1>2, <2>1, <2>2
  <2>4. i - 1 \in DOMAIN Tail(s) /\ Tail(s)[i - 1] = x
    BY <1>1, <1>2, <2>1, <2>3
  <2> QED
    BY <2>4 DEF Range
<1> QED
  BY <1>1, <1>3

LEMMA EmptyQueue == Range(<<>>) = {} /\ <<>> # Queue!Reset /\ <<>> # Queue!Out /\ Queue!Reset # Queue!Out
<1>1. Range(<<>>) = {}
  BY DEF Range
<1>2. Len(<<>>) = 0 /\ Len(<<"reset">>) = 1 /\ Len(<<"out">>) = 1 /\ <<"reset">>[1] = "reset" /\ <<"out">>[1] = "out"
  OBVIOUS
<1> QED
  BY <1>1, <1>2 DEF Queue!Reset, Queue!Out

LEMMA SeqOrdinary == \A s \in Seq(Relations) : s # Queue!Out /\ s # Queue!Reset
<1>1. SUFFICES ASSUME NEW s \in Seq(Relations), s \in {<<"out">>, <<"reset">>} PROVE FALSE
  BY DEF Queue!Out, Queue!Reset
<1>2. s[1] \in Relations /\ s[1] \in {"out", "reset"}
  BY <1>1
<1> QED
  BY <1>2, RelationsOrdinary

\* With all messages read, an entry of a relation that is locked is current: its
\* writer would still have the lock.
LEMMA ReadAll ==
    ASSUME Inv, NEW b \in Backends, NEW r \in Relations \ InitRels,
           pending[b] = <<>>, pc[b] \notin Sending, locks[b][r] # "none"
    PROVE  cache[b][r] \in {0, Visible(b, r)}
<1>1. SUFFICES ASSUME Told(b, r) PROVE FALSE
  BY DEF Inv, At, StaleAt
<1>2. PICK c \in Backends : pc[c] \in Sending /\ r \in priorMsgs[c]
  BY <1>1, EmptyQueue DEF Told
<1>3. locks[c][r] = "exclusive" /\ c # b
  BY <1>2 DEF Inv, At, WritingAt
<1> QED
  BY <1>3 DEF Inv, Exclusion
-----------------------------------------------------------------------------
(***************************************************************************)
(* Steps by which one backend changes only its own state.                  *)
(***************************************************************************)
Others(b) ==
    /\ UNCHANGED catalog
    /\ \A c \in Backends \ {b} :
          /\ pending'[c] = pending[c] /\ pc'[c] = pc[c]
          /\ opening'[c] = opening[c] /\ locks'[c] = locks[c]
          /\ current'[c] = current[c] /\ prior'[c] = prior[c]
          /\ currentMsgs'[c] = currentMsgs[c] /\ priorMsgs'[c] = priorMsgs[c]
          /\ cache'[c] = cache[c] /\ invals'[c] = invals[c]

\* The messages b is still to send are the same.
SameToSend(b) ==
    \A r \in Relations :
        (pc'[b] \in Sending /\ r \in priorMsgs'[b]) <=> (pc[b] \in Sending /\ r \in priorMsgs[b])

LEMMA ToldKept ==
    ASSUME NEW b \in Backends, Others(b), SameToSend(b), NEW c \in Backends, NEW r \in Relations,
           pending'[c] = pending[c]
    PROVE  Told(c, r)' <=> Told(c, r)
<1>1. \A d \in Backends : (pc'[d] \in Sending /\ r \in priorMsgs'[d]) <=> (pc[d] \in Sending /\ r \in priorMsgs[d])
  BY DEF Others, SameToSend
<1> QED
  BY <1>1 DEF Told

\* What holds for the others goes on to hold.
LEMMA AtKept ==
    ASSUME Inv, NEW b \in Backends, Others(b), SameToSend(b), At(b)'
    PROVE  \A c \in Backends : At(c)'
<1>1. SUFFICES ASSUME NEW c \in Backends, c # b PROVE At(c)'
  OBVIOUS
<1>2. \A r \in Relations : Visible(c, r)' = Visible(c, r)
  BY <1>1 DEF Others, Visible
<1>3. \A r \in Relations : Told(c, r)' <=> Told(c, r)
  BY <1>1, ToldKept DEF Others
<1>4. StartsAt(c)' /\ WritingAt(c)'
  BY <1>1 DEF Inv, At, StartsAt, WritingAt, Others
<1>5. StaleAt(c)' /\ CurrentAt(c)'
  BY <1>1, <1>2, <1>3 DEF Inv, At, StaleAt, CurrentAt, Others
<1> QED
  BY <1>4, <1>5 DEF At

LEMMA SavingKept ==
    ASSUME Inv, NEW b \in Backends, Others(b), SameToSend(b), SavingAt(b)',
           \A r \in InitRels : Unlinks(r) => Unlinks(r)'
    PROVE  \A c \in Backends : SavingAt(c)'
<1>1. SUFFICES ASSUME NEW c \in Backends, c # b PROVE SavingAt(c)'
  OBVIOUS
<1>2. \A r \in InitRels : Told(c, r)' <=> Told(c, r)
  BY <1>1, ToldKept, InitRelsAreRelations DEF Others
<1> QED
  BY <1>1, <1>2 DEF Inv, SavingAt, Others

\* Steps that only go on.
LEMMA GoOn ==
    ASSUME Inv, NEW b \in Backends, NEW l \in PCs \ {"out", "load", "startup", "lock"},
           pc' = [pc EXCEPT ![b] = l], pc[b] # "out",
           pc[b] \notin Sending, l \notin Sending, l \in InXact \/ pc[b] \notin InXact,
           l = "run" => pending[b] = <<>> \/ \A r \in Relations : locks[b][r] = "none",
           UNCHANGED <<pending, data, catalog, made, current, prior, currentMsgs, priorMsgs, locks, opening,
                       cache, invals>>
    PROVE  /\ Others(b) /\ SameToSend(b) /\ pc'[b] = l
           /\ Exclusion' /\ \A c \in Backends : At(c)'
           /\ \A r \in Relations : Unlinks(r)' <=> Unlinks(r)
<1>1. pc'[b] = l /\ \A c \in Backends \ {b} : pc'[c] = pc[c]
  BY DEF Inv, Types
<1>2. Others(b) /\ SameToSend(b)
  BY <1>1 DEF Others, SameToSend
<1>3. Exclusion'
  BY DEF Inv, Exclusion
<1>4. \A r \in Relations : Visible(b, r)' = Visible(b, r)
  BY DEF Visible
<1>5. \A r \in Relations : Told(b, r)' <=> Told(b, r)
  BY <1>2, ToldKept
<1>6. StartsAt(b)' /\ WritingAt(b)'
  BY <1>1 DEF Inv, At, StartsAt, WritingAt
<1>7. StaleAt(b)'
  BY <1>4, <1>5 DEF Inv, At, StaleAt
<1>8. CurrentAt(b)'
  <2>1. \A r \in Relations \ InitRels : l = "run" /\ locks[b][r] # "none" => cache[b][r] \in {0, Visible(b, r)}
    BY ReadAll
  <2> QED
    BY <1>1, <1>4, <2>1 DEF CurrentAt
<1>9. \A c \in Backends : At(c)'
  BY <1>2, <1>6, <1>7, <1>8, AtKept DEF At
<1>10. \A r \in Relations : Unlinks(r)' <=> Unlinks(r)
  BY <1>1 DEF Unlinks, Sending
<1> QED
  BY <1>1, <1>2, <1>3, <1>9, <1>10

LEMMA TypesGoOn ==
    ASSUME Inv, NEW b \in Backends, NEW l \in PCs, pc' = [pc EXCEPT ![b] = l],
           UNCHANGED <<pending, data, catalog, made, current, prior, currentMsgs, priorMsgs, locks, opening,
                       cache, invals, initFile>>
    PROVE  Types'
BY DEF Inv, Types

LEMMA QuietSteps ==
    ASSUME Inv, NEW b \in Backends, Begin(b) \/ Begun(b) \/ Locked(b) \/ RecordCommit(b)
    PROVE  Inv'
<1>1. PICK l \in {"begin", "run", "recorded"} :
        /\ pc' = [pc EXCEPT ![b] = l] /\ pc[b] \in {"idle", "begin", "locked", "run"}
        /\ l = "run" => pending[b] = <<>>
        /\ l \in InXact
        /\ UNCHANGED <<pending, data, catalog, made, current, prior, currentMsgs, priorMsgs, locks, opening,
                       cache, invals, initFile, initLock>>
  BY DEF Begin, Begun, Locked, RecordCommit, Accepted, Goto, InXact, queueVars, xactVars, cacheVars, fileVars
<1>2. l \in PCs \ {"out", "load", "startup", "lock"} /\ l \notin Sending /\ pc[b] \notin Sending /\ pc[b] # "out"
  BY <1>1 DEF PCs, Sending
<1>3. /\ Others(b) /\ SameToSend(b) /\ pc'[b] = l
      /\ Exclusion' /\ \A c \in Backends : At(c)'
      /\ \A r \in Relations : Unlinks(r)' <=> Unlinks(r)
  BY <1>1, <1>2, GoOn
<1>4. Types'
  BY <1>1, <1>2, TypesGoOn
<1>5. InitLock'
  BY <1>1, <1>3 DEF Inv, InitLock, Others
<1>6. FileFresh'
  BY <1>1, <1>3, InitRelsAreRelations DEF Inv, FileFresh
<1>7. SavingAt(b)'
  BY <1>1, <1>3 DEF SavingAt
<1>8. \A c \in Backends : SavingAt(c)'
  BY <1>3, <1>7, SavingKept, InitRelsAreRelations
<1> QED
  BY <1>3, <1>4, <1>5, <1>6, <1>8 DEF Inv

LEMMA LockInitFileStep ==
    ASSUME Inv, NEW b \in Backends, LockInitFile(b)
    PROVE  Inv'
<1>1. /\ pc' = [pc EXCEPT ![b] = "check"] /\ pc[b] = "write" /\ initLock = NoBackend /\ initLock' = b
      /\ UNCHANGED <<pending, data, catalog, made, current, prior, currentMsgs, priorMsgs, locks, opening,
                     cache, invals, initFile>>
  BY DEF LockInitFile, Goto, queueVars, xactVars, cacheVars
<1>2. /\ "check" \in PCs \ {"out", "load", "startup", "lock"} /\ "check" \notin Sending
      /\ pc[b] \notin Sending /\ pc[b] # "out" /\ pc[b] \notin InXact
  BY <1>1 DEF PCs, Sending, InXact
<1>3. /\ Others(b) /\ SameToSend(b) /\ pc'[b] = "check"
      /\ Exclusion' /\ \A c \in Backends : At(c)'
      /\ \A r \in Relations : Unlinks(r)' <=> Unlinks(r)
  BY <1>1, <1>2, GoOn
<1>4. Types'
  BY <1>1, <1>2, TypesGoOn
<1>5. InitLock'
  BY <1>1, <1>3, NoBackendIsNone DEF Inv, InitLock, Others
<1>6. FileFresh'
  BY <1>1, <1>3, InitRelsAreRelations DEF Inv, FileFresh
<1>7. \A r \in InitRels : Told(b, r)' <=> Told(b, r)
  BY <1>1, <1>3, ToldKept, InitRelsAreRelations
<1>8. SavingAt(b)'
  BY <1>1, <1>3, <1>7 DEF Inv, SavingAt
<1>9. \A c \in Backends : SavingAt(c)'
  BY <1>3, <1>8, SavingKept, InitRelsAreRelations
<1> QED
  BY <1>3, <1>4, <1>5, <1>6, <1>9 DEF Inv

\* Whoever has sent about a relation of the file has yet to unlink the file.
LEMMA CheckInitFileStep ==
    ASSUME Inv, NEW b \in Backends, CheckInitFile(b)
    PROVE  Inv'
<1> DEFINE l == IF invals[b] THEN "unlink" ELSE "rename"
<1>1. /\ pc' = [pc EXCEPT ![b] = l] /\ pc[b] = "check" /\ pending[b] = <<>>
      /\ UNCHANGED <<pending, data, catalog, made, current, prior, currentMsgs, priorMsgs, locks, opening,
                     cache, invals, initFile, initLock>>
  BY DEF CheckInitFile, Accepted, Goto, queueVars, xactVars, cacheVars, fileVars
<1>2. /\ l \in PCs \ {"out", "load", "startup", "lock"} /\ l \notin Sending /\ l # "run"
      /\ l \notin {"write", "check"} /\ (l = "rename" => ~invals[b])
      /\ pc[b] \notin Sending /\ pc[b] # "out" /\ pc[b] \notin InXact
  BY <1>1 DEF PCs, Sending, InXact
<1> HIDE DEF l
<1>3. /\ Others(b) /\ SameToSend(b) /\ pc'[b] = l
      /\ Exclusion' /\ \A c \in Backends : At(c)'
      /\ \A r \in Relations : Unlinks(r)' <=> Unlinks(r)
  BY <1>1, <1>2, GoOn
<1>4. Types'
  BY <1>1, <1>2, TypesGoOn
<1>5. InitLock'
  BY <1>1, <1>3 DEF Inv, InitLock, Others
<1>6. FileFresh'
  BY <1>1, <1>3, InitRelsAreRelations DEF Inv, FileFresh
<1>7. ASSUME NEW r \in InitRels, l = "rename"
      PROVE  cache[b][r] = catalog[r] \/ Unlinks(r)
  <2>1. cache[b][r] = catalog[r] \/ Told(b, r)
    BY <1>1, <1>2, <1>7 DEF Inv, SavingAt
  <2>2. SUFFICES ASSUME Told(b, r) PROVE Unlinks(r)
    BY <2>1
  <2>3. PICK c \in Backends : pc[c] \in Sending /\ r \in priorMsgs[c]
    BY <1>1, <2>2, EmptyQueue DEF Told
  <2>4. pc[c] # "sending"
    BY <2>3 DEF Inv, SavingAt
  <2> QED
    BY <2>3, <2>4 DEF Unlinks, Sending
<1>8. SavingAt(b)'
  BY <1>1, <1>2, <1>3, <1>7, InitRelsAreRelations DEF SavingAt, Sending
<1>9. \A c \in Backends : SavingAt(c)'
  BY <1>3, <1>8, SavingKept, InitRelsAreRelations
<1> QED
  BY <1>3, <1>4, <1>5, <1>6, <1>9 DEF Inv

LEMMA RenameInitFileStep ==
    ASSUME Inv, NEW b \in Backends, RenameInitFile(b)
    PROVE  Inv'
<1>1. /\ pc' = [pc EXCEPT ![b] = "run"] /\ pc[b] \in {"rename", "unlink"} /\ initLock' = NoBackend
      /\ initFile' = IF pc[b] = "rename" THEN [r \in InitRels |-> cache[b][r]] ELSE initFile
      /\ UNCHANGED <<pending, data, catalog, made, current, prior, currentMsgs, priorMsgs, locks, opening,
                     cache, invals>>
  BY DEF RenameInitFile, Goto, queueVars, xactVars, cacheVars
<1>2. /\ "run" \in PCs \ {"out", "load", "startup", "lock"} /\ "run" \notin Sending /\ "run" \in InXact
      /\ pc[b] \notin Sending /\ pc[b] # "out" /\ pc[b] \notin InXact
  BY <1>1 DEF PCs, Sending, InXact
<1>a. \A r \in Relations : locks[b][r] = "none"
  BY <1>2 DEF Inv, At, WritingAt
<1>3. /\ Others(b) /\ SameToSend(b) /\ pc'[b] = "run"
      /\ Exclusion' /\ \A c \in Backends : At(c)'
      /\ \A r \in Relations : Unlinks(r)' <=> Unlinks(r)
  BY <1>1, <1>2, <1>a, GoOn
<1>4. Types'
  <2>1. initFile' \in [InitRels -> Nat] \union {NoFile}
    BY <1>1, InitRelsAreRelations DEF Inv, Types, Versions
  <2> QED
    BY <1>1, <1>2, <2>1 DEF Inv, Types
<1>5. InitLock'
  BY <1>1, <1>3, NoBackendIsNone DEF Inv, InitLock, Others
<1>6. FileFresh'
  <2>1. ASSUME NEW r \in InitRels PROVE (initFile = NoFile \/ initFile[r] = catalog[r] \/ Unlinks(r))'
    BY <1>1, <1>3, InitRelsAreRelations DEF Inv, FileFresh, SavingAt
  <2> QED
    BY <2>1 DEF FileFresh
<1>7. SavingAt(b)'
  BY <1>3 DEF SavingAt
<1>8. \A c \in Backends : SavingAt(c)'
  BY <1>3, <1>7, SavingKept, InitRelsAreRelations
<1> QED
  BY <1>3, <1>4, <1>5, <1>6, <1>8 DEF Inv

LEMMA NotSending ==
    ASSUME NEW b \in Backends, Others(b), pc[b] \notin Sending, pc'[b] \notin Sending
    PROVE  SameToSend(b) /\ \A r \in Relations : Unlinks(r)' <=> Unlinks(r)
<1>1. \A c \in Backends, r \in Relations :
        (pc'[c] = "sendInit" \/ (pc'[c] = "send" /\ r \in priorMsgs'[c]))
            <=> (pc[c] = "sendInit" \/ (pc[c] = "send" /\ r \in priorMsgs[c]))
  BY DEF Others, Sending
<1> QED
  BY <1>1 DEF SameToSend, Unlinks

\* A step of a transaction.
LEMMA OwnStep ==
    ASSUME Inv, NEW b \in Backends, Others(b), pc[b] \notin Sending,
           pc'[b] \notin Sending \union {"write", "check", "rename", "unlink"},
           UNCHANGED <<initFile, initLock>>, Types', Exclusion', At(b)'
    PROVE  Inv'
<1>1. SameToSend(b) /\ \A r \in Relations : Unlinks(r)' <=> Unlinks(r)
  BY NotSending
<1>2. \A c \in Backends : At(c)'
  BY <1>1, AtKept
<1>3. InitLock'
  BY DEF Inv, InitLock, Others
<1>4. FileFresh'
  BY <1>1, InitRelsAreRelations DEF Inv, FileFresh, Others
<1>5. SavingAt(b)'
  BY DEF SavingAt, Sending
<1>6. \A c \in Backends : SavingAt(c)'
  BY <1>1, <1>5, SavingKept, InitRelsAreRelations
<1> QED
  BY <1>2, <1>3, <1>4, <1>6 DEF Inv

LEMMA StartStep ==
    ASSUME Inv, NEW b \in Backends, Start(b)
    PROVE  Inv'
<1>1. /\ pc[b] = "out" /\ pc' = [pc EXCEPT ![b] = "load"] /\ pending' = [pending EXCEPT ![b] = <<>>]
      /\ UNCHANGED <<data, catalog, made, current, prior, currentMsgs, priorMsgs, locks, opening, cache, invals,
                     initFile, initLock>>
  BY DEF Start, Goto, Queue!Join, xactVars, cacheVars, fileVars
<1>2. pc'[b] = "load" /\ pending'[b] = <<>> /\ \A c \in Backends \ {b} : pc'[c] = pc[c] /\ pending'[c] = pending[c]
  BY <1>1 DEF Inv, Types
<1>3. Others(b) /\ Exclusion'
  BY <1>1, <1>2 DEF Others, Inv, Exclusion
<1>4. Types'
  <2>1. \A c \in Backends : pending'[c] \in Seq(Relations) \union {Queue!Reset, Queue!Out}
    <3>1. <<>> \in Seq(Relations)
      OBVIOUS
    <3> QED
      BY <1>2, <3>1 DEF Inv, Types
  <2> QED
    BY <1>1, <2>1 DEF Inv, Types, PCs
<1>5. cache[b] = Nothing
  BY <1>1 DEF Inv, At, StartsAt
<1>6. StartsAt(b)'
  BY <1>1, <1>2, <1>5, EmptyQueue DEF StartsAt
<1>7. WritingAt(b)'
  BY <1>1, <1>2 DEF Inv, At, WritingAt, InXact, Sending
<1>8. StaleAt(b)' /\ CurrentAt(b)'
  BY <1>1, <1>5 DEF StaleAt, CurrentAt, Nothing
<1>9. pc[b] \notin Sending /\ pc'[b] \notin Sending \union {"write", "check", "rename", "unlink"}
  BY <1>1, <1>2 DEF Sending
<1>10. At(b)'
  BY <1>6, <1>7, <1>8 DEF At
<1> QED
  BY <1>1, <1>3, <1>4, <1>9, <1>10, OwnStep

LEMMA ExitStep ==
    ASSUME Inv, NEW b \in Backends, Exit(b)
    PROVE  Inv'
<1>1. /\ pc[b] = "idle" /\ pc' = [pc EXCEPT ![b] = "out"] /\ pending' = [pending EXCEPT ![b] = Queue!Out]
      /\ cache' = [cache EXCEPT ![b] = Nothing] /\ invals' = [invals EXCEPT ![b] = FALSE]
      /\ UNCHANGED <<data, catalog, made, current, prior, currentMsgs, priorMsgs, locks, opening,
                     initFile, initLock>>
  BY DEF Exit, Goto, Queue!Leave, xactVars, fileVars
<1>2. /\ pc'[b] = "out" /\ pending'[b] = Queue!Out /\ cache'[b] = Nothing
      /\ \A c \in Backends \ {b} :
            pc'[c] = pc[c] /\ pending'[c] = pending[c] /\ cache'[c] = cache[c] /\ invals'[c] = invals[c]
  BY <1>1 DEF Inv, Types
<1>3. Others(b) /\ Exclusion'
  BY <1>1, <1>2 DEF Others, Inv, Exclusion
<1>4. Types'
  <2>1. \A c \in Backends : pending'[c] \in Seq(Relations) \union {Queue!Reset, Queue!Out}
    BY <1>2 DEF Inv, Types
  <2>2. Nothing \in Versions
    BY DEF Nothing, Versions
  <2> QED
    BY <1>1, <2>1, <2>2 DEF Inv, Types, PCs
<1>6. StartsAt(b)'
  BY <1>2 DEF StartsAt
<1>7. WritingAt(b)'
  BY <1>1, <1>2 DEF Inv, At, WritingAt, InXact, Sending
<1>8. StaleAt(b)' /\ CurrentAt(b)'
  BY <1>2 DEF StaleAt, CurrentAt, Nothing
<1>9. pc[b] \notin Sending /\ pc'[b] \notin Sending \union {"write", "check", "rename", "unlink"}
  BY <1>1, <1>2 DEF Sending
<1>10. At(b)'
  BY <1>6, <1>7, <1>8 DEF At
<1> QED
  BY <1>1, <1>3, <1>4, <1>9, <1>10, OwnStep

LEMMA LoadStep ==
    ASSUME Inv, NEW b \in Backends, Load(b)
    PROVE  Inv'
<1>1. PICK l \in {"idle", "startup"} :
        /\ pc[b] = "load" /\ pc' = [pc EXCEPT ![b] = l]
        /\ \/ /\ l = "idle" /\ initFile # NoFile
              /\ cache' = [cache EXCEPT ![b] = [r \in Relations |-> IF r \in InitRels THEN initFile[r] ELSE 0]]
           \/ cache' = cache
        /\ UNCHANGED <<pending, data, catalog, made, current, prior, currentMsgs, priorMsgs, locks, opening,
                       invals, initFile, initLock>>
  BY DEF Load, Goto, queueVars, xactVars, fileVars
<1>a. cache[b] = Nothing /\ pending[b] # Queue!Out
  BY <1>1 DEF Inv, At, StartsAt
<1>b. cache' \in [Backends -> Versions]
  <2>1. initFile # NoFile => [r \in Relations |-> IF r \in InitRels THEN initFile[r] ELSE 0] \in Versions
    BY DEF Inv, Types, Versions
  <2> QED
    BY <1>1, <2>1 DEF Inv, Types
<1>2. /\ pc'[b] = l /\ \A r \in Relations \ InitRels : cache'[b][r] = 0
      /\ \A c \in Backends \ {b} : pc'[c] = pc[c] /\ cache'[c] = cache[c]
      /\ l = "startup" => cache'[b] = Nothing
  BY <1>1, <1>a DEF Inv, Types, Nothing
<1>3. Others(b) /\ Exclusion'
  BY <1>1, <1>2 DEF Others, Inv, Exclusion
<1>4. Types'
  BY <1>1, <1>b DEF Inv, Types, PCs
<1>6. StartsAt(b)'
  BY <1>1, <1>2, <1>a DEF StartsAt
<1>7. WritingAt(b)'
  BY <1>1, <1>2 DEF Inv, At, WritingAt, InXact, Sending
<1>8. StaleAt(b)' /\ CurrentAt(b)'
  BY <1>2 DEF StaleAt, CurrentAt
<1>9. pc[b] \notin Sending /\ pc'[b] \notin Sending \union {"write", "check", "rename", "unlink"}
  BY <1>1, <1>2 DEF Sending
<1>10. At(b)'
  BY <1>6, <1>7, <1>8 DEF At
<1> QED
  BY <1>1, <1>3, <1>4, <1>9, <1>10, OwnStep


\* Without a file the entries are what is committed.
LEMMA BuildStep ==
    ASSUME Inv, NEW b \in Backends, Build(b)
    PROVE  Inv'
<1> DEFINE built == [r \in Relations |-> IF r \in InitRels THEN catalog[r] ELSE 0]
<1>1. /\ pc[b] = "startup" /\ pc' = [pc EXCEPT ![b] = "write"] /\ pending[b] = <<>>
      /\ cache' = [cache EXCEPT ![b] = built]
      /\ UNCHANGED <<pending, data, catalog, made, current, prior, currentMsgs, priorMsgs, locks, opening,
                     invals, initFile, initLock>>
  BY DEF Build, Accepted, Goto, queueVars, xactVars, fileVars
<1>2. /\ pc'[b] = "write" /\ cache'[b] = built
      /\ \A c \in Backends \ {b} : pc'[c] = pc[c] /\ cache'[c] = cache[c]
  BY <1>1 DEF Inv, Types
<1>a. built \in Versions /\ \A r \in Relations : built[r] = IF r \in InitRels THEN catalog[r] ELSE 0
  BY DEF Inv, Types, Versions
<1> HIDE DEF built
<1>3. Others(b) /\ Exclusion'
  BY <1>1, <1>2 DEF Others, Inv, Exclusion
<1>4. Types'
  BY <1>1, <1>a DEF Inv, Types, PCs
<1>5. pc[b] \notin Sending /\ pc'[b] \notin Sending
  BY <1>1, <1>2 DEF Sending
<1>6. SameToSend(b) /\ \A r \in Relations : Unlinks(r)' <=> Unlinks(r)
  BY <1>3, <1>5, NotSending
<1>7. StartsAt(b)'
  BY <1>1, <1>2, EmptyQueue DEF StartsAt
<1>8. WritingAt(b)'
  BY <1>1, <1>2 DEF Inv, At, WritingAt, InXact, Sending
<1>9. StaleAt(b)' /\ CurrentAt(b)'
  BY <1>2, <1>a DEF StaleAt, CurrentAt
<1>10. \A c \in Backends : At(c)'
  BY <1>3, <1>6, <1>7, <1>8, <1>9, AtKept DEF At
<1>11. InitLock'
  BY <1>1, <1>2 DEF Inv, InitLock
<1>12. FileFresh'
  BY <1>1, <1>6, InitRelsAreRelations DEF Inv, FileFresh
<1>13. SavingAt(b)'
  BY <1>1, <1>2, <1>a, InitRelsAreRelations DEF Inv, Types, SavingAt
<1>14. \A c \in Backends : SavingAt(c)'
  BY <1>3, <1>6, <1>13, SavingKept, InitRelsAreRelations
<1> QED
  BY <1>3, <1>4, <1>10, <1>11, <1>12, <1>14 DEF Inv

LEMMA OpenRelationStep ==
    ASSUME Inv, NEW b \in Backends, NEW r \in Relations, NEW mode \in {"share", "exclusive"},
           OpenRelation(b, r, mode)
    PROVE  Inv'
<1>1. /\ pc[b] = "run" /\ locks[b][r] # "exclusive" /\ pc' = [pc EXCEPT ![b] = "lock"]
      /\ opening' = [opening EXCEPT ![b] = <<r, mode>>]
      /\ cache' = [cache EXCEPT ![b][r] = IF @ = 0 THEN Visible(b, r) ELSE @]
      /\ UNCHANGED <<pending, data, catalog, made, current, prior, currentMsgs, priorMsgs, locks,
                     invals, initFile, initLock>>
  BY DEF OpenRelation, Goto, queueVars, xactVars, fileVars
<1>2. /\ pc'[b] = "lock" /\ opening'[b] = <<r, mode>>
      /\ \A c \in Backends \ {b} : pc'[c] = pc[c] /\ cache'[c] = cache[c] /\ opening'[c] = opening[c]
      /\ \A x \in Relations : cache'[b][x] = cache[b][x] \/ cache'[b][x] = Visible(b, x)
  BY <1>1 DEF Inv, Types, Versions
<1>3. Others(b) /\ Exclusion'
  BY <1>1, <1>2 DEF Others, Inv, Exclusion
<1>4. Types'
  <2>1. Visible(b, r) \in Nat
    BY DEF Inv, Types, Versions, Visible
  <2>2. cache' \in [Backends -> Versions]
    BY <1>1, <2>1 DEF Inv, Types, Versions
  <2> QED
    BY <1>1, <2>2 DEF Inv, Types, PCs
<1>5. pc[b] \notin Sending /\ pc'[b] \notin Sending \union {"write", "check", "rename", "unlink"}
  BY <1>1, <1>2 DEF Sending
<1>6. \A x \in Relations : (Told(b, x)' <=> Told(b, x)) /\ Visible(b, x)' = Visible(b, x)
  BY <1>1, <1>3, <1>5, NotSending, ToldKept DEF Visible
<1>7. StartsAt(b)' /\ CurrentAt(b)'
  BY <1>1, <1>2 DEF Inv, At, StartsAt, CurrentAt
<1>8. WritingAt(b)'
  BY <1>1, <1>2 DEF Inv, At, WritingAt, InXact, Sending
<1>9. StaleAt(b)'
  BY <1>2, <1>6 DEF Inv, At, StaleAt
<1>10. At(b)'
  BY <1>7, <1>8, <1>9 DEF At
<1> QED
  BY <1>1, <1>3, <1>4, <1>5, <1>10, OwnStep

\* A lock is never taken in a weaker mode than it is held: what is written stays
\* locked exclusively.
LEMMA AcquireStep ==
    ASSUME Inv, NEW b \in Backends, Acquire(b)
    PROVE  Inv'
<1>0. pc[b] = "lock"
  BY DEF Acquire
<1>1. PICK r \in Relations, mode \in {"share", "exclusive"} : opening[b] = <<r, mode>> /\ locks[b][r] # "exclusive"
  BY <1>0 DEF Inv, At, WritingAt
<1>2. /\ \A c \in Backends \ {b} : locks[c][r] = "none" \/ (mode = "share" /\ locks[c][r] = "share")
      /\ locks' = [locks EXCEPT ![b][r] = mode]
      /\ opening' = [opening EXCEPT ![b] = NotOpening]
      /\ pc' = [pc EXCEPT ![b] = "locked"]
      /\ UNCHANGED <<pending, data, catalog, made, current, prior, currentMsgs, priorMsgs, cache,
                     invals, initFile, initLock>>
  BY <1>1 DEF Acquire, Goto, queueVars, xactVars, cacheVars, fileVars
<1>3. /\ pc'[b] = "locked" /\ locks'[b][r] = mode
      /\ \A x \in Relations \ {r} : locks'[b][x] = locks[b][x]
      /\ \A c \in Backends \ {b} : pc'[c] = pc[c] /\ locks'[c] = locks[c] /\ opening'[c] = opening[c]
  BY <1>2 DEF Inv, Types
<1>4. Others(b)
  BY <1>2, <1>3 DEF Others
<1>5. Exclusion'
  BY <1>2, <1>3 DEF Inv, Exclusion
<1>6. Types'
  <2>1. locks' \in [Backends -> [Relations -> Locks]]
    BY <1>2 DEF Inv, Types, Locks
  <2> QED
    BY <1>2, <2>1 DEF Inv, Types, PCs
<1>7. pc[b] \notin Sending /\ pc'[b] \notin Sending \union {"write", "check", "rename", "unlink"}
  BY <1>0, <1>3 DEF Sending
<1>8. \A x \in Relations : (Told(b, x)' <=> Told(b, x)) /\ Visible(b, x)' = Visible(b, x)
  BY <1>2, <1>4, <1>7, NotSending, ToldKept DEF Visible
<1>9. StartsAt(b)' /\ CurrentAt(b)'
  BY <1>0, <1>2, <1>3 DEF Inv, At, StartsAt, CurrentAt
<1>10. WritingAt(b)'
  BY <1>0, <1>1, <1>2, <1>3 DEF Inv, At, WritingAt, InXact, Sending
<1>11. StaleAt(b)'
  BY <1>2, <1>8 DEF Inv, At, StaleAt
<1>12. At(b)'
  BY <1>9, <1>10, <1>11 DEF At
<1> QED
  BY <1>2, <1>4, <1>5, <1>6, <1>7, <1>12, OwnStep

LEMMA ChangeStep ==
    ASSUME Inv, NEW b \in Backends, NEW r \in Relations, Change(b, r)
    PROVE  Inv'
<1>1. /\ pc[b] = "run" /\ locks[b][r] = "exclusive" /\ made' = made + 1
      /\ current' = [current EXCEPT ![b][r] = made']
      /\ currentMsgs' = [currentMsgs EXCEPT ![b] = @ \union {r}]
      /\ UNCHANGED <<pending, data, catalog, prior, priorMsgs, locks, opening, cache, invals,
                     initFile, initLock, pc>>
  BY DEF Change, queueVars, cacheVars, fileVars
<1>2. /\ currentMsgs'[b] = currentMsgs[b] \union {r}
      /\ \A x \in Relations \ {r} : current'[b][x] = current[b][x]
      /\ \A c \in Backends \ {b} : current'[c] = current[c] /\ currentMsgs'[c] = currentMsgs[c]
  BY <1>1 DEF Inv, Types, Versions
<1>3. Others(b) /\ Exclusion'
  BY <1>1, <1>2 DEF Others, Inv, Exclusion
<1>4. Types'
  <2>1. made' \in Nat /\ current' \in [Backends -> Versions]
    BY <1>1 DEF Inv, Types, Versions
  <2>2. currentMsgs' \in [Backends -> SUBSET Relations]
    BY <1>1 DEF Inv, Types
  <2> QED
    BY <1>1, <2>1, <2>2 DEF Inv, Types
<1>5. pc[b] \notin Sending /\ pc'[b] \notin Sending \union {"write", "check", "rename", "unlink"}
  BY <1>1 DEF Sending
<1>6. \A x \in Relations : (Told(b, x)' <=> Told(b, x)) /\ Visible(b, x)' = Visible(b, x)
  BY <1>1, <1>3, <1>5, NotSending, ToldKept DEF Visible
<1>7. StartsAt(b)'
  BY <1>1 DEF Inv, At, StartsAt
<1>8. WritingAt(b)'
  BY <1>1, <1>2 DEF Inv, At, WritingAt, InXact, Sending
<1>9. StaleAt(b)' /\ CurrentAt(b)'
  BY <1>1, <1>6 DEF Inv, At, StaleAt, CurrentAt
<1>10. At(b)'
  BY <1>7, <1>8, <1>9 DEF At
<1> QED
  BY <1>1, <1>3, <1>4, <1>5, <1>10, OwnStep


\* The entries of what the command has changed are built anew or dropped.
LEMMA CommandEndStep ==
    ASSUME Inv, NEW b \in Backends, CommandEnd(b)
    PROVE  Inv'
<1> DEFINE seen == [r \in Relations |-> IF prior'[b][r] # 0 THEN prior'[b][r] ELSE catalog[r]]
           flushed == Flushed(b, currentMsgs[b], Open(b), seen)
<1>1. /\ pc[b] = "run" /\ pc' = [pc EXCEPT ![b] = "begin"]
      /\ prior' = [prior EXCEPT ![b] = Written(b)]
      /\ current' = [current EXCEPT ![b] = Nothing]
      /\ cache' = [cache EXCEPT ![b] = flushed]
      /\ invals' = [invals EXCEPT ![b] = TRUE]
      /\ priorMsgs' = [priorMsgs EXCEPT ![b] = @ \union currentMsgs[b]]
      /\ currentMsgs' = [currentMsgs EXCEPT ![b] = {}]
      /\ UNCHANGED <<pending, data, catalog, made, locks, opening, initFile, initLock>>
  BY DEF CommandEnd, Goto, queueVars, fileVars
<1>2. /\ pc'[b] = "begin" /\ prior'[b] = Written(b) /\ current'[b] = Nothing /\ cache'[b] = flushed
      /\ priorMsgs'[b] = priorMsgs[b] \union currentMsgs[b] /\ currentMsgs'[b] = {}
      /\ \A c \in Backends \ {b} :
            /\ pc'[c] = pc[c] /\ current'[c] = current[c] /\ prior'[c] = prior[c] /\ cache'[c] = cache[c]
            /\ invals'[c] = invals[c] /\ priorMsgs'[c] = priorMsgs[c] /\ currentMsgs'[c] = currentMsgs[c]
  BY <1>1 DEF Inv, Types
<1>a. /\ Nothing \in Versions /\ Written(b) \in Versions
      /\ \A r \in Relations : Nothing[r] = 0
      /\ \A r \in Relations : Written(b)[r] = IF current[b][r] # 0 THEN current[b][r] ELSE prior[b][r]
  BY DEF Inv, Types, Versions, Nothing, Written
<1>b. seen \in Versions /\ \A r \in Relations : seen[r] = Visible(b, r)'
  BY <1>1, <1>2, <1>a DEF Inv, Types, Versions, Visible
<1> HIDE DEF seen
<1>c. /\ flushed \in Versions
      /\ \A r \in Relations : flushed[r] = IF r \notin currentMsgs[b] \/ cache[b][r] = 0 THEN cache[b][r]
                                          ELSE IF r \in Open(b) THEN seen[r] ELSE 0
  BY <1>b DEF Inv, Types, Versions, Flushed
<1> HIDE DEF flushed
<1>3. Others(b) /\ Exclusion'
  BY <1>1, <1>2 DEF Others, Inv, Exclusion
<1>4. Types'
  <2>1. current' \in [Backends -> Versions] /\ prior' \in [Backends -> Versions] /\ cache' \in [Backends -> Versions]
    BY <1>1, <1>a, <1>c DEF Inv, Types
  <2>2. currentMsgs' \in [Backends -> SUBSET Relations] /\ priorMsgs' \in [Backends -> SUBSET Relations]
    BY <1>1 DEF Inv, Types
  <2> QED
    BY <1>1, <2>1, <2>2 DEF Inv, Types, PCs
<1>5. pc[b] \notin Sending /\ pc'[b] \notin Sending \union {"write", "check", "rename", "unlink"}
  BY <1>1, <1>2 DEF Sending
<1>6. \A r \in Relations : Told(b, r)' <=> Told(b, r)
  BY <1>1, <1>3, <1>5, NotSending, ToldKept
<1>7. StartsAt(b)' /\ CurrentAt(b)'
  BY <1>1, <1>2 DEF Inv, At, StartsAt, CurrentAt
<1>8. WritingAt(b)'
  BY <1>1, <1>2, <1>a DEF Inv, At, WritingAt, InXact, Sending
<1>9. StaleAt(b)'
  <2>1. ASSUME NEW r \in Relations \ InitRels, r \in currentMsgs[b]
        PROVE  cache'[b][r] \in {0, Visible(b, r)'}
    BY <1>2, <1>b, <1>c, <2>1
  <2>2. ASSUME NEW r \in Relations \ InitRels, r \notin currentMsgs[b]
        PROVE  cache'[b][r] = cache[b][r] /\ Visible(b, r)' = Visible(b, r)
    <3>1. current[b][r] = 0
      BY <2>2 DEF Inv, At, WritingAt
    <3> QED
      BY <1>1, <1>2, <1>a, <1>c, <2>2, <3>1 DEF Visible
  <2> QED
    BY <1>6, <2>1, <2>2 DEF Inv, At, StaleAt
<1>10. At(b)'
  BY <1>7, <1>8, <1>9 DEF At
<1> QED
  BY <1>1, <1>3, <1>4, <1>5, <1>10, OwnStep

\* The entries of what the transaction had changed are dropped.
LEMMA AbortStep ==
    ASSUME Inv, NEW b \in Backends, Abort(b)
    PROVE  Inv'
<1> DEFINE flushed == Flushed(b, priorMsgs[b], {}, Nothing)
           free == [r \in Relations |-> "none"]
<1>1. /\ pc[b] \in {"begin", "run", "lock", "locked"} /\ pc' = [pc EXCEPT ![b] = "idle"]
      /\ cache' = [cache EXCEPT ![b] = flushed]
      /\ invals' = [invals EXCEPT ![b] = @ \/ priorMsgs[b] # {}]
      /\ prior' = [prior EXCEPT ![b] = Nothing] /\ current' = [current EXCEPT ![b] = Nothing]
      /\ priorMsgs' = [priorMsgs EXCEPT ![b] = {}] /\ currentMsgs' = [currentMsgs EXCEPT ![b] = {}]
      /\ opening' = [opening EXCEPT ![b] = NotOpening]
      /\ locks' = [locks EXCEPT ![b] = free]
      /\ UNCHANGED <<pending, data, catalog, made, initFile, initLock>>
  BY DEF Abort, Unlocked, Goto, queueVars, fileVars
<1>a. /\ Nothing \in Versions /\ \A r \in Relations : Nothing[r] = 0
      /\ free \in [Relations -> Locks] /\ \A r \in Relations : free[r] = "none"
  BY DEF Versions, Nothing, Locks
<1>c. /\ flushed \in Versions
      /\ \A r \in Relations : flushed[r] = IF r \in priorMsgs[b] THEN 0 ELSE cache[b][r]
  BY DEF Inv, Types, Versions, Flushed
<1> HIDE DEF flushed, free
<1>2. /\ pc'[b] = "idle" /\ prior'[b] = Nothing /\ current'[b] = Nothing /\ cache'[b] = flushed
      /\ priorMsgs'[b] = {} /\ currentMsgs'[b] = {} /\ locks'[b] = free
      /\ \A c \in Backends \ {b} :
            /\ pc'[c] = pc[c] /\ current'[c] = current[c] /\ prior'[c] = prior[c] /\ cache'[c] = cache[c]
            /\ invals'[c] = invals[c] /\ priorMsgs'[c] = priorMsgs[c] /\ currentMsgs'[c] = currentMsgs[c]
            /\ locks'[c] = locks[c] /\ opening'[c] = opening[c]
  BY <1>1 DEF Inv, Types
<1>3. Others(b)
  BY <1>1, <1>2 DEF Others
<1>b. Exclusion'
  BY <1>2, <1>a DEF Inv, Exclusion
<1>4. Types'
  <2>1. current' \in [Backends -> Versions] /\ prior' \in [Backends -> Versions] /\ cache' \in [Backends -> Versions]
    BY <1>1, <1>a, <1>c DEF Inv, Types
  <2>2. currentMsgs' \in [Backends -> SUBSET Relations] /\ priorMsgs' \in [Backends -> SUBSET Relations]
    BY <1>1 DEF Inv, Types
  <2>3. locks' \in [Backends -> [Relations -> Locks]] /\ DOMAIN opening' = Backends
    BY <1>1, <1>a DEF Inv, Types
  <2>4. invals' \in [Backends -> BOOLEAN]
    <3>1. (invals[b] \/ priorMsgs[b] # {}) \in BOOLEAN
      OBVIOUS
    <3> QED
      BY <1>1, <3>1 DEF Inv, Types
  <2>5. pc' \in [Backends -> PCs]
    BY <1>1 DEF Inv, Types, PCs
  <2> QED
    BY <1>1, <2>1, <2>2, <2>3, <2>4, <2>5 DEF Inv, Types
<1>5. pc[b] \notin Sending /\ pc'[b] \notin Sending \union {"write", "check", "rename", "unlink"}
  BY <1>1, <1>2 DEF Sending
<1>6. \A r \in Relations : Told(b, r)' <=> Told(b, r)
  BY <1>1, <1>3, <1>5, NotSending, ToldKept
<1>7. StartsAt(b)' /\ CurrentAt(b)'
  BY <1>1, <1>2 DEF Inv, At, StartsAt, CurrentAt
<1>8. WritingAt(b)'
  BY <1>2, <1>a DEF WritingAt, InXact, Sending
<1>9. StaleAt(b)'
  <2>1. ASSUME NEW r \in Relations \ InitRels, r \notin priorMsgs[b]
        PROVE  cache'[b][r] = cache[b][r] /\ Visible(b, r)' = Visible(b, r)
    <3>1. prior[b][r] = 0
      BY <2>1 DEF Inv, At, WritingAt
    <3> QED
      BY <1>1, <1>2, <1>a, <1>c, <2>1, <3>1 DEF Visible
  <2> QED
    BY <1>2, <1>c, <1>6, <2>1 DEF Inv, At, StaleAt
<1>10. At(b)'
  BY <1>7, <1>8, <1>9 DEF At
<1> QED
  BY <1>1, <1>3, <1>4, <1>5, <1>b, <1>10, OwnStep

-----------------------------------------------------------------------------
(***************************************************************************)
(* The end of a transaction.                                               *)
(***************************************************************************)
LEMMA UnlinkBeforeStep ==
    ASSUME Inv, NEW b \in Backends, UnlinkBefore(b)
    PROVE  Inv'
<1>1. PICK l \in {"sendInit", "sending"} :
        /\ pc[b] = "send" /\ pc' = [pc EXCEPT ![b] = l]
        /\ \/ l = "sendInit" /\ initFile' = NoFile
           \/ l = "sending" /\ initFile' = initFile /\ priorMsgs[b] \intersect InitRels = {}
        /\ UNCHANGED <<pending, data, catalog, made, current, prior, currentMsgs, priorMsgs, locks, opening,
                       cache, invals, initLock>>
  BY DEF UnlinkBefore, Goto, queueVars, xactVars, cacheVars
<1>2. pc'[b] = l /\ \A c \in Backends \ {b} : pc'[c] = pc[c]
  BY <1>1 DEF Inv, Types
<1>3. /\ Others(b) /\ SameToSend(b) /\ Exclusion'
      /\ pc[b] \notin InXact /\ pc[b] # "out" /\ l \notin InXact /\ l \in Sending
  BY <1>1, <1>2 DEF Others, SameToSend, Sending, InXact, Inv, Exclusion
<1>4. Types'
  BY <1>1 DEF Inv, Types, PCs
<1>5. \A r \in Relations : (Told(b, r)' <=> Told(b, r)) /\ Visible(b, r)' = Visible(b, r)
  BY <1>1, <1>3, ToldKept DEF Visible
<1>6. StartsAt(b)' /\ CurrentAt(b)'
  BY <1>1, <1>2 DEF Inv, At, StartsAt, CurrentAt
<1>7. WritingAt(b)'
  BY <1>1, <1>2, <1>3 DEF Inv, At, WritingAt
<1>8. StaleAt(b)'
  BY <1>1, <1>5 DEF Inv, At, StaleAt
<1>9. \A c \in Backends : At(c)'
  BY <1>3, <1>6, <1>7, <1>8, AtKept DEF At
<1>10. \A r \in InitRels : Unlinks(r) => Unlinks(r)'
  <2>1. SUFFICES ASSUME NEW r \in InitRels, NEW c \in Backends,
                        pc[c] = "sendInit" \/ (pc[c] = "send" /\ r \in priorMsgs[c])
                 PROVE  Unlinks(r)'
    BY DEF Unlinks
  <2>2. CASE c = b
    BY <1>1, <1>2, <2>1, <2>2 DEF Unlinks
  <2>3. CASE c # b
    BY <1>1, <1>2, <2>1, <2>3 DEF Unlinks
  <2> QED
    BY <2>2, <2>3
<1>11. InitLock'
  BY <1>1, <1>2 DEF Inv, InitLock
<1>12. FileFresh'
  BY <1>1, <1>10 DEF Inv, FileFresh
<1>13. SavingAt(b)'
  BY <1>1, <1>2 DEF Inv, SavingAt
<1>14. \A c \in Backends : SavingAt(c)'
  BY <1>3, <1>10, <1>13, SavingKept
<1> QED
  BY <1>3, <1>4, <1>9, <1>11, <1>12, <1>14 DEF Inv

\* Nobody is replacing the file, whose last entries could be those of before.
LEMMA UnlinkAfterStep ==
    ASSUME Inv, NEW b \in Backends, UnlinkAfter(b)
    PROVE  Inv'
<1>1. /\ pc[b] = "sendInit" /\ pc' = [pc EXCEPT ![b] = "sending"] /\ priorMsgs[b] = {}
      /\ initLock = NoBackend /\ initFile' = NoFile
      /\ UNCHANGED <<pending, data, catalog, made, current, prior, currentMsgs, priorMsgs, locks, opening,
                     cache, invals, initLock>>
  BY DEF UnlinkAfter, Goto, queueVars, xactVars, cacheVars
<1>2. pc'[b] = "sending" /\ \A c \in Backends \ {b} : pc'[c] = pc[c]
  BY <1>1 DEF Inv, Types
<1>3. /\ Others(b) /\ SameToSend(b) /\ Exclusion'
      /\ pc[b] \notin InXact /\ pc[b] # "out" /\ pc'[b] \notin InXact /\ pc'[b] \in Sending
  BY <1>1, <1>2 DEF Others, SameToSend, Sending, InXact, Inv, Exclusion
<1>4. Types'
  BY <1>1 DEF Inv, Types, PCs
<1>5. \A c \in Backends, r \in Relations : (Told(c, r)' <=> Told(c, r)) /\ Visible(c, r)' = Visible(c, r)
  BY <1>1, <1>3, ToldKept DEF Visible
<1>6. StartsAt(b)' /\ CurrentAt(b)'
  BY <1>1, <1>2 DEF Inv, At, StartsAt, CurrentAt
<1>7. WritingAt(b)'
  BY <1>1, <1>2, <1>3 DEF Inv, At, WritingAt
<1>8. StaleAt(b)'
  BY <1>1, <1>5 DEF Inv, At, StaleAt
<1>9. \A c \in Backends : At(c)'
  BY <1>3, <1>6, <1>7, <1>8, AtKept DEF At
<1>10. \A c \in Backends : pc'[c] \notin {"check", "rename", "unlink"}
  BY <1>1, <1>2, NoBackendIsNone DEF Inv, InitLock
<1>11. InitLock' /\ FileFresh'
  BY <1>1, <1>10 DEF InitLock, FileFresh
<1>12. ASSUME NEW c \in Backends PROVE SavingAt(c)'
  <2>1. pc'[c] = "sending" => priorMsgs[c] \intersect InitRels = {}
    BY <1>1, <1>2, <1>12 DEF Inv, SavingAt
  <2>2. ASSUME NEW r \in InitRels, pc'[c] = "write", ~invals[c]
        PROVE  cache[c][r] # 0 /\ (cache[c][r] = catalog[r] \/ Told(c, r)')
    <3>1. pc[c] = "write"
      BY <1>2, <2>2
    <3> QED
      BY <1>5, <2>2, <3>1, InitRelsAreRelations DEF Inv, SavingAt
  <2> QED
    BY <1>1, <1>10, <2>1, <2>2 DEF SavingAt
<1> QED
  BY <1>3, <1>4, <1>9, <1>11, <1>12 DEF Inv

LEMMA ReleaseStep ==
    ASSUME Inv, NEW b \in Backends, Release(b)
    PROVE  Inv'
<1> DEFINE free == [r \in Relations |-> "none"]
<1>1. /\ pc[b] = "sending" /\ pc' = [pc EXCEPT ![b] = "idle"] /\ priorMsgs[b] = {}
      /\ locks' = [locks EXCEPT ![b] = free]
      /\ UNCHANGED <<pending, data, catalog, made, current, prior, currentMsgs, priorMsgs, opening,
                     cache, invals, initFile, initLock>>
  BY DEF Release, Unlocked, Goto, queueVars, xactVars, cacheVars, fileVars
<1>a. free \in [Relations -> Locks] /\ \A r \in Relations : free[r] = "none"
  BY DEF Locks
<1> HIDE DEF free
<1>2. /\ pc'[b] = "idle" /\ locks'[b] = free
      /\ \A c \in Backends \ {b} : pc'[c] = pc[c] /\ locks'[c] = locks[c]
  BY <1>1 DEF Inv, Types
<1>3. /\ Others(b) /\ SameToSend(b)
      /\ pc[b] \notin InXact /\ pc'[b] \notin InXact /\ pc'[b] \notin Sending
  BY <1>1, <1>2 DEF Others, SameToSend, Sending, InXact
<1>b. Exclusion'
  BY <1>2, <1>a DEF Inv, Exclusion
<1>4. Types'
  BY <1>1, <1>a DEF Inv, Types, PCs
<1>5. \A r \in Relations : (Told(b, r)' <=> Told(b, r)) /\ Visible(b, r)' = Visible(b, r)
  BY <1>1, <1>3, ToldKept DEF Visible
<1>6. StartsAt(b)' /\ CurrentAt(b)'
  BY <1>1, <1>2 DEF Inv, At, StartsAt, CurrentAt
<1>7. WritingAt(b)'
  <2>1. current[b] = Nothing /\ prior[b] = Nothing /\ currentMsgs[b] = {}
    BY <1>3 DEF Inv, At, WritingAt
  <2> QED
    BY <1>1, <1>2, <1>3, <1>a, <2>1 DEF WritingAt, Nothing
<1>8. StaleAt(b)'
  BY <1>1, <1>5 DEF Inv, At, StaleAt
<1>9. \A c \in Backends : At(c)'
  BY <1>3, <1>6, <1>7, <1>8, AtKept DEF At
<1>10. \A r \in InitRels : Unlinks(r) => Unlinks(r)'
  BY <1>1, <1>2 DEF Unlinks
<1>11. InitLock'
  BY <1>1, <1>2 DEF Inv, InitLock
<1>12. FileFresh'
  BY <1>1, <1>10 DEF Inv, FileFresh
<1>13. SavingAt(b)'
  BY <1>2 DEF SavingAt
<1>14. \A c \in Backends : SavingAt(c)'
  BY <1>3, <1>10, <1>13, SavingKept
<1> QED
  BY <1>b, <1>4, <1>9, <1>11, <1>12, <1>14 DEF Inv


\* Whoever is to be told has the message, or a reset, before it is forgotten.
LEMMA SendOneStep ==
    ASSUME Inv, NEW b \in Backends, SendOne(b)
    PROVE  Inv'
<1>1. PICK r \in priorMsgs[b] :
        /\ pc[b] \in {"sending", "sendInit"}
        /\ Queue!Send(r) \/ Queue!Overflow
        /\ priorMsgs' = [priorMsgs EXCEPT ![b] = @ \ {r}]
        /\ UNCHANGED <<catalog, made, current, prior, currentMsgs, locks, opening, cache, invals, initFile,
                       initLock, pc>>
  BY DEF SendOne, cacheVars, fileVars
<1>2. r \in Relations
  BY DEF Inv, Types
<1>3. /\ priorMsgs'[b] = priorMsgs[b] \ {r}
      /\ \A c \in Backends \ {b} : priorMsgs'[c] = priorMsgs[c]
  BY <1>1 DEF Inv, Types
<1>4. /\ data' = data /\ DOMAIN pending' = Backends
      /\ \A c \in Backends :
            \/ pending'[c] = pending[c] /\ pending[c] \in {Queue!Out, Queue!Reset}
            \/ pending'[c] = Queue!Reset /\ pending[c] # Queue!Out
            \/ pending[c] \in Seq(Relations) /\ pending'[c] = Append(pending[c], r)
  <2>1. CASE Queue!Send(r)
    BY <2>1 DEF Queue!Send, Inv, Types
  <2>2. CASE Queue!Overflow
    BY <2>2 DEF Queue!Overflow, Queue!Running
  <2> QED
    BY <1>1, <2>1, <2>2
<1>5. \A s \in Seq(Relations) : s # Queue!Out /\ s # Queue!Reset
  BY SeqOrdinary
<1>6. \A c \in Backends :
        /\ pending'[c] \in Seq(Relations) \union {Queue!Reset, Queue!Out}
        /\ pending'[c] = Queue!Out <=> pending[c] = Queue!Out
        /\ pending[c] = Queue!Reset => pending'[c] = Queue!Reset
        /\ pending[c] # Queue!Out => pending'[c] = Queue!Reset \/ Range(pending'[c]) = Range(pending[c]) \union {r}
  <2>1. SUFFICES ASSUME NEW c \in Backends
        PROVE  /\ pending'[c] \in Seq(Relations) \union {Queue!Reset, Queue!Out}
               /\ pending'[c] = Queue!Out <=> pending[c] = Queue!Out
               /\ pending[c] = Queue!Reset => pending'[c] = Queue!Reset
               /\ pending[c] # Queue!Out => pending'[c] = Queue!Reset \/ Range(pending'[c]) = Range(pending[c]) \union {r}
    OBVIOUS
  <2>2. CASE pending'[c] = pending[c] /\ pending[c] \in {Queue!Out, Queue!Reset}
    BY <2>2
  <2>3. CASE pending'[c] = Queue!Reset /\ pending[c] # Queue!Out
    BY <2>3, EmptyQueue
  <2>4. CASE pending[c] \in Seq(Relations) /\ pending'[c] = Append(pending[c], r)
    <3>1. pending'[c] \in Seq(Relations) /\ Range(pending'[c]) = Range(pending[c]) \union {r}
      BY <1>2, <2>4, Appended
    <3> QED
      BY <1>5, <2>4, <3>1
  <2> QED
    BY <1>4, <2>2, <2>3, <2>4
<1>7. ASSUME NEW c \in Backends, NEW x \in Relations, Told(c, x), pending[c] # Queue!Out
      PROVE  Told(c, x)'
  <2>1. CASE pending[c] = Queue!Reset
    BY <1>6, <2>1 DEF Told
  <2>2. CASE x \in Range(pending[c])
    BY <1>6, <1>7, <2>2 DEF Told
  <2>3. CASE \E d \in Backends : pc[d] \in Sending /\ x \in priorMsgs[d]
    <3>1. PICK d \in Backends : pc[d] \in Sending /\ x \in priorMsgs[d]
      BY <2>3
    <3>2. CASE d = b /\ x = r
      BY <1>6, <1>7, <3>2 DEF Told
    <3>3. CASE ~(d = b /\ x = r)
      <4>1. x \in priorMsgs'[d] /\ pc'[d] \in Sending
        BY <1>1, <1>3, <3>1, <3>3
      <4> QED
        BY <4>1 DEF Told
    <3> QED
      BY <3>2, <3>3
  <2> QED
    BY <1>7, <2>1, <2>2, <2>3 DEF Told
<1>8. Types'
  <2>1. priorMsgs' \in [Backends -> SUBSET Relations]
    BY <1>1 DEF Inv, Types
  <2> QED
    BY <1>1, <1>4, <1>6, <2>1 DEF Inv, Types
<1>9. Exclusion' /\ InitLock'
  BY <1>1 DEF Inv, Exclusion, InitLock
<1>10. \A x \in Relations : Unlinks(x)' <=> Unlinks(x)
  BY <1>1, <1>3 DEF Unlinks
<1>11. FileFresh'
  BY <1>1, <1>10, InitRelsAreRelations DEF Inv, FileFresh
<1>12. ASSUME NEW c \in Backends PROVE At(c)'
  <2>1. StartsAt(c)'
    BY <1>1, <1>6 DEF Inv, At, StartsAt
  <2>2. WritingAt(c)'
    <3>1. priorMsgs'[c] \subseteq priorMsgs[c] /\ (c # b => priorMsgs'[c] = priorMsgs[c])
      BY <1>3
    <3>2. c = b => pc[c] \notin InXact /\ pc[c] \in Sending
      BY <1>1 DEF InXact, Sending
    <3>3. c = b => current[c] = Nothing /\ prior[c] = Nothing
      BY <3>2 DEF Inv, At, WritingAt
    <3> QED
      BY <1>1, <3>1, <3>2, <3>3 DEF Inv, At, WritingAt, Nothing
  <2>3. \A x \in Relations : Visible(c, x)' = Visible(c, x)
    BY <1>1 DEF Visible
  <2>4. StaleAt(c)'
    <3>1. ASSUME NEW x \in Relations \ InitRels, cache[c][x] \notin {0, Visible(c, x)} PROVE Told(c, x)'
      <4>1. Told(c, x) /\ cache[c] # Nothing
        BY <3>1 DEF Inv, At, StaleAt, Nothing
      <4>2. pending[c] # Queue!Out
        BY <4>1 DEF Inv, At, StartsAt
      <4> QED
        BY <1>7, <4>1, <4>2
    <3> QED
      BY <1>1, <2>3, <3>1 DEF StaleAt
  <2>5. CurrentAt(c)'
    BY <1>1, <2>3 DEF Inv, At, CurrentAt
  <2> QED
    BY <2>1, <2>2, <2>4, <2>5 DEF At
<1>13. ASSUME NEW c \in Backends PROVE SavingAt(c)'
  <2>1. pc[c] = "sending" => priorMsgs'[c] \intersect InitRels = {}
    BY <1>3 DEF Inv, SavingAt
  <2>2. ASSUME NEW x \in InitRels, pc[c] \in {"write", "check"}, Told(c, x) PROVE Told(c, x)'
    <3>1. pending[c] # Queue!Out
      BY <2>2 DEF Inv, At, StartsAt
    <3> QED
      BY <1>7, <2>2, <3>1, InitRelsAreRelations
  <2>3. \A x \in InitRels : Unlinks(x)' <=> Unlinks(x)
    BY <1>10, InitRelsAreRelations
  <2> QED
    BY <1>1, <2>1, <2>2, <2>3 DEF Inv, SavingAt
<1> QED
  BY <1>8, <1>9, <1>11, <1>12, <1>13 DEF Inv

\* The changes are visible to everybody: whoever has an entry of before will be
\* told, for the messages are not yet sent.
LEMMA LeaveXactStep ==
    ASSUME Inv, NEW b \in Backends, LeaveXact(b)
    PROVE  Inv'
<1>1. /\ pc[b] = "recorded" /\ pc' = [pc EXCEPT ![b] = "send"]
      /\ catalog' = [r \in Relations |-> IF Written(b)[r] # 0 THEN Written(b)[r] ELSE catalog[r]]
      /\ current' = [current EXCEPT ![b] = Nothing] /\ prior' = [prior EXCEPT ![b] = Nothing]
      /\ priorMsgs' = [priorMsgs EXCEPT ![b] = @ \union currentMsgs[b]]
      /\ currentMsgs' = [currentMsgs EXCEPT ![b] = {}]
      /\ UNCHANGED <<pending, data, made, locks, opening, cache, invals, initFile, initLock>>
  BY DEF LeaveXact, Goto, queueVars, cacheVars, fileVars
<1>2. /\ pc'[b] = "send" /\ prior'[b] = Nothing /\ current'[b] = Nothing
      /\ priorMsgs'[b] = priorMsgs[b] \union currentMsgs[b] /\ currentMsgs'[b] = {}
      /\ \A c \in Backends \ {b} :
            /\ pc'[c] = pc[c] /\ current'[c] = current[c] /\ prior'[c] = prior[c]
            /\ priorMsgs'[c] = priorMsgs[c] /\ currentMsgs'[c] = currentMsgs[c]
  BY <1>1 DEF Inv, Types
<1>3. /\ Nothing \in Versions /\ \A r \in Relations : Nothing[r] = 0
      /\ Written(b) \in Versions
      /\ \A r \in Relations : Written(b)[r] = IF current[b][r] # 0 THEN current[b][r] ELSE prior[b][r]
  BY DEF Inv, Types, Versions, Nothing, Written
<1>4. \A r \in Relations : r \notin priorMsgs'[b] => Written(b)[r] = 0 /\ prior[b][r] = 0
  BY <1>2, <1>3 DEF Inv, At, WritingAt
<1>5. \A r \in Relations : r \notin priorMsgs'[b] => catalog'[r] = catalog[r]
  BY <1>1, <1>4
<1>6. Types'
  <2>1. catalog' \in Versions /\ \A r \in Relations : catalog'[r] # 0
    BY <1>1, <1>3 DEF Inv, Types, Versions
  <2>2. current' \in [Backends -> Versions] /\ prior' \in [Backends -> Versions]
    BY <1>1, <1>3 DEF Inv, Types
  <2>3. currentMsgs' \in [Backends -> SUBSET Relations] /\ priorMsgs' \in [Backends -> SUBSET Relations]
    BY <1>1 DEF Inv, Types
  <2> QED
    BY <1>1, <2>1, <2>2, <2>3 DEF Inv, Types, PCs
<1>7. Exclusion' /\ InitLock'
  BY <1>1, <1>2 DEF Inv, Exclusion, InitLock
<1>8. ASSUME NEW c \in Backends, NEW r \in Relations
      PROVE  (Told(c, r) => Told(c, r)') /\ (r \in priorMsgs'[b] => Told(c, r)')
  <2>1. "send" \in Sending /\ "recorded" \notin Sending
    BY DEF Sending
  <2>2. \A d \in Backends : (pc[d] \in Sending /\ r \in priorMsgs[d]) => (pc'[d] \in Sending /\ r \in priorMsgs'[d])
    BY <1>1, <1>2, <2>1
  <2> QED
    BY <1>1, <1>2, <2>1, <2>2 DEF Told
<1>9. ASSUME NEW r \in Relations
      PROVE  (Unlinks(r) => Unlinks(r)') /\ (r \in priorMsgs'[b] => Unlinks(r)')
  <2>1. \A d \in Backends : (pc[d] = "sendInit" \/ (pc[d] = "send" /\ r \in priorMsgs[d]))
                               => (pc'[d] = "sendInit" \/ (pc'[d] = "send" /\ r \in priorMsgs'[d]))
    BY <1>1, <1>2
  <2> QED
    BY <1>2, <2>1 DEF Unlinks
<1>10. FileFresh'
  BY <1>1, <1>5, <1>9, InitRelsAreRelations DEF Inv, FileFresh
<1>11. \A c \in Backends, r \in Relations : r \notin priorMsgs'[b] => Visible(c, r)' = Visible(c, r)
  BY <1>2, <1>3, <1>4, <1>5 DEF Visible
<1>12. ASSUME NEW c \in Backends PROVE At(c)'
  <2>1. StartsAt(c)'
    BY <1>1, <1>2 DEF Inv, At, StartsAt
  <2>2. WritingAt(c)'
    <3>1. CASE c = b
      <4>1. "send" \in Sending /\ "send" # "lock"
        BY DEF Sending
      <4> QED
        BY <1>1, <1>2, <1>3, <3>1, <4>1 DEF Inv, At, WritingAt
    <3>2. CASE c # b
      BY <1>1, <1>2, <3>2 DEF Inv, At, WritingAt
    <3> QED
      BY <3>1, <3>2
  <2>3. StaleAt(c)'
    BY <1>1, <1>8, <1>11 DEF Inv, At, StaleAt
  <2>4. CurrentAt(c)'
    <3>1. ASSUME NEW r \in Relations \ InitRels, pc'[c] = "run", locks[c][r] # "none"
          PROVE  cache[c][r] \in {0, Visible(c, r)'}
      <4>1. c # b /\ pc[c] = "run"
        BY <1>2, <3>1
      <4>2. r \notin priorMsgs[b] \union currentMsgs[b]
        BY <3>1, <4>1 DEF Inv, At, WritingAt, Exclusion
      <4> QED
        BY <1>2, <1>11, <3>1, <4>1, <4>2 DEF Inv, At, CurrentAt
    <3> QED
      BY <1>1, <3>1 DEF CurrentAt
  <2> QED
    BY <2>1, <2>2, <2>3, <2>4 DEF At
<1>13. ASSUME NEW c \in Backends PROVE SavingAt(c)'
  <2>1. CASE c = b
    BY <1>2, <2>1 DEF SavingAt
  <2>2. CASE c # b
    BY <1>1, <1>2, <1>5, <1>8, <1>9, <2>2, InitRelsAreRelations DEF Inv, SavingAt
  <2> QED
    BY <2>1, <2>2
<1> QED
  BY <1>6, <1>7, <1>10, <1>12, <1>13 DEF Inv

-----------------------------------------------------------------------------
(***************************************************************************)
(* A message is read: the entry it is about is current or gone.            *)
(***************************************************************************)
LEMMA AcceptStep ==
    ASSUME Inv, NEW b \in Backends, Accept(b)
    PROVE  Inv'
<1> DEFINE S == IF data'[b] = "reset" THEN Relations ELSE {data'[b]}
           seen == [r \in Relations |-> Visible(b, r)]
           flushed == Flushed(b, S, Open(b), seen)
           received == invals[b] \/ \E r \in S : cache[b][r] # 0
<1>1. /\ pc[b] \in {"begin", "startup", "locked", "check"} /\ pending[b] # <<>> /\ pending[b] # Queue!Out
      /\ data' = [data EXCEPT ![b] = Head(pending[b])]
      /\ pending' = [pending EXCEPT ![b] = Tail(@)]
      /\ cache' = [cache EXCEPT ![b] = flushed]
      /\ invals' = [invals EXCEPT ![b] = received]
      /\ UNCHANGED <<catalog, made, current, prior, currentMsgs, priorMsgs, locks, opening, initFile, initLock, pc>>
  BY DEF Accept, Accepting, AcceptOne, Queue!Receive, Queue!Running, xactVars, fileVars
<1>2. /\ data'[b] = Head(pending[b]) /\ pending'[b] = Tail(pending[b]) /\ cache'[b] = flushed
      /\ invals'[b] = received /\ DOMAIN pending' = Backends /\ DOMAIN data' = Backends
      /\ \A c \in Backends \ {b} : pending'[c] = pending[c] /\ cache'[c] = cache[c] /\ invals'[c] = invals[c]
  BY <1>1 DEF Inv, Types
<1>3. /\ pending'[b] \in Seq(Relations)
      /\ \/ pending[b] = Queue!Reset /\ S = Relations
         \/ /\ pending[b] # Queue!Reset /\ S \subseteq Relations
            /\ \A r \in Range(pending[b]) : r \in S \/ r \in Range(pending'[b])
  <2>1. CASE pending[b] = Queue!Reset
    <3>1. Head(pending[b]) = "reset" /\ Tail(pending[b]) = <<>>
      BY <2>1 DEF Queue!Reset
    <3>2. <<>> \in Seq(Relations)
      OBVIOUS
    <3> QED
      BY <1>2, <2>1, <3>1, <3>2
  <2>2. CASE pending[b] # Queue!Reset
    <3>1. pending[b] \in Seq(Relations)
      BY <1>1, <2>2 DEF Inv, Types
    <3>2. /\ Head(pending[b]) \in Relations /\ Tail(pending[b]) \in Seq(Relations)
          /\ \A x \in Range(pending[b]) : x = Head(pending[b]) \/ x \in Range(Tail(pending[b]))
      BY <1>1, <3>1, HeadTail
    <3>3. S = {Head(pending[b])}
      BY <1>2, <3>2, RelationsOrdinary
    <3> QED
      BY <1>2, <2>2, <3>2, <3>3
  <2> QED
    BY <2>1, <2>2
<1> HIDE DEF S
<1>4. \A r \in Relations : Visible(b, r) \in Nat /\ Visible(b, r)' = Visible(b, r)
  BY <1>1 DEF Inv, Types, Versions, Visible
<1>5. /\ flushed \in Versions
      /\ \A r \in Relations : /\ r \notin S => flushed[r] = cache[b][r]
                              /\ r \in S => flushed[r] \in {0, Visible(b, r)}
                              /\ cache[b][r] = 0 => flushed[r] = 0
  BY <1>4 DEF Inv, Types, Versions, Flushed
<1>6. received \in BOOLEAN /\ (~received => ~invals[b] /\ \A r \in S : cache[b][r] = 0)
  BY DEF Inv, Types
<1> HIDE DEF flushed, received
<1>7. Others(b) /\ pc'[b] = pc[b] /\ pc[b] \notin Sending
  BY <1>1, <1>2 DEF Others, Sending
<1>8. SameToSend(b) /\ \A r \in Relations : Unlinks(r)' <=> Unlinks(r)
  BY <1>7, NotSending
<1>9. Exclusion' /\ InitLock'
  BY <1>1 DEF Inv, Exclusion, InitLock
<1>10. Types'
  <2>1. \A c \in Backends : pending'[c] \in Seq(Relations) \union {Queue!Reset, Queue!Out}
    BY <1>2, <1>3 DEF Inv, Types
  <2>2. cache' \in [Backends -> Versions] /\ invals' \in [Backends -> BOOLEAN]
    BY <1>1, <1>5, <1>6 DEF Inv, Types
  <2> QED
    BY <1>1, <1>2, <2>1, <2>2 DEF Inv, Types
<1>11. FileFresh'
  BY <1>1, <1>8, InitRelsAreRelations DEF Inv, FileFresh
<1>12. ASSUME NEW r \in Relations, r \notin S, Told(b, r) PROVE Told(b, r)'
  <2>1. r \in Range(pending'[b]) \/ \E c \in Backends : pc[c] \in Sending /\ r \in priorMsgs[c]
    BY <1>3, <1>12 DEF Told
  <2> QED
    BY <1>1, <2>1 DEF Told
<1>13. StartsAt(b)'
  <2>1. pending'[b] # Queue!Out /\ pc[b] # "out"
    BY <1>1, <1>3, SeqOrdinary
  <2>2. pc[b] = "startup" => cache'[b] = Nothing
    <3>1. SUFFICES ASSUME pc[b] = "startup" PROVE flushed = Nothing
      BY <1>2
    <3>2. \A r \in Relations : cache[b][r] = 0
      BY <3>1 DEF Inv, At, StartsAt, Nothing
    <3> QED
      BY <1>5, <3>2 DEF Nothing, Versions
  <2> QED
    BY <1>1, <2>1, <2>2 DEF StartsAt
<1>14. WritingAt(b)'
  BY <1>1 DEF Inv, At, WritingAt
<1>15. StaleAt(b)' /\ CurrentAt(b)'
  <2>1. StaleAt(b)'
    BY <1>2, <1>4, <1>5, <1>12 DEF Inv, At, StaleAt
  <2> QED
    BY <1>1, <2>1 DEF CurrentAt
<1>16. \A c \in Backends : At(c)'
  BY <1>7, <1>8, <1>13, <1>14, <1>15, AtKept DEF At
<1>17. SavingAt(b)'
  <2>1. ASSUME NEW r \in InitRels, pc[b] = "check", ~invals'[b]
        PROVE  cache'[b][r] # 0 /\ (cache'[b][r] = catalog[r] \/ Told(b, r)')
    <3>1. ~invals[b] /\ \A x \in S : cache[b][x] = 0
      BY <1>2, <1>6, <2>1
    <3>2. cache[b][r] # 0 /\ (cache[b][r] = catalog[r] \/ Told(b, r))
      BY <2>1, <3>1 DEF Inv, SavingAt
    <3>3. r \notin S /\ cache'[b][r] = cache[b][r]
      BY <1>2, <1>5, <3>1, <3>2, InitRelsAreRelations
    <3> QED
      BY <1>12, <3>2, <3>3, InitRelsAreRelations
  <2> QED
    BY <1>1, <2>1 DEF SavingAt
<1>18. \A c \in Backends : SavingAt(c)'
  BY <1>7, <1>8, <1>17, SavingKept, InitRelsAreRelations
<1> QED
  BY <1>9, <1>10, <1>11, <1>16, <1>18 DEF Inv
-----------------------------------------------------------------------------
LEMMA StutterStep ==
    ASSUME Inv, UNCHANGED vars
    PROVE  Inv'
<1>1. UNCHANGED <<pending, data, catalog, made, current, prior, currentMsgs, priorMsgs, locks, opening,
                  cache, invals, initFile, initLock, pc>>
  BY DEF vars, queueVars, xactVars, cacheVars, fileVars
<1>2. Types' /\ Exclusion' /\ InitLock'
  BY <1>1 DEF Inv, Types, Exclusion, InitLock
<1>3. \A b \in Backends, r \in Relations : (Told(b, r)' <=> Told(b, r)) /\ Visible(b, r)' = Visible(b, r)
  BY <1>1 DEF Told, Visible
<1>4. \A r \in Relations : Unlinks(r)' <=> Unlinks(r)
  BY <1>1 DEF Unlinks
<1>5. FileFresh'
  BY <1>1, <1>4, InitRelsAreRelations DEF Inv, FileFresh
<1>6. ASSUME NEW b \in Backends PROVE At(b)' /\ SavingAt(b)'
  <2>1. StartsAt(b)' /\ WritingAt(b)'
    BY <1>1 DEF Inv, At, StartsAt, WritingAt
  <2>2. StaleAt(b)' /\ CurrentAt(b)'
    BY <1>1, <1>3 DEF Inv, At, StaleAt, CurrentAt
  <2>3. SavingAt(b)'
    BY <1>1, <1>3, <1>4, InitRelsAreRelations DEF Inv, SavingAt
  <2> QED
    BY <2>1, <2>2, <2>3 DEF At
<1> QED
  BY <1>2, <1>5, <1>6 DEF Inv

LEMMA NextInv == Inv /\ [Next]_vars => Inv'
<1> SUFFICES ASSUME Inv, [Next]_vars PROVE Inv'
  OBVIOUS
<1>1. CASE UNCHANGED vars
  BY <1>1, StutterStep
<1>2. ASSUME NEW b \in Backends, Startup(b) PROVE Inv'
  BY <1>2, StartStep, LoadStep, BuildStep, LockInitFileStep, CheckInitFileStep, RenameInitFileStep DEF Startup
<1>3. ASSUME NEW b \in Backends, Exit(b) \/ Accept(b) PROVE Inv'
  BY <1>3, ExitStep, AcceptStep
<1>4. ASSUME NEW b \in Backends, Run(b) PROVE Inv'
  <2>1. CASE Begin(b) \/ Begun(b) \/ Locked(b)
    BY <2>1, QuietSteps
  <2>2. CASE Acquire(b) \/ CommandEnd(b) \/ Abort(b)
    BY <2>2, AcquireStep, CommandEndStep, AbortStep
  <2>3. ASSUME NEW r \in Relations, Change(b, r) PROVE Inv'
    BY <2>3, ChangeStep
  <2>4. ASSUME NEW r \in Relations, NEW mode \in {"share", "exclusive"}, OpenRelation(b, r, mode) PROVE Inv'
    BY <2>4, OpenRelationStep
  <2> QED
    BY <1>4, <2>1, <2>2, <2>3, <2>4 DEF Run
<1>5. ASSUME NEW b \in Backends, Commit(b) PROVE Inv'
  BY <1>5, QuietSteps, LeaveXactStep, UnlinkBeforeStep, SendOneStep, UnlinkAfterStep, ReleaseStep DEF Commit
<1> QED
  BY <1>1, <1>2, <1>3, <1>4, <1>5 DEF Next

LEMMA SpecInv == Spec => []Inv
BY InitInv, NextInv, PTL DEF Spec

\* A backend that goes on with a lock on a relation has the entry it would build
\* now (LockRelation, AtStart_Cache, the order of the steps of
\* CommitTransaction), however many backends there are and however far they fall
\* behind.
THEOREM CurrentUnderLockInvariant == Spec => []CurrentUnderLock
<1>1. Inv => CurrentUnderLock
  BY DEF Inv, At, CurrentAt, CurrentUnderLock
<1> QED
  BY <1>1, SpecInv, PTL

\* A backend with an entry that is out of date has yet to be told
\* (AtEOXact_Inval, SIInsertDataEntry).
THEOREM StaleIsPendingInvariant == Spec => []StaleIsPending
<1>1. Inv => StaleIsPending
  <2>1. SUFFICES ASSUME Inv, NEW b \in Backends, NEW r \in Relations \ InitRels, Told(b, r)
                 PROVE  \/ pending[b] = Queue!Reset
                        \/ r \in Range(pending[b])
                        \/ \E c \in Backends : pc[c] \in {"send", "sending", "sendInit"} /\ r \in priorMsgs[c]
    BY DEF Inv, At, StaleAt, StaleIsPending
  <2> QED
    BY <2>1 DEF Told, Sending
<1> QED
  BY <1>1, SpecInv, PTL

\* No file with obsolete entries is left around: the file is unlinked before the
\* messages are sent and again after, and who replaces it in between is told
\* (RelationCacheInitFileInvalidate, write_relcache_init_file).
THEOREM InitFileFreshInvariant == Spec => []InitFileFresh
<1>1. Inv => InitFileFresh
  BY DEF Inv, FileFresh, Unlinks, InitFileFresh
<1> QED
  BY <1>1, SpecInv, PTL
=============================================================================
