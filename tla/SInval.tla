------------------------------- MODULE SInval -------------------------------
(***************************************************************************)
(* The shared cache invalidation queue of PostgreSQL 7.4.2: the circular   *)
(* buffer of backend/storage/ipc/sinvaladt.c and the functions of sinval.c *)
(* through which backends start, send, receive and exit.                   *)
(*                                                                         *)
(* Every function of sinvaladt.c runs under SInvalLock, which LWLock shows *)
(* to be a readers-writer lock; a locked section is one action.  The       *)
(* sections of SIGetDataEntry hold the lock in shared mode and may overlap,*)
(* but each writes only its own ProcState and reads only maxMsgNum beside  *)
(* it, so that they commute.                                               *)
(***************************************************************************)
EXTENDS Integers, Sequences, FiniteSets

CONSTANTS
    Procs,              \* the processes that want to be backends
    Messages,
    MaxBackends,        \* the size of the procState array
    MAXNUMMESSAGES,
    MSGNUMWRAPAROUND,
    MaxNesting          \* bound on recursion of ReceiveSharedInvalidMessages

ASSUME SizesPositive ==
    /\ MaxBackends \in Nat \ {0}
    /\ MAXNUMMESSAGES \in Nat \ {0}
    /\ MaxNesting \in Nat \ {0}
ASSUME WraparoundMultiple ==
    /\ MSGNUMWRAPAROUND \in Nat
    /\ \E k \in 1..MSGNUMWRAPAROUND : MSGNUMWRAPAROUND = k * MAXNUMMESSAGES
ASSUME MessagesOrdinary == {"none", "out", "reset"} \cap Messages = {}

Slots == 1..MaxBackends

VARIABLES
    \* the SISeg structure
    minMsgNum, maxMsgNum, lastBackend, freeBackends,
    buffer,
    nextMsgNum, resetState, procStruct,   \* the procState array
    wakenChildren,      \* PMSignalFlags[PMSIGNAL_WAKEN_CHILDREN]
    \* the state of each process
    MyBackendId,        \* 0 if it is not running as a backend
    calls,              \* gotMessage of each active receive call, outer first
    expiring,           \* the innermost call is about to release dead messages
    data,               \* the local variable data of the last read
    notified            \* a SIGUSR2 is pending

counters == <<minMsgNum, maxMsgNum>>
procState == <<nextMsgNum, resetState, procStruct>>
backends == <<lastBackend, freeBackends, MyBackendId>>
local == <<calls, expiring, data>>
signals == <<wakenChildren, notified>>
vars == <<counters, buffer, procState, backends, local, signals>>

\* SIBufferInit.
Init ==
    /\ minMsgNum = 0 /\ maxMsgNum = 0
    /\ lastBackend = 0 /\ freeBackends = MaxBackends
    /\ buffer = [i \in 0..(MAXNUMMESSAGES - 1) |-> "none"]
    /\ nextMsgNum = [i \in Slots |-> -1]
    /\ resetState = [i \in Slots |-> FALSE]
    /\ procStruct = [i \in Slots |-> "none"]
    /\ wakenChildren = FALSE
    /\ MyBackendId = [p \in Procs |-> 0]
    /\ calls = [p \in Procs |-> <<>>]
    /\ expiring = [p \in Procs |-> FALSE]
    /\ data = [p \in Procs |-> "none"]
    /\ notified = [p \in Procs |-> FALSE]

Running(p) == MyBackendId[p] # 0
Idle(p) == Running(p) /\ calls[p] = <<>>

\* The slots that a loop up to lastBackend finds active.
Active == {i \in 1..lastBackend : nextMsgNum[i] >= 0}

LeastOf(S) == CHOOSE x \in S : \A y \in S : x <= y
-----------------------------------------------------------------------------
\* The first inactive entry below lastBackend, or the next one, if there is one.
FreeSlots ==
    LET below == 1..lastBackend \ Active
    IN  IF below # {} THEN {LeastOf(below)}
        ELSE {lastBackend + 1} \cap Slots

\* SIBackendInit; a process that finds no slot exits and changes nothing.
SIBackendInit(p) ==
    /\ ~Running(p)
    /\ \E i \in FreeSlots :
          /\ MyBackendId' = [MyBackendId EXCEPT ![p] = i]
          /\ lastBackend' = IF i > lastBackend THEN i ELSE lastBackend
          /\ nextMsgNum' = [nextMsgNum EXCEPT ![i] = maxMsgNum]
          /\ resetState' = [resetState EXCEPT ![i] = FALSE]
          /\ procStruct' = [procStruct EXCEPT ![i] = p]
    /\ freeBackends' = freeBackends - 1
    /\ UNCHANGED <<counters, buffer, local, signals>>

\* CleanupInvalidationState: the exit of a backend, wherever it is.
CleanupInvalidationState(p) ==
    /\ Running(p)
    /\ LET me == MyBackendId[p] IN
          /\ nextMsgNum' = [nextMsgNum EXCEPT ![me] = -1]
          /\ resetState' = [resetState EXCEPT ![me] = FALSE]
          /\ procStruct' = [procStruct EXCEPT ![me] = "none"]
          /\ lastBackend' = CHOOSE n \in 0..lastBackend :
                                /\ \A i \in Active \ {me} : i <= n
                                /\ n = 0 \/ n \in Active \ {me}
    /\ freeBackends' = freeBackends + 1
    /\ MyBackendId' = [MyBackendId EXCEPT ![p] = 0]
    /\ calls' = [calls EXCEPT ![p] = <<>>]
    /\ expiring' = [expiring EXCEPT ![p] = FALSE]
    /\ notified' = [notified EXCEPT ![p] = FALSE]
    /\ UNCHANGED <<counters, buffer, data, wakenChildren>>
-----------------------------------------------------------------------------
Queue == [min |-> minMsgNum, max |-> maxMsgNum, next |-> nextMsgNum]

\* Mutant: the numbers are lowered only above the limit.
Expired_WrapsLate ==
    LET least == LeastOf({maxMsgNum} \union {nextMsgNum[i] : i \in Active})
        wrap  == IF least > MSGNUMWRAPAROUND THEN MSGNUMWRAPAROUND ELSE 0
    IN  IF maxMsgNum = minMsgNum THEN Queue
        ELSE [min |-> least - wrap, max |-> maxMsgNum - wrap,
              next |-> [i \in Slots |-> IF i \in Active THEN nextMsgNum[i] - wrap
                                        ELSE nextMsgNum[i]]]

\* SIDelExpiredDataEntries: minMsgNum is recomputed from the active backends,
\* and all numbers are decremented when it is large.
Expired ==
    LET least == LeastOf({maxMsgNum} \union {nextMsgNum[i] : i \in Active})
        wrap  == IF least >= MSGNUMWRAPAROUND THEN MSGNUMWRAPAROUND ELSE 0
    IN  IF maxMsgNum = minMsgNum THEN Queue
        ELSE [min |-> least - wrap, max |-> maxMsgNum - wrap,
              next |-> [i \in Slots |-> IF i \in Active THEN nextMsgNum[i] - wrap
                                        ELSE nextMsgNum[i]]]

\* SISetProcStateInvalid: "flush pending messages, assert reset flag for each".
SISetProcStateInvalid ==
    /\ minMsgNum' = 0 /\ maxMsgNum' = 0
    /\ nextMsgNum' = [i \in Slots |-> IF i \in Active THEN 0 ELSE nextMsgNum[i]]
    /\ resetState' = [i \in Slots |-> i \in Active \/ resetState[i]]
    /\ UNCHANGED <<buffer, wakenChildren>>

\* Mutant: nobody is signalled when the table fills.
Insert_NoSignal(q, m) ==
    /\ minMsgNum' = q.min
    /\ maxMsgNum' = q.max + 1
    /\ nextMsgNum' = q.next
    /\ buffer' = [buffer EXCEPT ![q.max % MAXNUMMESSAGES] = m]
    /\ UNCHANGED <<wakenChildren, resetState>>

\* "Insert new message into proper slot of circular buffer", and wake the idle
\* backends when the table is 70% full.
Insert(q, m) ==
    /\ minMsgNum' = q.min
    /\ maxMsgNum' = q.max + 1
    /\ nextMsgNum' = q.next
    /\ buffer' = [buffer EXCEPT ![q.max % MAXNUMMESSAGES] = m]
    /\ wakenChildren' = (wakenChildren \/
                         q.max - q.min = (MAXNUMMESSAGES * 70) \div 100)
    /\ UNCHANGED resetState

\* SIInsertDataEntry: "Slowest backend might have consumed some messages but not
\* yet have done SIDelExpiredDataEntries() to advance minMsgNum."
SIInsertDataEntry(m) ==
    LET q == IF maxMsgNum - minMsgNum >= MAXNUMMESSAGES THEN Expired ELSE Queue
    IN  IF q.max - q.min >= MAXNUMMESSAGES THEN SISetProcStateInvalid
        ELSE Insert(q, m)

SendSharedInvalidMessage(p, m) ==
    /\ Idle(p)
    /\ SIInsertDataEntry(m)
    /\ UNCHANGED <<procStruct, backends, local, notified>>
-----------------------------------------------------------------------------
\* AcceptInvalidationMessages at the start of a transaction, when a lock on a
\* relation has been obtained, or for a pending SIGUSR2.
ReceiveSharedInvalidMessages(p) ==
    /\ Idle(p)
    /\ calls' = [calls EXCEPT ![p] = <<FALSE>>]
    /\ UNCHANGED <<counters, buffer, procState, backends, expiring, data, signals>>

\* The signal handler, or the main loop when it is idle next.
ProcessIncomingNotify(p) ==
    /\ Idle(p)
    /\ notified[p]
    /\ calls' = [calls EXCEPT ![p] = <<FALSE>>]
    /\ notified' = [notified EXCEPT ![p] = FALSE]
    /\ UNCHANGED <<counters, buffer, procState, backends, expiring, data,
                   wakenChildren>>

\* invalFunction or resetFunction calls ReceiveSharedInvalidMessages again.
Recurse(p) ==
    /\ calls[p] # <<>> /\ ~expiring[p]
    /\ calls[p][Len(calls[p])]
    /\ Len(calls[p]) < MaxNesting
    /\ calls' = [calls EXCEPT ![p] = Append(@, FALSE)]
    /\ UNCHANGED <<counters, buffer, procState, backends, expiring, data, signals>>

Innermost(p) == calls[p][Len(calls[p])]

Got(p, x) ==
    /\ data' = [data EXCEPT ![p] = x]
    /\ calls' = [calls EXCEPT ![p][Len(calls[p])] = TRUE]
    /\ UNCHANGED expiring

\* The innermost call returns.
Leave(p) == calls' = [calls EXCEPT ![p] = SubSeq(@, 1, Len(@) - 1)]

\* Mutant: the messages since the reset are read as well.
ReadReset_KeepsNext(p) ==
    LET me == MyBackendId[p] IN
    /\ resetState[me]
    /\ resetState' = [resetState EXCEPT ![me] = FALSE]
    /\ UNCHANGED nextMsgNum
    /\ Got(p, "reset")

\* "We can say we have dealt with any messages added since the reset, as well."
ReadReset(p) ==
    LET me == MyBackendId[p] IN
    /\ resetState[me]
    /\ resetState' = [resetState EXCEPT ![me] = FALSE]
    /\ nextMsgNum' = [nextMsgNum EXCEPT ![me] = maxMsgNum]
    /\ Got(p, "reset")

ReadMessage(p) ==
    LET me == MyBackendId[p] IN
    /\ ~resetState[me]
    /\ nextMsgNum[me] < maxMsgNum
    /\ Got(p, buffer[nextMsgNum[me] % MAXNUMMESSAGES])
    /\ nextMsgNum' = [nextMsgNum EXCEPT ![me] = @ + 1]
    /\ UNCHANGED resetState

\* Nothing to read: "if we got any messages, try to release dead messages".
ReadNothing(p) ==
    LET me == MyBackendId[p] IN
    /\ ~resetState[me]
    /\ nextMsgNum[me] >= maxMsgNum
    /\ IF Innermost(p)
       THEN expiring' = [expiring EXCEPT ![p] = TRUE] /\ UNCHANGED calls
       ELSE Leave(p) /\ UNCHANGED expiring
    /\ UNCHANGED <<nextMsgNum, resetState, data>>

\* One pass of the loop of ReceiveSharedInvalidMessages.
SIGetDataEntry(p) ==
    /\ calls[p] # <<>> /\ ~expiring[p]
    /\ ReadReset(p) \/ ReadMessage(p) \/ ReadNothing(p)
    /\ UNCHANGED <<counters, buffer, procStruct, backends, signals>>

SIDelExpiredDataEntries(p) ==
    /\ expiring[p]
    /\ minMsgNum' = Expired.min
    /\ maxMsgNum' = Expired.max
    /\ nextMsgNum' = Expired.next
    /\ expiring' = [expiring EXCEPT ![p] = FALSE]
    /\ Leave(p)
    /\ UNCHANGED <<buffer, resetState, procStruct, backends, data, signals>>
-----------------------------------------------------------------------------
\* The postmaster finds the flag: "a SIGUSR2 signal to all the backends".
WakenChildren ==
    /\ wakenChildren
    /\ wakenChildren' = FALSE
    /\ notified' = [p \in Procs |-> Running(p) \/ notified[p]]
    /\ UNCHANGED <<counters, buffer, procState, backends, local>>

Receive(p) ==
    \/ Recurse(p) \/ SIGetDataEntry(p) \/ SIDelExpiredDataEntries(p)

Next ==
    \/ WakenChildren
    \/ \E p \in Procs :
          \/ SIBackendInit(p) \/ CleanupInvalidationState(p)
          \/ \E m \in Messages : SendSharedInvalidMessage(p, m)
          \/ ReceiveSharedInvalidMessages(p) \/ ProcessIncomingNotify(p)
          \/ Receive(p)

Spec == Init /\ [][Next]_vars

\* The postmaster and a backend that has work to do run.
Fairness ==
    /\ WF_vars(WakenChildren)
    /\ \A p \in Procs : /\ WF_vars(ProcessIncomingNotify(p))
                        /\ WF_vars(SIGetDataEntry(p) \/ SIDelExpiredDataEntries(p))

FairSpec == Spec /\ Fairness
-----------------------------------------------------------------------------
\* "We would have problems if the MsgNum values overflow an integer": they stay
\* below the wraparound limit and one buffer, for ever.
NumbersBounded == maxMsgNum < MSGNUMWRAPAROUND + MAXNUMMESSAGES

\* What a backend has not yet read: the part of the conceptually infinite array
\* between its number and maxMsgNum, as the circular buffer holds it.
Unread(i) ==
    [j \in 1..(maxMsgNum - nextMsgNum[i]) |->
        buffer[(nextMsgNum[i] + j - 1) % MAXNUMMESSAGES]]

Pending(p) ==
    IF ~Running(p) THEN <<"out">>
    ELSE IF resetState[MyBackendId[p]] THEN <<"reset">>
    ELSE Unread(MyBackendId[p])

\* "Any message sent by any backend must be delivered to all already-running
\* backends before it can be forgotten": every backend reads each message sent
\* since it started, once and in order, or a reset in place of all it missed;
\* and no reset is forced unless a backend is a full buffer behind.
Broadcast == INSTANCE InvalBroadcast
             WITH pending <- [p \in Procs |-> Pending(p)],
                  Capacity <- MAXNUMMESSAGES
BroadcastSpec == Broadcast!Spec

\* "If a backend is sitting idle then it won't be ... reading SI entries": as
\* long as messages are sent, the signals sent when the table is 70% full make
\* every backend read again and again, even if it does nothing else.
IdleReads ==
    \A p \in Procs :
        []<><<\E q \in Procs, m \in Messages : SendSharedInvalidMessage(q, m)>>_vars
        => []<>~Running(p) \/ []<><<SIGetDataEntry(p)>>_vars
=============================================================================
