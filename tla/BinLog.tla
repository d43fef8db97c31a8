------------------------------- MODULE BinLog -------------------------------
(***************************************************************************)
(* The binary log of MySQL 4.1.1 (sql/log.cc) and the threads that dump it *)
(* to the slaves (sql/sql_repl.cc): writers that append events and start a *)
(* new file when one is full, FLUSH LOGS, RESET MASTER, PURGE MASTER LOGS, *)
(* KILL, and a server that is killed and started again.                    *)
(*                                                                         *)
(* What happens under LOCK_log is one step, unless LOCK_index is awaited   *)
(* or a crash in between would leave another state on disk.  Files are     *)
(* named by their number; one that was deleted stays readable for the      *)
(* thread that has it open, so that the content belongs to an inode.  An   *)
(* event is its number in the order of writing, or Rotate; positions in a  *)
(* file count events, offsets in the index count names.                    *)
(***************************************************************************)
EXTENDS Naturals, Sequences, SequencesExt, FiniteSets, FiniteSetsExt

CONSTANTS
    Threads,     \* the clients that write, flush or reset
    Dumpers,     \* the threads that serve slaves
    Purger, Nobody,
    max_size,    \* events at which a file is full
    MaxEvents,   \* bound: events written
    MaxFiles,    \* bound: files created
    MaxCrashes,  \* bound: the server is killed
    Plans        \* what may happen: sets of "flush", "reset", "purge", "kill", "openfails", "crash"

ASSUME BoundsAssumption ==
    max_size \in Nat \ {0} /\ MaxEvents \in Nat /\ MaxFiles \in Nat \ {0} /\ MaxCrashes \in Nat
ASSUME NamesAssumption ==
    /\ Purger \notin Threads \union Dumpers /\ Nobody \notin Threads \union Dumpers \union {Purger}
    /\ Plans \subseteq SUBSET {"flush", "reset", "purge", "kill", "openfails", "crash"}
    /\ \A ops \in Plans : ~({"reset", "openfails"} \subseteq ops)   \* what RESET MASTER does with a log that was closed is left out

Rotate == 0
NoName == 0
Names == 1..MaxFiles

VARIABLES
    plan,               \* what may happen
    server,             \* "down", "up", or "segv"
    disk,               \* name to inode, 0 if there is no such file
    content,            \* inode to events
    index,              \* the names in the index file
    written, crashes,   \* bounds
    log_type,           \* "closed" or "bin"
    log_file_name, log_file,   \* name and inode of the active log
    LOCK_log, LOCK_index,
    pc,                 \* where a thread is
    purge,              \* of the purger: where it is, its to_log, whether by date, its place in the index
    linfo,              \* of a dumper: [set, name, next, fatal]
    want, ino, pos,     \* of a dumper: the log asked for, the file it has open, its place there
    sent,               \* the events it has sent
    killed              \* of a dumper: "no", "flagged" or "done"
files == <<disk, content, index, written>>
active == <<log_type, log_file_name, log_file>>
locks == <<LOCK_log, LOCK_index>>
dumps == <<linfo, want, ino, pos, sent>>
vars == <<plan, server, files, crashes, active, locks, pc, purge, dumps, killed>>

NoInfo == [set |-> FALSE, name |-> NoName, next |-> 0, fatal |-> FALSE]
NoPurge == [pc |-> "idle", to |-> NoName, dated |-> FALSE, at |-> 1]

\* what a process that starts has
Fresh ==
    /\ log_type' = "bin" /\ LOCK_log' = Nobody /\ LOCK_index' = Nobody
    /\ pc' = [t \in Threads \union Dumpers |-> "idle"]
    /\ purge' = NoPurge
    /\ linfo' = [d \in Dumpers |-> NoInfo] /\ want' = [d \in Dumpers |-> NoName]
    /\ ino' = [d \in Dumpers |-> 0] /\ pos' = [d \in Dumpers |-> 0]
    /\ sent' = [d \in Dumpers |-> << >>] /\ killed' = [d \in Dumpers |-> "no"]

Init ==
    /\ plan \in Plans
    /\ server = "down"
    /\ disk = [n \in Names |-> 0] /\ content = << >> /\ index = << >> /\ written = 0 /\ crashes = 0
    /\ log_type = "closed" /\ log_file_name = NoName /\ log_file = 0
    /\ LOCK_log = Nobody /\ LOCK_index = Nobody
    /\ pc = [t \in Threads \union Dumpers |-> "idle"]
    /\ purge = NoPurge
    /\ linfo = [d \in Dumpers |-> NoInfo] /\ want = [d \in Dumpers |-> NoName]
    /\ ino = [d \in Dumpers |-> 0] /\ pos = [d \in Dumpers |-> 0]
    /\ sent = [d \in Dumpers |-> << >>] /\ killed = [d \in Dumpers |-> "no"]

is_open == log_type # "closed"
At(p, l) == server = "up" /\ pc[p] = l
Goto(p, l) == pc' = [pc EXCEPT ![p] = l]
\* signal_update() wakes every dumper that waits for the update of the log, and p goes to l
WakeAnd(p, l) ==
    pc' = [q \in DOMAIN pc |-> IF q = p THEN l ELSE IF pc[q] = "asleep" THEN "woken" ELSE pc[q]]
Room == Len(content) + Cardinality({t \in Threads : pc[t] # "idle"}) < MaxFiles

\* find_uniq_filename: one more than the highest number in the directory
NewName(dir) == Max({0} \union {n \in Names : dir[n] # 0}) + 1
Create(dir, n) ==
    /\ disk' = [dir EXCEPT ![n] = Len(content) + 1]
    /\ log_file_name' = n /\ log_file' = Len(content) + 1
-----------------------------------------------------------------------------
(***************************************************************************)
(* The server starts, and is killed.                                       *)
(***************************************************************************)
Start ==
    /\ server = "down" /\ Len(content) < MaxFiles
    /\ server' = "up" /\ Fresh
    /\ LET n == NewName(disk)
       IN  Create(disk, n) /\ index' = Append(index, n)
    /\ content' = Append(content, << >>)
    /\ UNCHANGED <<written, crashes>>

Crash ==
    /\ server = "up" /\ "crash" \in plan /\ crashes < MaxCrashes
    /\ server' = "down" /\ crashes' = crashes + 1
    /\ UNCHANGED <<files, active, locks, pc, purge, dumps, killed>>
-----------------------------------------------------------------------------
(***************************************************************************)
(* Writers.                                                                *)
(***************************************************************************)
Full(f) == Len(f) >= max_size

\* an event is written, flushed and committed in the engine under LOCK_log
Write(t) ==
    /\ At(t, "idle") /\ LOCK_log = Nobody /\ is_open
    /\ written < MaxEvents /\ Room
    /\ written' = written + 1
    /\ content' = [content EXCEPT ![log_file] = Append(@, written + 1)]
    /\ IF Full(content'[log_file])
       THEN WakeAnd(t, "rotate") /\ LOCK_log' = t
       ELSE WakeAnd(t, "idle") /\ UNCHANGED LOCK_log
    /\ UNCHANGED <<server, disk, index, crashes, active, LOCK_index, purge, dumps, killed>>

\* FLUSH LOGS and RESET MASTER test is_open() before they lock
FlushLogs(t) ==
    /\ At(t, "idle") /\ "flush" \in plan /\ is_open /\ Room
    /\ Goto(t, "flush")
    /\ UNCHANGED <<server, files, crashes, active, locks, purge, dumps, killed>>

ResetMaster(t) ==
    /\ At(t, "idle") /\ "reset" \in plan /\ is_open /\ Room
    /\ Goto(t, "reset")
    /\ UNCHANGED <<server, files, crashes, active, locks, purge, dumps, killed>>

LockLog(t) ==
    /\ server = "up" /\ pc[t] \in {"flush", "reset"} /\ LOCK_log = Nobody
    /\ LOCK_log' = t
    /\ Goto(t, IF pc[t] = "flush" THEN "rotate" ELSE "delete")
    /\ UNCHANGED <<server, files, crashes, active, LOCK_index, purge, dumps, killed>>

\* open() could not create the file: name is freed, and logging is off
NotOpened(n) == log_type' = "closed" /\ log_file_name' = n /\ UNCHANGED log_file

NewFile_NoSignal(t) ==
    /\ At(t, "rotate") /\ LOCK_index = Nobody /\ is_open
    /\ LET n == NewName(disk)
       IN  /\ Goto(t, "register") /\ LOCK_index' = t
           /\ Create(disk, n) /\ UNCHANGED <<log_type, LOCK_log>>
           /\ content' = Append([content EXCEPT ![log_file] = Append(@, Rotate)], << >>)
    /\ UNCHANGED <<server, index, written, crashes, purge, dumps, killed>>

\* the Rotate event is written, and the next file is created
NewFile(t) ==
    /\ At(t, "rotate") /\ LOCK_index = Nobody /\ is_open
    /\ LET n == NewName(disk)
           rotated == [content EXCEPT ![log_file] = Append(@, Rotate)]
       IN  \/ /\ WakeAnd(t, "register") /\ LOCK_index' = t
              /\ Create(disk, n) /\ UNCHANGED <<log_type, LOCK_log>>
              /\ content' = Append(rotated, << >>)
           \/ /\ "openfails" \in plan
              /\ WakeAnd(t, "idle") /\ LOCK_log' = Nobody
              /\ NotOpened(n) /\ content' = rotated
              /\ UNCHANGED <<disk, LOCK_index>>
    /\ UNCHANGED <<server, index, written, crashes, purge, dumps, killed>>

\* its name is stored last in the index file
Register(t) ==
    /\ At(t, "register")
    /\ index' = Append(index, log_file_name)
    /\ LOCK_log' = Nobody /\ LOCK_index' = Nobody /\ Goto(t, "idle")
    /\ UNCHANGED <<server, disk, content, written, crashes, active, purge, dumps, killed>>

\* the files in the index are deleted, and a new one is the only one in a new index
ResetLogs(t) ==
    /\ At(t, "delete") /\ LOCK_index = Nobody
    /\ LET dir == [n \in Names |-> IF n \in ToSet(index) THEN 0 ELSE disk[n]]
       IN  Create(dir, NewName(dir)) /\ index' = <<NewName(dir)>>
    /\ content' = Append(content, << >>) /\ UNCHANGED log_type
    /\ LOCK_log' = Nobody /\ Goto(t, "idle")
    /\ UNCHANGED <<server, written, crashes, LOCK_index, purge, dumps, killed>>

\* name is 0, and generate_new_name() takes its length
NullName(t) ==
    /\ At(t, "rotate") /\ LOCK_index = Nobody /\ ~is_open
    /\ server' = "segv"
    /\ UNCHANGED <<files, crashes, active, locks, pc, purge, dumps, killed>>
-----------------------------------------------------------------------------
(***************************************************************************)
(* PURGE MASTER LOGS, under LOCK_index from its start to its end.          *)
(***************************************************************************)
PurgeGoto(l, at) == purge' = [purge EXCEPT !.pc = l, !.at = at]

\* TO a log in the index, or BEFORE a date, when it ends at the active log
PurgeLogs ==
    /\ server = "up" /\ purge.pc = "idle" /\ LOCK_index = Nobody /\ "purge" \in plan
    /\ LOCK_index' = Purger
    /\ \/ is_open /\ \E n \in ToSet(index) : purge' = [NoPurge EXCEPT !.pc = "delete", !.to = n]
       \/ purge' = [NoPurge EXCEPT !.pc = "delete", !.to = log_file_name, !.dated = TRUE]
    /\ UNCHANGED <<server, files, crashes, active, LOCK_log, pc, dumps, killed>>

log_in_use(n) == \E d \in Dumpers : linfo[d].set /\ linfo[d].name = n

\* whether the log at this place in the index is to be deleted
Purged == purge.at <= Len(index) /\ index[purge.at] # purge.to /\ ~log_in_use(index[purge.at])

PurgeDelete ==
    /\ server = "up" /\ purge.pc = "delete" /\ Purged
    /\ disk' = [disk EXCEPT ![index[purge.at]] = 0]
    /\ PurgeGoto("delete", purge.at + 1)
    /\ UNCHANGED <<server, content, index, written, crashes, active, locks, pc, dumps, killed>>

\* also at a file that is not old enough
PurgeStop ==
    /\ server = "up" /\ purge.pc = "delete" /\ (Purged => purge.dated)
    /\ PurgeGoto("copy", purge.at)
    /\ UNCHANGED <<server, files, crashes, active, locks, pc, dumps, killed>>

\* copy_up_file_and_fill moves the names that stay to the start of the file
PurgeCopy ==
    /\ server = "up" /\ purge.pc = "copy"
    /\ index' = [i \in DOMAIN index |->
                    IF i + purge.at - 1 <= Len(index) THEN index[i + purge.at - 1] ELSE index[i]]
    /\ PurgeGoto("truncate", purge.at)
    /\ UNCHANGED <<server, disk, content, written, crashes, active, locks, pc, dumps, killed>>

AdjustOffset_Zero(info, n) ==
    IF ~info.set THEN info
    ELSE IF info.next < n THEN [info EXCEPT !.fatal = info.next # 0]
    ELSE [info EXCEPT !.next = 0]

\* a dumper that has only just set current_linfo has nothing to adjust
AdjustOffset(info, n) ==
    IF ~info.set THEN info
    ELSE IF info.next < n THEN [info EXCEPT !.fatal = info.next # 0]
    ELSE [info EXCEPT !.next = @ - n]

\* and cuts the rest off; the offsets of the dumpers are adjusted
PurgeTruncate ==
    /\ server = "up" /\ purge.pc = "truncate"
    /\ index' = SubSeq(index, 1, Len(index) - (purge.at - 1))
    /\ linfo' = [d \in Dumpers |-> AdjustOffset(linfo[d], purge.at - 1)]
    /\ purge' = NoPurge /\ LOCK_index' = Nobody
    /\ UNCHANGED <<server, disk, content, written, crashes, active, LOCK_log, pc,
                   want, ino, pos, sent, killed>>
-----------------------------------------------------------------------------
(***************************************************************************)
(* mysql_binlog_send.                                                      *)
(***************************************************************************)
Unread(d) == pos[d] < Len(content[ino[d]])

\* the slave asks for the first log or for one it knows; linfo is not initialized
Begin(d) ==
    /\ At(d, "idle") /\ is_open
    /\ \E junk \in Names : linfo' = [linfo EXCEPT ![d] = [NoInfo EXCEPT !.set = TRUE, !.name = junk]]
    /\ \E n \in Names \union {NoName} : want' = [want EXCEPT ![d] = n]
    /\ Goto(d, "find")
    /\ UNCHANGED <<server, files, crashes, active, locks, purge, ino, pos, sent, killed>>

Position(d, i) == linfo' = [linfo EXCEPT ![d].name = index[i], ![d].next = i]

\* find_log_pos
Find(d) ==
    /\ At(d, "find") /\ LOCK_index = Nobody
    /\ LET found == {i \in DOMAIN index : want[d] \in {NoName, index[i]}}
       IN  IF found # {} THEN Position(d, Min(found)) /\ Goto(d, "open")
           ELSE Goto(d, "leave") /\ UNCHANGED linfo
    /\ UNCHANGED <<server, files, crashes, active, locks, purge, want, ino, pos, sent, killed>>

\* open_binlog
Open(d) ==
    /\ At(d, "open")
    /\ IF linfo[d].name # NoName /\ disk[linfo[d].name] # 0
       THEN /\ ino' = [ino EXCEPT ![d] = disk[linfo[d].name]] /\ pos' = [pos EXCEPT ![d] = 0]
            /\ Goto(d, "send")
       ELSE Goto(d, "leave") /\ UNCHANGED <<ino, pos>>
    /\ UNCHANGED <<server, files, crashes, active, locks, purge, linfo, want, sent, killed>>

SendOne(d) ==
    /\ sent' = [sent EXCEPT ![d] = Append(@, content[ino[d]][pos[d] + 1])]
    /\ pos' = [pos EXCEPT ![d] = @ + 1]

\* read_log_event, under LOCK_log, until the end of the file
Send(d) ==
    /\ At(d, "send") /\ LOCK_log = Nobody
    /\ IF Unread(d) THEN SendOne(d) /\ UNCHANGED pc
       ELSE Goto(d, "check") /\ UNCHANGED <<sent, pos>>
    /\ UNCHANGED <<server, files, crashes, active, locks, purge, linfo, want, ino, killed>>

\* is_active(), without a lock
Check(d) ==
    /\ At(d, "check")
    /\ Goto(d, IF linfo[d].name = log_file_name THEN "again" ELSE "next")
    /\ UNCHANGED <<server, files, crashes, active, locks, purge, dumps, killed>>

Again_Trusts(d) ==
    /\ At(d, "again") /\ LOCK_log = Nobody
    /\ LOCK_log' = d /\ Goto(d, "enter")
    /\ UNCHANGED <<server, files, crashes, active, LOCK_index, purge, dumps, killed>>

\* the update may have been missed: read again under LOCK_log before waiting
Again(d) ==
    /\ At(d, "again") /\ LOCK_log = Nobody
    /\ \/ Unread(d) /\ SendOne(d) /\ Goto(d, "top") /\ UNCHANGED LOCK_log
       \/ ~Unread(d) /\ killed[d] = "no" /\ LOCK_log' = d /\ Goto(d, "enter") /\ UNCHANGED <<sent, pos>>
       \/ ~Unread(d) /\ killed[d] # "no" /\ Goto(d, "top") /\ UNCHANGED <<sent, pos, LOCK_log>>
    /\ UNCHANGED <<server, files, crashes, active, LOCK_index, purge, linfo, want, ino, killed>>

\* wait_for_update: enter_cond, and the wait gives LOCK_log up
Enter(d) ==
    /\ At(d, "enter")
    /\ Goto(d, "asleep") /\ LOCK_log' = Nobody
    /\ UNCHANGED <<server, files, crashes, active, LOCK_index, purge, dumps, killed>>

\* the wait takes it again; exit_cond
Wake(d) ==
    /\ At(d, "woken") /\ LOCK_log = Nobody
    /\ Goto(d, "top")
    /\ UNCHANGED <<server, files, crashes, active, locks, purge, dumps, killed>>

Top(d) ==
    /\ At(d, "top")
    /\ Goto(d, IF killed[d] # "no" THEN "leave" ELSE "send")
    /\ UNCHANGED <<server, files, crashes, active, locks, purge, dumps, killed>>

\* find_next_log; at the end of the index it leaves an empty name
Next_Log(d) ==
    /\ At(d, "next") /\ LOCK_index = Nobody
    /\ IF linfo[d].next < Len(index) THEN Position(d, linfo[d].next + 1)
       ELSE linfo' = [linfo EXCEPT ![d].name = NoName]
    /\ Goto(d, "open")
    /\ UNCHANGED <<server, files, crashes, active, locks, purge, want, ino, pos, sent, killed>>

Leave(d) ==
    /\ At(d, "leave")
    /\ linfo' = [linfo EXCEPT ![d] = NoInfo] /\ Goto(d, "gone")
    /\ UNCHANGED <<server, files, crashes, active, locks, purge, want, ino, pos, sent, killed>>

\* KILL: THD::awake sets the flag,
Kill(d) ==
    /\ server = "up" /\ "kill" \in plan /\ killed[d] = "no" /\ pc[d] \notin {"idle", "gone"}
    /\ killed' = [killed EXCEPT ![d] = "flagged"]
    /\ UNCHANGED <<server, files, crashes, active, locks, pc, purge, dumps>>

\* and wakes the thread if it waits on a condition by now
Awake(d) ==
    /\ server = "up" /\ killed[d] = "flagged"
    /\ IF pc[d] \in {"asleep", "woken"} THEN LOCK_log = Nobody /\ WakeAnd(d, "woken") ELSE UNCHANGED pc
    /\ killed' = [killed EXCEPT ![d] = "done"]
    /\ UNCHANGED <<server, files, crashes, active, locks, purge, dumps>>
-----------------------------------------------------------------------------
Begun(t) == LockLog(t) \/ NewFile(t) \/ Register(t) \/ ResetLogs(t) \/ NullName(t)
Purging == PurgeDelete \/ PurgeStop \/ PurgeCopy \/ PurgeTruncate
Dumping(d) == \/ Find(d) \/ Open(d) \/ Send(d) \/ Check(d) \/ Again(d) \/ Enter(d)
              \/ Wake(d) \/ Top(d) \/ Next_Log(d) \/ Leave(d)

Move ==
    \/ Start \/ Crash \/ PurgeLogs \/ Purging
    \/ \E t \in Threads : Write(t) \/ FlushLogs(t) \/ ResetMaster(t) \/ Begun(t)
    \/ \E d \in Dumpers : Begin(d) \/ Dumping(d) \/ Kill(d) \/ Awake(d)

Next == Move /\ UNCHANGED plan
Spec == Init /\ [][Next]_vars

\* What was begun goes on, and who waits for a mutex gets it although purges follow one another;
\* nobody has to write, flush, purge or kill.
FairSpec ==
    /\ Spec
    /\ WF_vars(Purging /\ UNCHANGED plan)
    /\ \A t \in Threads : SF_vars(Begun(t) /\ UNCHANGED plan)
    /\ \A d \in Dumpers : SF_vars(Dumping(d) /\ UNCHANGED plan)
-----------------------------------------------------------------------------
Located(d) == linfo[d].set /\ pc[d] \notin {"find", "leave"} /\ linfo[d].name # NoName

\* The log a dumper is at is on disk, and its offset is that of the entry behind this log in the
\* index, whatever is purged and however the entries move (log_in_use, adjust_linfo_offsets).
OffsetsTrack ==
    \A d \in Dumpers :
        /\ ~linfo[d].fatal
        /\ Located(d) =>
            /\ disk[linfo[d].name] # 0
            /\ LOCK_index # Purger =>
                   linfo[d].next \in DOMAIN index /\ index[linfo[d].next] = linfo[d].name

Events(f) == SelectSeq(f, LAMBDA e : e # Rotate)
Logged == FoldLeft(LAMBDA s, n : s \o Events(content[disk[n]]), << >>, index)
Consecutive(s) == \A i \in 2..Len(s) : s[i] = s[i - 1] + 1

\* The files in the index exist, and they have all events from some event to the last one, each
\* once and in order: rotating, purging and resetting lose none and repeat none.
LoggedWhole ==
    /\ \A i \in DOMAIN index : disk[index[i]] # 0
    /\ Consecutive(Logged)
    /\ is_open => Logged = << >> \/ Logged[Len(Logged)] = written

\* An event that was written is in a listed file, also when the server was killed between creating
\* a file and registering it in the index.
NothingLost ==
    \A e \in 1..written : \E i \in DOMAIN index :
        disk[index[i]] # 0 /\ e \in ToSet(content[disk[index[i]]])

\* The index and the files agree whenever no purge is under way, the places of the dumpers in the
\* index too, unless somebody resets the logs under them, and as long as nothing is purged or reset
\* nothing is lost.  (A purge that is killed leaves names in the index of files that are gone.)
IndexWhole ==
    /\ server = "up" /\ LOCK_index # Purger /\ ~({"purge", "crash"} \subseteq plan) => LoggedWhole
    /\ server = "up" /\ "reset" \notin plan /\ ~({"purge", "crash"} \subseteq plan) => OffsetsTrack
    /\ plan \intersect {"purge", "reset"} = {} => NothingLost

Increasing(s) == \A i \in 2..Len(s) : s[i - 1] < s[i]

\* While a dumper sleeps it has sent all of its log, and this is the active log: no broadcast
\* passes between its last look and its wait (sql_repl.cc:485).
NoMissedUpdate ==
    \A d \in Dumpers : At(d, "asleep") => ~Unread(d) /\ linfo[d].name = log_file_name

\* A dumper sends events in the order in which they were written, none twice, and all of them
\* before it sleeps, unless logs are reset, or a purge is killed, under it.
SentInOrder ==
    "reset" \notin plan /\ ~({"purge", "crash"} \subseteq plan) =>
        NoMissedUpdate /\ \A d \in Dumpers : Increasing(Events(sent[d]))

Reached(d) == At(d, "asleep") /\ linfo[d].name = log_file_name /\ ~Unread(d)

\* However often the file is changed, a dumper gets to the end of the active log again and again,
\* unless it ends, or the server does.
CatchesUp ==
    "reset" \notin plan => \A d \in Dumpers : []<>(server # "up" \/ Reached(d) \/ pc[d] \in {"idle", "gone"})
=============================================================================
