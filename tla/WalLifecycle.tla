---------------------------- MODULE WalLifecycle ----------------------------
(***************************************************************************)
(* The life of a write-ahead log in DBImpl: written by the write thread,   *)
(* closed by SwitchMemtable, made obsolete by flush jobs, found by         *)
(* FindObsoleteFiles, counted and deleted by PurgeObsoleteFiles.           *)
(*                                                                         *)
(* One action is one stretch of code under mutex_ (or, for file accesses,  *)
(* between two stretches).  The write thread has one leader at a time;     *)
(* flush jobs run concurrently with it and with each other.  File numbers  *)
(* are log numbers: the numbers of tables in between are left out.         *)
(***************************************************************************)
EXTENDS Integers, SequencesExt, FiniteSetsExt

CONSTANTS
    CF,           \* the column families
    Job,          \* the threads that flush and purge
    Paranoid,     \* paranoid_checks: a background error stops the database
    FailureAllowed, \* whether file operations of flush jobs may fail
    RecycleNum,   \* recycle_log_file_num
    MaxWrites,    \* bound: write batches
    MaxSwitches,  \* bound: memtables sealed
    MaxPurges     \* bound: EnableFileDeletions calls

ASSUME CFAssumption == CF # {} /\ IsFiniteSet(CF)
ASSUME OptionAssumption ==
    Paranoid \in BOOLEAN /\ FailureAllowed \in BOOLEAN /\ RecycleNum \in Nat
ASSUME BoundAssumption ==
    MaxWrites \in Nat /\ MaxSwitches \in Nat /\ MaxPurges \in Nat

VARIABLES
    batch,               \* history: the column families of each write batch
    wal,                 \* the log files in wal_dir: number -> batches
    synced,              \* the logs synced to disk after they were closed
    logfile_number_, log_empty_, alive_log_files_, logs_, log_recycle_files_,
    next_file_number_,
    mem,                 \* per column family, the batches in the memtable
    imm,                 \* per column family, MemTableList, oldest first
    commit_in_progress_,
    sealed,              \* memtables sealed so far; numbers the memtables
    log_number,          \* cfd->GetLogNumber()
    manifest,            \* what the MANIFEST records: log number and batches
    writer,              \* the leader of the write thread
    job,                 \* the flush jobs with their JobContext
    bg_error_,           \* a background error has stopped the database
    counted,             \* history: how often each log created was counted
    reused,              \* history: the logs renamed to become newer ones
    undeleted,           \* history: the logs whose deletion has failed
    purges               \* EnableFileDeletions calls so far

log_vars == <<synced, logfile_number_, log_empty_, alive_log_files_, logs_,
              log_recycle_files_, next_file_number_>>
flush_vars == <<imm, commit_in_progress_, log_number, manifest>>
history == <<counted, reused, undeleted, purges>>
vars == <<batch, wal, log_vars, mem, flush_vars, sealed, writer, job,
          bg_error_, history>>

Write == 1 .. MaxWrites
LogNumber == 1 .. MaxSwitches + 1

IdleWriter == [pc |-> "idle"]
IdleJob == [pc |-> "idle"]

\* The VersionEdit of a memtable: nothing, or a log number and a new table.
NoEdit == [log |-> 0, data |-> {}]

(***************************************************************************)
(* An action is what a thread does while it holds mutex_, with one         *)
(* exception: a job holds mutex_ from counting a log to its deletion, and  *)
(* threads that do not need mutex_ run in between.                         *)
(***************************************************************************)
MutexFree == \A j \in Job : job[j].pc # "delete"

----------------------------------------------------------------------------

\* A database just opened: log 1 is new and all older logs are recovered.
Init ==
    /\ batch = <<>>
    /\ wal = (1 :> {})
    /\ synced = {}
    /\ logfile_number_ = 1
    /\ log_empty_ = TRUE
    /\ alive_log_files_ = <<1>>
    /\ logs_ = <<[number |-> 1, getting_synced |-> FALSE]>>
    /\ log_recycle_files_ = <<>>
    /\ next_file_number_ = 2
    /\ mem = [cf \in CF |-> {}]
    /\ imm = [cf \in CF |-> <<>>]
    /\ commit_in_progress_ = [cf \in CF |-> FALSE]
    /\ sealed = 0
    /\ log_number = [cf \in CF |-> 0]
    /\ manifest = [cf \in CF |-> [log |-> 0, data |-> {}]]
    /\ writer = IdleWriter
    /\ job = [j \in Job |-> IdleJob]
    /\ bg_error_ = FALSE
    /\ counted = (1 :> 0)
    /\ reused = {}
    /\ undeleted = {}
    /\ purges = 0

----------------------------------------------------------------------------
\* The write thread

\* WriteToWAL: the leader appends the batch to the current log.
WriteToWAL(cfs) ==
    /\ writer.pc = "idle" /\ ~bg_error_ /\ Len(batch) < MaxWrites
    /\ batch' = Append(batch, cfs)
    /\ wal' = [wal EXCEPT ![logfile_number_] = @ \cup {Len(batch')}]
    /\ log_empty_' = FALSE
    /\ writer' = [pc |-> "insert"]
    /\ UNCHANGED <<synced, logfile_number_, alive_log_files_, logs_,
                   log_recycle_files_, next_file_number_, mem, flush_vars,
                   sealed, job, bg_error_, history>>

\* ... and inserts it into the memtables of its column families.
InsertIntoMemtables ==
    /\ writer.pc = "insert"
    /\ mem' = [cf \in CF |-> IF cf \in Last(batch) THEN mem[cf] \cup {Len(batch)}
                                                   ELSE mem[cf]]
    /\ writer' = IdleWriter
    /\ UNCHANGED <<batch, wal, log_vars, flush_vars, sealed, job, bg_error_,
                   history>>

(***************************************************************************)
(* Memtables without data are switched only by SwitchWAL, when several     *)
(* column families share the logs and those in use have grown too large.   *)
(***************************************************************************)
SwitchWAL ==
    Cardinality(CF) > 1 /\ \E n \in ToSet(alive_log_files_) : wal[n] # {}

(***************************************************************************)
(* SwitchMemtable up to mutex_.Unlock().  A log that holds nothing yet is  *)
(* kept; otherwise a number is taken for a new one, which replaces a file  *)
(* of the recycle list if there is one.                                    *)
(***************************************************************************)
SwitchMemtable(cf) ==
    /\ MutexFree /\ writer.pc = "idle" /\ sealed < MaxSwitches
    /\ mem[cf] # {} \/ SwitchWAL
    /\ sealed' = sealed + 1
    /\ LET recycle == ~log_empty_ /\ log_recycle_files_ # <<>>
       IN  /\ writer' = [pc |-> IF log_empty_ THEN "install" ELSE "create",
                         cf |-> cf,
                         new_log |-> IF log_empty_ THEN logfile_number_
                                                   ELSE next_file_number_,
                         recycle |-> IF recycle THEN Head(log_recycle_files_) ELSE 0]
           /\ log_recycle_files_' = IF recycle THEN Tail(log_recycle_files_)
                                               ELSE log_recycle_files_
    /\ next_file_number_' = next_file_number_ + (IF log_empty_ THEN 0 ELSE 1)
    /\ UNCHANGED <<batch, wal, synced, logfile_number_, log_empty_,
                   alive_log_files_, logs_, mem, flush_vars, job, bg_error_,
                   history>>

\* Without mutex_: NewWritableFile, or ReuseWritableFile, which renames.
CreateLog ==
    /\ writer.pc = "create"
    /\ writer.recycle \in {0} \cup DOMAIN wal
    /\ wal' = [n \in (DOMAIN wal \ {writer.recycle}) \cup {writer.new_log} |->
                  IF n = writer.new_log THEN {} ELSE wal[n]]
    /\ counted' = counted @@ (writer.new_log :> 0)
    /\ reused' = reused \cup ({writer.recycle} \ {0})
    /\ writer' = [writer EXCEPT !.pc = "install"]
    /\ UNCHANGED <<batch, log_vars, mem, flush_vars, sealed, job, bg_error_,
                   undeleted, purges>>

\* The switch is given up.  A write reports that to WriteStatusCheck, Flush() does not.
SwitchFails ==
    /\ writer' = IdleWriter
    /\ bg_error_' \in {bg_error_, bg_error_ \/ Paranoid}

\* No file: it could not be created, or the one to be renamed is gone.
CreateLogFails ==
    /\ MutexFree /\ writer.pc = "create"
    /\ FailureAllowed \/ writer.recycle \notin {0} \cup DOMAIN wal
    /\ SwitchFails
    /\ UNCHANGED <<batch, wal, log_vars, mem, flush_vars, sealed, job, history>>

\* Faulty NoUnflushedData: the immutable memtables are forgotten.
EmptyMemtable(cf) == mem[cf] = {}

\* The column family needs none of the logs written so far.
NoUnflushedData(cf) == mem[cf] = {} /\ imm[cf] = <<>>

\* The log of the switch, new or not, is the current one.
MakeCurrent(new) ==
    LET creating == new # logfile_number_
    IN  /\ logfile_number_' = new
        /\ log_empty_' = TRUE
        /\ logs_' = IF creating
                    THEN Append(logs_, [number |-> new, getting_synced |-> FALSE])
                    ELSE logs_
        /\ alive_log_files_' = IF creating THEN Append(alive_log_files_, new)
                                           ELSE alive_log_files_
        /\ UNCHANGED <<synced, log_recycle_files_, next_file_number_>>

(***************************************************************************)
(* SwitchMemtable after mutex_.Lock(): the new log becomes current, column *)
(* families without unflushed data move their log number past the old one, *)
(* and the memtable is sealed.                                             *)
(***************************************************************************)
InstallMemtable ==
    /\ MutexFree /\ writer.pc = "install"
    /\ MakeCurrent(writer.new_log)
    /\ LET cf == writer.cf
           new == writer.new_log
       IN  /\ log_number' = [c \in CF |->
                 IF new # logfile_number_ /\ NoUnflushedData(c) THEN new
                                                                ELSE log_number[c]]
           /\ imm' = [imm EXCEPT ![cf] = Append(@,
                 [id |-> sealed, data |-> mem[cf], next_log |-> new,
                  in_progress |-> FALSE, completed |-> FALSE, edit |-> NoEdit])]
           /\ mem' = [mem EXCEPT ![cf] = {}]
    /\ writer' = IdleWriter
    /\ UNCHANGED <<batch, wal, commit_in_progress_, manifest, sealed, job, bg_error_,
                   history>>

(***************************************************************************)
(* WriteBuffer() of the old log failed.  In a build without assertions the *)
(* new log stays current, but the memtable is not sealed.                  *)
(***************************************************************************)
WriteBufferFails ==
    /\ MutexFree /\ writer.pc = "install" /\ FailureAllowed
    /\ writer.new_log # logfile_number_
    /\ MakeCurrent(writer.new_log)
    /\ SwitchFails
    /\ UNCHANGED <<batch, wal, mem, flush_vars, sealed, job, history>>

----------------------------------------------------------------------------
\* Flush jobs

\* The positions in the list of the memtables a job has picked.
Picked(j) == {i \in DOMAIN imm[job[j].cf] : imm[job[j].cf][i].id \in job[j].mems}

\* Ends the flush proper; a failure forces a full scan for obsolete files.
Finished(j, ok) ==
    /\ job' = [job EXCEPT ![j] = [pc |-> "find", force |-> ~ok]]
    /\ bg_error_' = (bg_error_ \/ (~ok /\ Paranoid))

\* Faulty AfterPick: closed logs are never synced.
NeverSync == "write"

\* SyncClosedLogs is skipped if there is only one column family.
AfterPick == IF Cardinality(CF) > 1 THEN "sync" ELSE "write"

\* PickMemtablesToFlush: all memtables that no job is flushing, consecutive or not.
MemtablesToFlush(list) == {i \in DOMAIN list : ~list[i].in_progress}

\* A job that writes the table of the memtables it has picked.
Writing(cf, mems) == [pc |-> "write", cf |-> cf, mems |-> mems]

\* A closed log is being synced by another job.
MustWait(up_to) == Head(logs_).number <= up_to /\ Head(logs_).getting_synced

\* SyncClosedLogs up to mutex_.Unlock(): wait for a sync under way, or mark the
\* closed logs, if there are any.  up_to is current_log_number - 1.
SyncUpTo(j, cf, mems, up_to) ==
    IF MustWait(up_to)
    THEN /\ job' = [job EXCEPT ![j] = [pc |-> "sync", cf |-> cf, mems |-> mems,
                                       up_to |-> up_to]]
         /\ UNCHANGED logs_
    ELSE /\ logs_' = [i \in DOMAIN logs_ |->
                        [logs_[i] EXCEPT !.getting_synced = @ \/ logs_[i].number <= up_to]]
         /\ job' = [job EXCEPT ![j] =
                      IF logs_' = logs_ THEN Writing(cf, mems)
                      ELSE [pc |-> "syncing", cf |-> cf, mems |-> mems, up_to |-> up_to]]

\* BackgroundFlush and PickMemTable, and in the same critical section the beginning
\* of SyncClosedLogs: the logs to be synced are those closed by now.
PickMemTable(j, cf) ==
    /\ MutexFree /\ job[j].pc = "idle" /\ ~bg_error_
    /\ LET picked == MemtablesToFlush(imm[cf])
           mems == {imm[cf][i].id : i \in picked}
       IN  /\ picked # {}
           /\ imm' = [imm EXCEPT ![cf] = [i \in DOMAIN @ |->
                        [@[i] EXCEPT !.in_progress = TRUE]]]
           /\ IF AfterPick = "sync" THEN SyncUpTo(j, cf, mems, logfile_number_ - 1)
              ELSE job' = [job EXCEPT ![j] = Writing(cf, mems)] /\ UNCHANGED logs_
    /\ UNCHANGED <<batch, wal, synced, logfile_number_, log_empty_, alive_log_files_,
                   log_recycle_files_, next_file_number_, mem, commit_in_progress_,
                   log_number, manifest, sealed, writer, bg_error_, history>>

\* SyncClosedLogs after log_sync_cv_.Wait().
SyncClosedLogs(j) ==
    /\ MutexFree /\ job[j].pc = "sync" /\ ~MustWait(job[j].up_to)
    /\ SyncUpTo(j, job[j].cf, job[j].mems, job[j].up_to)
    /\ UNCHANGED <<batch, wal, synced, logfile_number_, log_empty_,
                   alive_log_files_, log_recycle_files_, next_file_number_, mem,
                   flush_vars, sealed, writer, bg_error_, history>>

(***************************************************************************)
(* The rest of SyncClosedLogs, with MarkLogsSynced.  On failure            *)
(* FlushJob::Cancel leaves the memtables marked as being flushed.          *)
(***************************************************************************)
MarkLogsSynced(j, ok) ==
    /\ MutexFree /\ job[j].pc = "syncing" /\ (ok \/ FailureAllowed)
    /\ LET done(log) == log.number <= job[j].up_to
       IN  /\ logs_' = IF ok THEN SelectSeq(logs_, LAMBDA log : ~done(log))
                       ELSE [i \in DOMAIN logs_ |-> [logs_[i] EXCEPT
                               !.getting_synced = @ /\ ~done(logs_[i])]]
           /\ synced' = IF ok THEN synced \cup {logs_[i].number :
                                   i \in {k \in DOMAIN logs_ : done(logs_[k])}}
                              ELSE synced
    /\ IF ok THEN /\ job' = [job EXCEPT ![j] = Writing(@.cf, @.mems)]
                  /\ UNCHANGED bg_error_
             ELSE Finished(j, FALSE)
    /\ UNCHANGED <<batch, wal, logfile_number_, log_empty_, alive_log_files_,
                   log_recycle_files_, next_file_number_, mem, flush_vars,
                   sealed, writer, history>>

\* WriteLevel0Table failed: RollbackMemtableFlush.
RollbackMemtableFlush(j) ==
    /\ MutexFree /\ job[j].pc = "write" /\ FailureAllowed
    /\ imm' = [imm EXCEPT ![job[j].cf] = [i \in DOMAIN @ |->
                 IF i \in Picked(j)
                 THEN [@[i] EXCEPT !.in_progress = FALSE, !.completed = FALSE,
                                   !.edit = NoEdit]
                 ELSE @[i]]]
    /\ Finished(j, FALSE)
    /\ UNCHANGED <<batch, wal, log_vars, mem, commit_in_progress_, log_number,
                   manifest, sealed, writer, history>>

\* Faulty CompletedPrefix: gaps in the list are skipped.
NewestCompleted(list) == Max({0} \cup {n \in DOMAIN list : list[n].completed})

\* The memtables at the old end of the list whose tables are written.
CompletedPrefix(list) ==
    Max({0} \cup {n \in DOMAIN list : \A i \in 1 .. n : list[i].completed})

(***************************************************************************)
(* The loop of TryInstallMemtableFlushResults up to the point where        *)
(* LogAndApply releases mutex_, or its end if the oldest memtable is not   *)
(* completed.  Only one job per column family is in it.                    *)
(***************************************************************************)
CommitNext(j, cf, list) ==
    LET n == CompletedPrefix(list)
    IN  /\ commit_in_progress_' = [commit_in_progress_ EXCEPT ![cf] = n > 0]
        /\ IF n > 0
           THEN /\ job' = [job EXCEPT ![j] = [pc |-> "manifest", cf |-> cf, count |-> n]]
                /\ UNCHANGED bg_error_
           ELSE Finished(j, TRUE)

\* WriteLevel0Table: one table with the data of all memtables picked.  Its edit
\* has the log number that follows the newest of them.
WriteLevel0Table(j) ==
    LET list == imm[job[j].cf]
    IN  [log |-> list[Max(Picked(j))].next_log,
         data |-> UNION {list[i].data : i \in Picked(j)}]

(***************************************************************************)
(* The table is written.  Its edit is stored with the oldest memtable; all *)
(* of them are marked completed, to be committed by this job or by the one *)
(* that is committing already.                                             *)
(***************************************************************************)
TryInstallMemtableFlushResults(j) ==
    LET cf == job[j].cf
    IN  /\ MutexFree /\ job[j].pc = "write"
        /\ imm' = [imm EXCEPT ![cf] = [i \in DOMAIN @ |->
                     IF i \in Picked(j)
                     THEN [@[i] EXCEPT !.completed = TRUE,
                                       !.edit = IF i = Min(Picked(j))
                                                THEN WriteLevel0Table(j) ELSE NoEdit]
                     ELSE @[i]]]
        /\ IF commit_in_progress_[cf]
           THEN Finished(j, TRUE) /\ UNCHANGED commit_in_progress_
           ELSE CommitNext(j, cf, imm'[cf])
        /\ UNCHANGED <<batch, wal, log_vars, mem, log_number, manifest, sealed,
                       writer, history>>

\* LogAndApply succeeded: the edits of the batch are in the MANIFEST.
LogAndApply(j) ==
    LET cf == job[j].cf
        edits == {imm[cf][i].edit : i \in 1 .. job[j].count}
        log == Max({e.log : e \in edits})
    IN  /\ MutexFree /\ job[j].pc = "manifest"
        /\ manifest' = [manifest EXCEPT ![cf] =
                          [log |-> Max({@.log, log}),
                           data |-> @.data \cup UNION {e.data : e \in edits}]]
        /\ log_number' = [log_number EXCEPT ![cf] = IF log = 0 THEN @ ELSE log]
        /\ imm' = [imm EXCEPT ![cf] = SubSeq(@, job[j].count + 1, Len(@))]
        /\ CommitNext(j, cf, imm'[cf])
        /\ UNCHANGED <<batch, wal, log_vars, mem, sealed, writer, history>>

\* LogAndApply failed: the batch is to be flushed again.
LogAndApplyFails(j) ==
    LET cf == job[j].cf
    IN  /\ MutexFree /\ job[j].pc = "manifest" /\ FailureAllowed
        /\ imm' = [imm EXCEPT ![cf] = [i \in DOMAIN @ |->
                     IF i <= job[j].count
                     THEN [@[i] EXCEPT !.in_progress = FALSE, !.completed = FALSE,
                                       !.edit = NoEdit]
                     ELSE @[i]]]
        /\ commit_in_progress_' = [commit_in_progress_ EXCEPT ![cf] = FALSE]
        /\ Finished(j, FALSE)
        /\ UNCHANGED <<batch, wal, log_vars, mem, log_number, manifest, sealed,
                       writer, history>>

----------------------------------------------------------------------------
\* Obsolete logs

\* Faulty MinLogNumberToKeep: the newest log number is taken.
MaxLogNumber == Max({log_number[cf] : cf \in CF})

\* MinLogNumberToKeep without two-phase commit.
MinLogNumberToKeep == Min({log_number[cf] : cf \in CF})

\* Faulty Obsolete: the log needed is included.
ObsoleteThrough(n, min) == n <= min

\* A log below the oldest one needed is obsolete.
Obsolete(n, min) == n < min

\* Faulty RecycleRoom: the length of the list is not looked at.
AlwaysRoom == RecycleNum

\* How many logs the recycle list can still take.
RecycleRoom == Max({0, RecycleNum - Len(log_recycle_files_)})

(***************************************************************************)
(* FindObsoleteFiles up to the loop over logs_: the logs below the oldest  *)
(* one needed leave alive_log_files_, for the recycle list while it has    *)
(* room.  A full scan, forced or because its period is over, adds every    *)
(* file of wal_dir.                                                        *)
(***************************************************************************)
FindObsoleteFiles(j, full) ==
    /\ MutexFree /\ job[j].pc = "find" /\ (job[j].force => full)
    /\ LET min == MinLogNumberToKeep
           obsolete == SelectSeq(alive_log_files_, LAMBDA n : Obsolete(n, min))
           recycled == SubSeq(obsolete, 1, Min({RecycleRoom, Len(obsolete)}))
       IN  /\ alive_log_files_' = SelectSeq(alive_log_files_,
                                              LAMBDA n : ~Obsolete(n, min))
           /\ log_recycle_files_' = log_recycle_files_ \o recycled
           /\ job' = [job EXCEPT ![j] =
                 [pc |-> "free", log_number |-> min,
                  candidates |-> (ToSet(obsolete) \ ToSet(recycled))
                                   \cup (IF full THEN DOMAIN wal ELSE {})]]
    /\ UNCHANGED <<batch, wal, synced, logfile_number_, log_empty_, logs_,
                   next_file_number_, mem, flush_vars, sealed, writer, bg_error_,
                   history>>

\* A client has called DisableFileDeletions: FindObsoleteFiles returns at once.
DeletionsDisabled(j) ==
    /\ MutexFree /\ job[j].pc = "find"
    /\ job' = [job EXCEPT ![j] = IdleJob]
    /\ UNCHANGED <<batch, wal, log_vars, mem, flush_vars, sealed, writer,
                   bg_error_, history>>

\* What PurgeObsoleteFiles keeps of the candidates is decided by the log number and
\* the recycle list FindObsoleteFiles saw, not by what they are when it deletes.
Doomed(j) ==
    {n \in job[j].candidates :
        Obsolete(n, job[j].log_number) /\ n \notin ToSet(log_recycle_files_)}

(***************************************************************************)
(* The rest of FindObsoleteFiles: it waits until none of the obsolete logs *)
(* is being synced, frees their writers and copies the recycle list.       *)
(***************************************************************************)
FreeLogs(j) ==
    /\ MutexFree /\ job[j].pc = "free"
    /\ LET freed(log) == Obsolete(log.number, job[j].log_number)
       IN  /\ \A i \in DOMAIN logs_ : freed(logs_[i]) => ~logs_[i].getting_synced
           /\ logs_' = SelectSeq(logs_, LAMBDA log : ~freed(log))
    /\ job' = [job EXCEPT ![j] = IF Doomed(j) = {} THEN IdleJob
                                 ELSE [pc |-> "purge", doomed |-> Doomed(j)]]
    /\ UNCHANGED <<batch, wal, synced, logfile_number_, log_empty_,
                   alive_log_files_, log_recycle_files_, next_file_number_, mem,
                   flush_vars, sealed, writer, bg_error_, history>>


\* genTopkForPartitioner: a file that cannot be opened is not counted.
GenTopk(n) == IF n \in DOMAIN wal THEN 1 ELSE 0

(***************************************************************************)
(* DeleteObsoleteFileImpl.  With mutex_ held genTopkForPartitioner feeds   *)
(* the log to the summary, if the file is still there,                     *)
(***************************************************************************)
CountObsoleteFile(j, n) ==
    /\ MutexFree /\ job[j].pc = "purge" /\ n \in job[j].doomed
    /\ counted' = [counted EXCEPT ![n] = @ + GenTopk(n)]
    /\ job' = [job EXCEPT ![j] = [pc |-> "delete", doomed |-> @.doomed, log |-> n]]
    /\ UNCHANGED <<batch, wal, log_vars, mem, flush_vars, sealed, writer, bg_error_,
                   reused, undeleted, purges>>

(***************************************************************************)
(* and then the file is deleted.  It may have been renamed in between by   *)
(* ReuseWritableFile, which runs without mutex_; neither this nor a failed *)
(* deletion is more than logged.                                           *)
(***************************************************************************)
DeleteObsoleteFile(j, ok) ==
    /\ job[j].pc = "delete"
    /\ LET n == job[j].log
       IN  /\ ok \/ (FailureAllowed /\ n \in DOMAIN wal)
           /\ wal' = IF ok THEN [m \in DOMAIN wal \ {n} |-> wal[m]] ELSE wal
           /\ undeleted' = IF ok THEN undeleted ELSE undeleted \cup {n}
           /\ job' = [job EXCEPT ![j] = IF @.doomed = {n} THEN IdleJob
                                        ELSE [pc |-> "purge", doomed |-> @.doomed \ {n}]]
    /\ UNCHANGED <<batch, log_vars, mem, flush_vars, sealed, writer, bg_error_,
                   counted, reused, purges>>

\* EnableFileDeletions, on a thread of the client: always a full scan.
EnableFileDeletions(j) ==
    /\ MutexFree /\ job[j].pc = "idle" /\ purges < MaxPurges
    /\ purges' = purges + 1
    /\ job' = [job EXCEPT ![j] = [pc |-> "find", force |-> TRUE]]
    /\ UNCHANGED <<batch, wal, log_vars, mem, flush_vars, sealed, writer,
                   bg_error_, counted, reused, undeleted>>

----------------------------------------------------------------------------

WriteThread ==
    \/ \E cfs \in SUBSET CF \ {{}} : WriteToWAL(cfs)
    \/ InsertIntoMemtables
    \/ \E cf \in CF : SwitchMemtable(cf)
    \/ CreateLog
    \/ CreateLogFails
    \/ InstallMemtable
    \/ WriteBufferFails

Flush(j) ==
    \/ \E cf \in CF : PickMemTable(j, cf)
    \/ SyncClosedLogs(j)
    \/ \E ok \in BOOLEAN : MarkLogsSynced(j, ok)
    \/ RollbackMemtableFlush(j)
    \/ TryInstallMemtableFlushResults(j)
    \/ LogAndApply(j)
    \/ LogAndApplyFails(j)

Purge(j) ==
    \/ EnableFileDeletions(j)
    \/ \E full \in BOOLEAN : FindObsoleteFiles(j, full)
    \/ DeletionsDisabled(j)
    \/ FreeLogs(j)
    \/ \E n \in LogNumber : CountObsoleteFile(j, n)
    \/ \E ok \in BOOLEAN : DeleteObsoleteFile(j, ok)

Next == WriteThread \/ \E j \in Job : Flush(j) \/ Purge(j)

Spec == Init /\ [][Next]_vars

----------------------------------------------------------------------------

Memtable == [id : Nat, data : SUBSET Write, next_log : LogNumber,
             in_progress : BOOLEAN, completed : BOOLEAN,
             edit : [log : 0 .. MaxSwitches + 1, data : SUBSET Write]]

\* Types; the recycle list holds at most recycle_log_file_num logs.
TypeOK ==
    /\ batch \in Seq(SUBSET CF) /\ Len(batch) <= MaxWrites
    /\ DOMAIN wal \subseteq LogNumber
    /\ \A n \in DOMAIN wal : wal[n] \subseteq Write
    /\ synced \subseteq LogNumber
    /\ logfile_number_ \in LogNumber /\ log_empty_ \in BOOLEAN
    /\ alive_log_files_ \in Seq(LogNumber)
    /\ logs_ \in Seq([number : LogNumber, getting_synced : BOOLEAN])
    /\ log_recycle_files_ \in Seq(LogNumber)
    /\ Len(log_recycle_files_) <= RecycleNum
    /\ mem \in [CF -> SUBSET Write]
    /\ \A cf \in CF : imm[cf] \in Seq(Memtable)
    /\ commit_in_progress_ \in [CF -> BOOLEAN]
    /\ log_number \in [CF -> 0 .. MaxSwitches + 1]
    /\ manifest \in [CF -> [log : 0 .. MaxSwitches + 1, data : SUBSET Write]]
    /\ DOMAIN counted \subseteq LogNumber
    /\ reused \subseteq LogNumber /\ undeleted \subseteq LogNumber

(***************************************************************************)
(* No crash of the process loses a write: whenever it happens, a batch in  *)
(* the log is, for each of its column families, in a table the MANIFEST    *)
(* names or in a log file that recovery reads for that family.             *)
(***************************************************************************)
Durable ==
    \A w \in DOMAIN batch : \A cf \in batch[w] :
        \/ w \in manifest[cf].data
        \/ \E n \in DOMAIN wal : w \in wal[n] /\ n >= manifest[cf].log

(***************************************************************************)
(* No crash of the host tears a batch apart: if the table of one family    *)
(* has the batch, each other family has it in a table too or in a log that *)
(* SyncClosedLogs has synced.                                              *)
(***************************************************************************)
BatchesAtomic ==
    \A w \in DOMAIN batch : \A c, d \in batch[w] :
        w \in manifest[c].data =>
            \/ w \in manifest[d].data
            \/ \E n \in DOMAIN wal \cap synced : w \in wal[n] /\ n >= manifest[d].log

(***************************************************************************)
(* Flush results are committed in the order the memtables were created,    *)
(* whatever order concurrent flushes finish in.                            *)
(***************************************************************************)
CommittedInOrder ==
    \A w, v \in DOMAIN batch : \A cf \in batch[w] \cap batch[v] :
        w < v /\ v \in manifest[cf].data => w \in manifest[cf].data

(***************************************************************************)
(* The current log stays alive (the assertions of FindObsoleteFiles): it   *)
(* is the last one of alive_log_files_ and of logs_, its file exists and   *)
(* no job is about to delete it.                                           *)
(***************************************************************************)
CurrentLogAlive ==
    /\ alive_log_files_ # <<>> /\ Last(alive_log_files_) = logfile_number_
    /\ logs_ # <<>> /\ Last(logs_).number = logfile_number_
    /\ logfile_number_ \in DOMAIN wal
    /\ \A j \in Job : job[j].pc \in {"purge", "delete"} =>
          logfile_number_ \notin job[j].doomed

BeingDeleted(n) == \E j \in Job : job[j].pc = "delete" /\ job[j].log = n


(***************************************************************************)
(* The log number of a column family never goes back (the assertion of     *)
(* ProcessManifestWrites): no later flush makes recovery read logs that    *)
(* may be deleted.                                                         *)
(***************************************************************************)
LogNumbersGrow ==
    [][\A cf \in CF : log_number[cf] <= log_number'[cf]]_vars
============================================================================
