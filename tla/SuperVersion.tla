--------------------------- MODULE SuperVersion ----------------------------
(***************************************************************************)
(* Reads next to memtable switches, flushes and compactions.  A super      *)
(* version (db/column_family.cc) is one view of a column family: the       *)
(* memtable, the immutable memtables and the table files of a Version.     *)
(* Readers take it out of a thread-local cache without mutex_; whoever     *)
(* installs a new one takes the old one out of all caches.  Table files    *)
(* are deleted when no Version holds them (db/db_impl_files.cc).           *)
(*                                                                         *)
(* All writes go to one key: an entry is its sequence number.  One step is *)
(* one atomic access to a cache or a reference count, a stretch of code    *)
(* under mutex_, or the writing of a file.  The references to memtables    *)
(* and Versions, which are counted under mutex_ only, are not counters but *)
(* the super versions and jobs that hold them.                             *)
(***************************************************************************)
EXTENDS Integers, Sequences, FiniteSets

CONSTANTS
    Reader,          \* threads that read
    Null,
    Workloads        \* what may happen: see Workload

Job == {"flush", "compaction"}
Operation == [kind : {"Get", "MultiGet", "NewIterator"}, snapshot : BOOLEAN]

\* What each thread reads, one call after the other, and bounds on the writes, table
\* files, snapshots, and flushes and compactions that fail.
Workload ==
    [reads : [Reader -> Seq(Operation)],
     maxSequence : Nat, maxFiles : Nat, maxSnapshots : Nat, maxFailures : Nat]

ASSUME ReaderAssumption == IsFiniteSet(Reader) /\ Null \notin Reader \cup Job \cup {"writer"}
ASSUME WorkloadsAssumption == Workloads \subseteq Workload

VARIABLES
    mutex,          \* who holds mutex_ between steps
    last_sequence,
    snapshots,      \* the snapshots not released
    memtables,      \* the entries of each memtable ever made
    mem, imm,       \* mem_, and the immutable memtables
    tables,         \* the entries of each table file ever numbered
    current,        \* the files of the current Version
    disk,           \* the table files that exist
    obsolete_files, grabbed,   \* of the VersionSet; files_grabbed_for_purge_
    sv,             \* the super versions; the last is super_version_
    local_sv,       \* the cached pointer of each thread
    install,        \* the InstallSuperVersion under way
    rd,             \* readers
    job,            \* the flush job and the compaction job
    todo            \* the workload still to come

data == <<last_sequence, snapshots, memtables, mem, imm>>
files == <<tables, current, disk, obsolete_files, grabbed>>
vars == <<mutex, data, files, sv, local_sv, install, rd, job, todo>>

\* Values of the cached pointer that are not super versions.
kSVObsolete == 0
kSVInUse == -1

NewReader == [pc |-> "Idle", op |-> Null, sv |-> kSVObsolete, last |-> FALSE, snapshot |-> 0,
              start |-> 0, value |-> 0, purge |-> {}]

NewJob == [pc |-> "Idle", input |-> {}, file |-> 0, version |-> {}, snapshots |-> {},
           pending |-> 0, ok |-> TRUE, purge |-> {}]

NoInstall == [old |-> 0, todo |-> {}, scraped |-> {}]

Init ==
    /\ mutex = Null
    /\ last_sequence = 0 /\ snapshots = {}
    /\ memtables = <<{}>> /\ mem = 1 /\ imm = {}
    /\ tables = <<>> /\ current = {} /\ disk = {} /\ obsolete_files = {} /\ grabbed = {}
    /\ sv = <<[mem |-> 1, imm |-> {}, files |-> {}, refs |-> 1, freed |-> FALSE]>>
    /\ local_sv = [r \in Reader |-> kSVObsolete]
    /\ install = NoInstall
    /\ rd = [r \in Reader |-> NewReader]
    /\ job = [k \in Job |-> NewJob]
    /\ todo \in Workloads

----------------------------------------------------------------------------
\* Reference counts and what they hold.

Ref(n) == [sv EXCEPT ![n].refs = @ + 1]
Unref(n) == [sv EXCEPT ![n].refs = @ - 1]
IsLast(n) == sv[n].refs = 1

\* Cleanup of n and its deletion.
Cleanup(svs, n) == [svs EXCEPT ![n].freed = TRUE]

\* Files of Versions that something refers to (VersionSet::AddLiveFiles).
LiveFiles(cur, svs, jobs) ==
    cur \cup (UNION {svs[n].files : n \in {n \in DOMAIN svs : ~svs[n].freed}})
        \cup (UNION {jobs[k].version : k \in Job})

\* A Version that nothing refers to any more is destroyed, and with it go the
\* references to its files (Version::~Version).
DropVersions ==
    obsolete_files' =
        obsolete_files \cup (LiveFiles(current, sv, job) \ LiveFiles(current', sv', job'))

\* What a reader of super version n can find.
Entries(n) ==
    (UNION {memtables[m] : m \in sv[n].imm \cup {sv[n].mem}})
        \cup (UNION {tables[f] : f \in sv[n].files})

----------------------------------------------------------------------------
\* Obsolete files.

\* pending_outputs_ of all jobs
Pending == {job[k].pending : k \in Job} \ {0}

\* Faulty FindObsoleteFiles: files that are being written are not spared.
FindWithoutPending(obsolete, live, pending, full) ==
    (obsolete \cup IF full THEN disk \ grabbed ELSE {}) \ live

\* The files FindObsoleteFiles finds and PurgeObsoleteFiles will not keep.
FindObsoleteFiles(obsolete, live, pending, full) ==
    LET candidates == obsolete \cup IF full THEN disk \ grabbed ELSE {}
    IN  {f \in candidates \ live : \A p \in pending : f < p}

\* GetObsoleteFiles leaves the files above a pending output for later.
KeepPending(obsolete, pending) == {f \in obsolete : \E p \in pending : f >= p}

\* PurgeObsoleteFiles, which deletes under mutex_.
Purge(fs) ==
    /\ mutex = Null
    /\ disk' = disk \ fs
    /\ grabbed' = grabbed \ fs
    /\ UNCHANGED <<mutex, data, tables, current, obsolete_files, sv, local_sv, install, todo>>

----------------------------------------------------------------------------
\* Writes, snapshots and InstallSuperVersion.

Write ==
    /\ mutex # "writer" /\ last_sequence < todo.maxSequence
    /\ last_sequence' = last_sequence + 1
    /\ memtables' = [memtables EXCEPT ![mem] = @ \cup {last_sequence'}]
    /\ UNCHANGED <<mutex, snapshots, mem, imm, files, sv, local_sv, install, rd, job,
                   todo>>

GetSnapshot ==
    /\ mutex = Null /\ todo.maxSnapshots > 0
    /\ snapshots' = snapshots \cup {last_sequence}
    /\ todo' = [todo EXCEPT !.maxSnapshots = @ - 1]
    /\ UNCHANGED <<mutex, last_sequence, memtables, mem, imm, files, sv, local_sv, install, rd,
                   job>>

\* The caller does not release a snapshot it is reading at.
ReleaseSnapshot ==
    /\ mutex = Null
    /\ \E s \in snapshots :
        /\ \A r \in Reader : rd[r].pc # "Idle" /\ rd[r].op.snapshot => rd[r].snapshot # s
        /\ snapshots' = snapshots \ {s}
    /\ UNCHANGED <<mutex, last_sequence, memtables, mem, imm, files, sv, local_sv,
                   install, rd, job, todo>>

\* InstallSuperVersion by k, up to the new super_version_number_: the new one is
\* in place, the old one still referenced.
InstallSuperVersion(k) ==
    /\ sv' = Append(sv, [mem |-> mem', imm |-> imm', files |-> current', refs |-> 1,
                         freed |-> FALSE])
    /\ install' = [old |-> Len(sv), todo |-> Reader, scraped |-> {}]
    /\ mutex' = k

\* SwitchMemtable by the leader of the write thread
SwitchMemtable ==
    /\ mutex = Null
    /\ memtables[mem] # {}
    /\ imm' = imm \cup {mem}
    /\ mem' = Len(memtables) + 1
    /\ memtables' = Append(memtables, {})
    /\ UNCHANGED current
    /\ InstallSuperVersion("writer")
    /\ UNCHANGED <<last_sequence, snapshots, tables, disk, obsolete_files, grabbed,
                   local_sv, rd, job, todo>>

\* Scrape takes the pointer of one thread.
Scrape(r) ==
    /\ r \in install.todo
    /\ install' = [install EXCEPT !.todo = @ \ {r},
                                  !.scraped = IF local_sv[r] > 0 THEN @ \cup {<<r, local_sv[r]>>}
                                              ELSE @]
    /\ local_sv' = [local_sv EXCEPT ![r] = kSVObsolete]
    /\ UNCHANGED <<mutex, data, files, sv, rd, job, todo>>

\* The references of the scraped pointers are dropped (ResetThreadLocalSuperVersions).
UnrefScraped ==
    /\ install.old # 0 /\ install.todo = {} /\ install.scraped # {}
    /\ sv' = [n \in DOMAIN sv |->
                [sv[n] EXCEPT !.refs = @ - Cardinality({p \in install.scraped : p[2] = n})]]
    /\ install' = [install EXCEPT !.scraped = {}]
    /\ UNCHANGED <<mutex, data, files, local_sv, rd, job, todo>>

\* Faulty UnrefOld: it does not wait for the caches to be scraped.
UnrefOldFirst ==
    /\ install.old # 0
    /\ sv' = IF IsLast(install.old) THEN Cleanup(Unref(install.old), install.old)
             ELSE Unref(install.old)
    /\ install' = NoInstall
    /\ UNCHANGED <<current, job>>
    /\ DropVersions
    /\ mutex' = IF mutex = "writer" THEN Null ELSE mutex
    /\ UNCHANGED <<data, tables, disk, grabbed, local_sv, rd, todo>>

\* The end of InstallSuperVersion.
UnrefOld ==
    /\ install.old # 0 /\ install.todo = {} /\ install.scraped = {}
    /\ sv' = IF IsLast(install.old) THEN Cleanup(Unref(install.old), install.old)
             ELSE Unref(install.old)
    /\ install' = NoInstall
    /\ UNCHANGED <<current, job>>
    /\ DropVersions
    /\ mutex' = IF mutex = "writer" THEN Null ELSE mutex
    /\ UNCHANGED <<data, tables, disk, grabbed, local_sv, rd, todo>>

----------------------------------------------------------------------------
\* Reads.

\* Reader r makes its next call, which is of this kind
Call(r, kind) ==
    /\ rd[r].pc = "Idle"
    /\ todo.reads[r] # <<>> /\ Head(todo.reads[r]).kind = kind
    /\ todo' = [todo EXCEPT !.reads[r] = Tail(@)]

\* with one of the snapshots, or none.
Requests(r) ==
    LET op == Head(todo.reads[r])
    IN  {[NewReader EXCEPT !.op = op, !.start = last_sequence, !.snapshot = s] :
            s \in IF op.snapshot THEN snapshots ELSE {last_sequence}}

\* NewIterator reads LastSequence() before it turns to the super version.
NewIterator(r) ==
    /\ Call(r, "NewIterator")
    /\ \E d \in Requests(r) : rd' = [rd EXCEPT ![r] = [d EXCEPT !.pc = "Swap"]]
    /\ UNCHANGED <<mutex, data, files, sv, local_sv, install, job>>

\* GetThreadLocalSuperVersion for request d: the pointer is taken out of the cache,
SwapLocal(r, d) ==
    /\ local_sv' = [local_sv EXCEPT ![r] = kSVInUse]
    /\ rd' = [rd EXCEPT ![r] = [d EXCEPT !.pc = "Check", !.sv = local_sv[r]]]

Get(r) ==
    /\ Call(r, "Get")
    /\ \E d \in Requests(r) : SwapLocal(r, d)
    /\ UNCHANGED <<mutex, data, files, sv, install, job>>

SwapForIterator(r) ==
    /\ rd[r].pc = "Swap"
    /\ SwapLocal(r, rd[r])
    /\ UNCHANGED <<mutex, data, files, sv, install, job, todo>>

AfterAcquire(r) == IF rd[r].op.kind = "Get" THEN "Snapshot" ELSE "Return"

\* used if it is still the newest, and else given up;
CheckVersionNumber(r) ==
    LET n == rd[r].sv IN
    /\ rd[r].pc = "Check"
    /\ IF n = Len(sv)
       THEN rd' = [rd EXCEPT ![r].pc = AfterAcquire(r)] /\ UNCHANGED sv
       ELSE /\ rd' = [rd EXCEPT ![r].pc = "Acquire", ![r].last = n # kSVObsolete /\ IsLast(n)]
            /\ sv' = IF n = kSVObsolete THEN sv ELSE Unref(n)
    /\ UNCHANGED <<mutex, data, files, local_sv, install, job, todo>>

\* then the newest is taken under mutex_.
Acquire(r) ==
    /\ rd[r].pc = "Acquire" /\ mutex = Null
    /\ sv' = IF rd[r].last THEN Cleanup(Ref(Len(sv)), rd[r].sv) ELSE Ref(Len(sv))
    /\ rd' = [rd EXCEPT ![r].pc = AfterAcquire(r), ![r].sv = Len(sv), ![r].last = FALSE]
    /\ UNCHANGED <<current, job>>
    /\ DropVersions
    /\ UNCHANGED <<mutex, data, tables, disk, grabbed, local_sv, install, todo>>

\* What a read of super version n at sequence number s finds, 0 if nothing.  It
\* depends on n and s alone, so when it is looked up does not matter.
Lookup(n, s) ==
    LET seen == {e \in Entries(n) : e <= s} \cup {0}
    IN  CHOOSE e \in seen : \A d \in seen : d <= e

\* Faulty GetImpl: the sequence number read when the call began is used.
GetImplSnapshotFirst(r) ==
    /\ rd[r].pc = "Snapshot"
    /\ rd' = [rd EXCEPT ![r].pc = "Return", ![r].value = Lookup(rd[r].sv, rd[r].snapshot)]
    /\ UNCHANGED <<mutex, data, files, sv, local_sv, install, job, todo>>

\* GetImpl reads LastSequence() when it has its super version, and then the key.
GetImpl(r) ==
    LET s == IF rd[r].op.snapshot THEN rd[r].snapshot ELSE last_sequence
    IN  /\ rd[r].pc = "Snapshot"
        /\ rd' = [rd EXCEPT ![r].pc = "Return", ![r].snapshot = s,
                            ![r].value = Lookup(rd[r].sv, s)]
        /\ UNCHANGED <<mutex, data, files, sv, local_sv, install, job, todo>>

\* Faulty ReturnFromGet: the reference is dropped even if the cache keeps the pointer.
ReturnAndUnref(r) ==
    /\ rd[r].pc = "Return" /\ rd[r].op.kind = "Get"
    /\ local_sv' = [local_sv EXCEPT ![r] = IF @ = kSVInUse THEN rd[r].sv ELSE @]
    /\ sv' = Unref(rd[r].sv)
    /\ rd' = [rd EXCEPT ![r] = NewReader]
    /\ UNCHANGED <<mutex, data, files, install, job, todo>>

\* ReturnThreadLocalSuperVersion: back into the cache, unless it was scraped
ReturnFromGet(r) ==
    LET n == rd[r].sv
        back == local_sv[r] = kSVInUse
    IN  /\ rd[r].pc = "Return" /\ rd[r].op.kind = "Get"
        /\ local_sv' = IF back THEN [local_sv EXCEPT ![r] = n] ELSE local_sv
        /\ sv' = IF back THEN sv ELSE Unref(n)
        /\ rd' = [rd EXCEPT ![r] = IF ~back /\ IsLast(n) THEN [@ EXCEPT !.pc = "Cleanup"]
                                   ELSE NewReader]
        /\ UNCHANGED <<mutex, data, files, install, job, todo>>

\* Faulty ReturnFromNewIterator: the reference of a scraped pointer is kept.
ReturnScraped(r) ==
    /\ rd[r].pc = "Return" /\ rd[r].op.kind = "NewIterator"
    /\ local_sv' = [local_sv EXCEPT ![r] = IF @ = kSVInUse THEN rd[r].sv ELSE @]
    /\ sv' = Ref(rd[r].sv)
    /\ rd' = [rd EXCEPT ![r].pc = "Release", ![r].value = Lookup(rd[r].sv, rd[r].snapshot)]
    /\ UNCHANGED <<mutex, data, files, install, job, todo>>

\* GetReferencedSuperVersion takes a reference for the iterator before it does so.
ReturnFromNewIterator(r) ==
    LET n == rd[r].sv
        back == local_sv[r] = kSVInUse
    IN  /\ rd[r].pc = "Return" /\ rd[r].op.kind = "NewIterator"
        /\ local_sv' = IF back THEN [local_sv EXCEPT ![r] = n] ELSE local_sv
        /\ sv' = IF back THEN Ref(n) ELSE sv
        /\ rd' = [rd EXCEPT ![r].pc = "Release", ![r].value = Lookup(n, rd[r].snapshot)]
        /\ UNCHANGED <<mutex, data, files, install, job, todo>>

\* MultiGet takes super version and sequence number under mutex_.
MultiGet(r) ==
    /\ mutex = Null
    /\ Call(r, "MultiGet")
    /\ sv' = Ref(Len(sv))
    /\ \E d \in Requests(r) :
        rd' = [rd EXCEPT ![r] = [d EXCEPT !.pc = "Release", !.sv = Len(sv),
                                          !.value = Lookup(Len(sv), d.snapshot)]]
    /\ UNCHANGED <<mutex, data, files, local_sv, install, job>>

\* CleanupSuperVersion by the reader that dropped the last reference
CleanupSuperVersion(r) ==
    /\ rd[r].pc = "Cleanup" /\ mutex = Null
    /\ sv' = Cleanup(sv, rd[r].sv)
    /\ rd' = [rd EXCEPT ![r] = NewReader]
    /\ UNCHANGED <<current, job>>
    /\ DropVersions
    /\ UNCHANGED <<mutex, data, tables, disk, grabbed, local_sv, install, todo>>

\* The end of MultiGet, under mutex_
EndMultiGet(r) ==
    LET n == rd[r].sv IN
    /\ rd[r].pc = "Release" /\ rd[r].op.kind = "MultiGet" /\ mutex = Null
    /\ sv' = IF IsLast(n) THEN Cleanup(Unref(n), n) ELSE Unref(n)
    /\ rd' = [rd EXCEPT ![r] = NewReader]
    /\ UNCHANGED <<current, job>>
    /\ DropVersions
    /\ UNCHANGED <<mutex, data, tables, disk, grabbed, local_sv, install, todo>>

\* An iterator is deleted: CleanupIteratorState drops its reference
UnrefIterator(r) ==
    LET n == rd[r].sv IN
    /\ rd[r].pc = "Release" /\ rd[r].op.kind = "NewIterator"
    /\ sv' = Unref(n)
    /\ rd' = [rd EXCEPT ![r] = IF IsLast(n) THEN [@ EXCEPT !.pc = "IterCleanup"] ELSE NewReader]
    /\ UNCHANGED <<mutex, data, files, local_sv, install, job, todo>>

\* and, if it was the last, looks for files to delete.
CleanupIteratorState(r) ==
    /\ rd[r].pc = "IterCleanup" /\ mutex = Null
    /\ sv' = Cleanup(sv, rd[r].sv)
    /\ LET live == LiveFiles(current, sv', job)
           obsolete == obsolete_files \cup (LiveFiles(current, sv, job) \ live)
           found == FindObsoleteFiles(obsolete, live, Pending, FALSE)
       IN  /\ rd' = [rd EXCEPT ![r] = IF found = {} THEN NewReader
                                      ELSE [@ EXCEPT !.pc = "Purge", !.purge = found]]
           /\ obsolete_files' = KeepPending(obsolete, Pending)
           /\ grabbed' = grabbed \cup found
    /\ UNCHANGED <<mutex, data, tables, current, disk, local_sv, install, job, todo>>

PurgeAfterIterator(r) ==
    /\ rd[r].pc = "Purge"
    /\ Purge(rd[r].purge)
    /\ rd' = [rd EXCEPT ![r] = NewReader]
    /\ UNCHANGED job

\* A thread that has nothing more to read ends: SuperVersionUnrefHandle drops the
\* cached pointer.
ThreadExit(r) ==
    /\ rd[r].pc = "Idle" /\ todo.reads[r] = <<>> /\ local_sv[r] > 0
    /\ sv' = Unref(local_sv[r])
    /\ local_sv' = [local_sv EXCEPT ![r] = kSVObsolete]
    /\ UNCHANGED <<mutex, data, files, install, rd, job, todo>>

----------------------------------------------------------------------------
\* Flush and compaction.

\* BackgroundCallFlush up to PickMemTable
StartFlush ==
    /\ mutex = Null /\ job["flush"].pc = "Idle"
    /\ imm # {} /\ Len(tables) < todo.maxFiles
    /\ tables' = Append(tables, {})
    /\ job' = [job EXCEPT !["flush"] =
                [NewJob EXCEPT !.pc = "Write", !.input = imm, !.version = current,
                               !.snapshots = snapshots, !.file = Len(tables) + 1,
                               !.pending = Len(tables) + 1]]
    /\ UNCHANGED <<mutex, data, current, disk, obsolete_files, grabbed, sv, local_sv, install, rd,
                   todo>>

\* BackgroundCallCompaction up to Run, all files of the current Version picked
StartCompaction ==
    /\ mutex = Null /\ job["compaction"].pc = "Idle"
    /\ current # {} /\ Len(tables) < todo.maxFiles
    /\ job' = [job EXCEPT !["compaction"] =
                [NewJob EXCEPT !.pc = "Write", !.input = current, !.version = current,
                               !.snapshots = snapshots, !.pending = Len(tables) + 1]]
    /\ UNCHANGED <<mutex, data, files, sv, local_sv, install, rd, todo>>

\* CompactionIterator: of the entries es the newest that each snapshot sees, and
\* the newest of all.
Compacted(es, snaps) ==
    {e \in es : \/ \A d \in es : d <= e
                \/ \E s \in snaps : e <= s /\ \A d \in es : d <= s => d <= e}

\* BuildTable and CompactionJob::Run, which takes its file number only now
WriteTable(k) ==
    LET j == job[k]
        es == UNION IF k = "flush" THEN {memtables[m] : m \in j.input}
                                   ELSE {tables[f] : f \in j.input}
        file == IF k = "flush" THEN j.file ELSE Len(tables) + 1
    IN  /\ j.pc = "Write" /\ file <= todo.maxFiles
        /\ tables' = [f \in DOMAIN tables \cup {file} |->
                        IF f = file THEN Compacted(es, j.snapshots) ELSE tables[f]]
        /\ disk' = disk \cup {file}
        /\ job' = [job EXCEPT ![k].pc = "Commit", ![k].file = file]
        /\ UNCHANGED <<mutex, data, current, obsolete_files, grabbed, sv, local_sv, install, rd,
                       todo>>

\* The table is installed (InstallMemtableFlushResults, CompactionJob::Install)
\* and then a super version with it.  A flush gives up its Version before that.
Commit(k) ==
    LET j == job[k] IN
    /\ j.pc = "Commit" /\ mutex = Null
    /\ current' = {j.file} \cup IF k = "flush" THEN current ELSE current \ j.input
    /\ UNCHANGED <<memtables, mem>>
    /\ imm' = IF k = "flush" THEN imm \ j.input ELSE imm
    /\ job' = [job EXCEPT ![k].pc = "Finish", ![k].version = IF k = "flush" THEN {} ELSE @]
    /\ InstallSuperVersion(k)
    /\ DropVersions
    /\ UNCHANGED <<last_sequence, snapshots, tables, disk, grabbed, local_sv, rd, todo>>

\* The table or the MANIFEST could not be written: the file may be left behind.
Fail(k) ==
    /\ job[k].pc = "Commit" /\ mutex = Null
    /\ todo.maxFailures > 0
    /\ todo' = [todo EXCEPT !.maxFailures = @ - 1]
    /\ disk' \in {disk, disk \ {job[k].file}}
    /\ job' = [job EXCEPT ![k].pc = "Finish", ![k].version = {}, ![k].ok = FALSE]
    /\ UNCHANGED <<current, sv>>
    /\ DropVersions
    /\ UNCHANGED <<mutex, data, tables, grabbed, local_sv, install, rd>>

\* The end of BackgroundCallFlush and BackgroundCallCompaction.  All files are
\* scanned after a failure, and now and then.
Finish(k) ==
    LET live == LiveFiles(current, sv, [job EXCEPT ![k].version = {}])
        obsolete == obsolete_files \cup (LiveFiles(current, sv, job) \ live)
        pending == {job[o].pending : o \in Job \ {k}} \ {0}
    IN  /\ job[k].pc = "Finish" /\ install = NoInstall
        /\ mutex = IF job[k].ok THEN k ELSE Null
        /\ mutex' = Null
        /\ \E full \in IF job[k].ok THEN BOOLEAN ELSE {TRUE} :
            LET found == FindObsoleteFiles(obsolete, live, pending, full)
            IN  job' = [job EXCEPT ![k] = IF found = {} THEN NewJob
                                          ELSE [NewJob EXCEPT !.pc = "Purge", !.purge = found]]
        /\ obsolete_files' = KeepPending(obsolete, pending)
        /\ grabbed' = grabbed \cup (obsolete \ KeepPending(obsolete, pending))
        /\ UNCHANGED <<data, tables, current, disk, sv, local_sv, install, rd, todo>>

PurgeAfterJob(k) ==
    /\ job[k].pc = "Purge"
    /\ Purge(job[k].purge)
    /\ job' = [job EXCEPT ![k] = NewJob]
    /\ UNCHANGED rd

----------------------------------------------------------------------------
Next ==
    \/ Write \/ GetSnapshot \/ ReleaseSnapshot \/ SwitchMemtable
    \/ (\E r \in Reader : Scrape(r)) \/ UnrefScraped \/ UnrefOld
    \/ \E r \in Reader :
        \/ NewIterator(r) \/ Get(r) \/ SwapForIterator(r) \/ CheckVersionNumber(r)
        \/ Acquire(r) \/ GetImpl(r) \/ ReturnFromGet(r) \/ ReturnFromNewIterator(r)
        \/ MultiGet(r) \/ EndMultiGet(r) \/ CleanupSuperVersion(r) \/ UnrefIterator(r)
        \/ CleanupIteratorState(r) \/ PurgeAfterIterator(r) \/ ThreadExit(r)
    \/ StartFlush \/ StartCompaction
    \/ \E k \in Job : WriteTable(k) \/ Commit(k) \/ Fail(k) \/ Finish(k) \/ PurgeAfterJob(k)

Spec == Init /\ [][Next]_vars

----------------------------------------------------------------------------
\* Properties.

TypeOK ==
    /\ mutex \in {Null, "writer"} \cup Job
    /\ last_sequence \in 0..todo.maxSequence
    /\ snapshots \subseteq 0..todo.maxSequence
    /\ mem = Len(memtables) /\ imm \subseteq 1..(mem - 1)
    /\ Len(tables) <= todo.maxFiles
    /\ current \cup disk \cup obsolete_files \cup grabbed \subseteq DOMAIN tables
    /\ \A n \in DOMAIN sv : sv[n].refs \in Nat
    /\ local_sv \in [Reader -> {kSVObsolete, kSVInUse} \cup DOMAIN sv]
    /\ todo \in Workload

\* Reader r has a reference to super version n.
Holds(r, n) ==
    rd[r].sv = n /\ rd[r].pc \in {"Check", "Snapshot", "Return", "Release"}

Cached(n) ==
    Cardinality({r \in Reader : local_sv[r] = n})
        + Cardinality({p \in install.scraped : p[2] = n})

\* The reader that dropped the last reference to n and has yet to clean it up
Cleaning(r, n) ==
    /\ rd[r].sv = n
    /\ rd[r].pc \in {"Cleanup", "IterCleanup"} \/ (rd[r].pc = "Acquire" /\ rd[r].last)

\* The reference count of a super version is at all times the number of those who
\* hold it: super_version_ (or the InstallSuperVersion that replaces it), caches
\* and readers.  It is deleted once and only when there are none, and always:
\* whoever dropped the last reference does it.
RefsCountHolders ==
    \A n \in DOMAIN sv :
        LET owner == IF n \in {Len(sv), install.old} THEN 1 ELSE 0
            cleaners == {r \in Reader : Cleaning(r, n)}
        IN  /\ sv[n].refs = owner + Cached(n) + Cardinality({r \in Reader : Holds(r, n)})
            /\ Cardinality(cleaners) <= 1
            /\ sv[n].freed <=> (sv[n].refs = 0 /\ cleaners = {})

\* "local_sv_ never holds the last reference to SuperVersion, since it has no means
\* to safely do SuperVersion cleanup": neither a thread that exits nor
\* ResetThreadLocalSuperVersions ever drops the last one.
LocalNeverLast ==
    \A n \in DOMAIN sv : Cached(n) > 0 => sv[n].refs > Cached(n)

\* Nothing is deleted under a user: a super version that a reader holds is not
\* freed, and every file of a Version in use, and the finished output of a job, is on
\* disk, whatever scans and purges run.
NothingFreedInUse ==
    /\ \A r \in Reader : \A n \in DOMAIN sv : Holds(r, n) => ~sv[n].freed
    /\ LiveFiles(current, sv, job) \subseteq disk
    /\ \A k \in Job : job[k].pc = "Commit" => job[k].file \in disk

HasRead(r) ==
    \/ rd[r].op.kind = "Get" /\ rd[r].pc = "Return"
    \/ rd[r].op.kind # "Get" /\ rd[r].pc = "Release"

\* A read with a snapshot finds what was newest when the snapshot was taken, however
\* many flushes and compactions have been there since.  A Get or MultiGet
\* without one finds at least everything that had been written when it began.
ReadsCorrect ==
    \A r \in {r \in Reader : rd[r].pc # "Idle" /\ HasRead(r)} :
        IF rd[r].op.snapshot THEN rd[r].value = rd[r].snapshot
        ELSE rd[r].op.kind # "NewIterator" => rd[r].value >= rd[r].start

\* An iterator that was not given a snapshot shows the state as of the sequence
\* number it took when it was made.
IteratorsConsistent ==
    \A r \in {r \in Reader : rd[r].pc # "Idle" /\ HasRead(r)} :
        rd[r].op.kind = "NewIterator" => rd[r].value = rd[r].snapshot

============================================================================
