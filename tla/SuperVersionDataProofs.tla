---------------------- MODULE SuperVersionDataProofs -----------------------
(***************************************************************************)
(* Every step keeps the invariants of the files and of the views, given    *)
(* the types and the reference counts.                                     *)
(*                                                                         *)
(* First the files: whatever is in use is on disk. Then the views: reads   *)
(* find what they must.                                                    *)
(***************************************************************************)
EXTENDS SuperVersionInvariant

\* Most leaves are for Zenon; those that need arithmetic or sequences name SMT.
USE Zenon

(***************************************************************************)
(* FInv is the conjunction of its parts, now and in the next state.        *)
(***************************************************************************)
LEMMA Files ==
    /\ FInv <=> /\ LiveSafe /\ OutputsSafe /\ JobsOrdered
    /\ FInv' <=> /\ LiveSafe' /\ OutputsSafe' /\ JobsOrdered'
BY DEF FInv

(***************************************************************************)
(* Live files, and files to be deleted, have been numbered.                *)
(***************************************************************************)
LEMMA LiveIsTable == ASSUME TInv, NEW f, LiveFile(f) \/ Marked(f) PROVE f \in DOMAIN tables
<1>1. LiveFile(f) => f \in DOMAIN tables
  BY LiveType DEF LiveFile
<1>2. Marked(f) => f \in DOMAIN tables
  BY JobFields, ReaderFields, Types DEF Marked, FileTypes
<1> QED BY <1>1, <1>2

(***************************************************************************)
(* LiveMember for the present state,                                       *)
(***************************************************************************)
LEMMA LiveFileMember ==
    ASSUME NEW f
    PROVE  LiveFile(f) <=> \/ f \in current
                           \/ \E n \in DOMAIN sv : ~sv[n].freed /\ f \in sv[n].files
                           \/ \E k \in Job : f \in job[k].version
BY LiveMember DEF LiveFile

(***************************************************************************)
(* and for the next one.                                                   *)
(***************************************************************************)
LEMMA LiveFileMemberPrime ==
    ASSUME NEW f
    PROVE  LiveFile(f)' <=> \/ f \in current'
                            \/ \E n \in DOMAIN sv' : ~sv'[n].freed /\ f \in sv'[n].files
                            \/ \E k \in Job : f \in job'[k].version
<1>1. PICK cur, svs, jobs : cur = current' /\ svs = sv' /\ jobs = job'
  OBVIOUS
<1>2. LiveFile(f)' <=> f \in LiveFiles(cur, svs, jobs)
  BY <1>1 DEF LiveFile, LiveFiles, Job
<1>3. f \in LiveFiles(cur, svs, jobs) <=>
          \/ f \in cur
          \/ \E n \in DOMAIN svs : ~svs[n].freed /\ f \in svs[n].files
          \/ \E k \in Job : f \in jobs[k].version
  BY LiveMember
<1> QED BY <1>1, <1>2, <1>3

(***************************************************************************)
(* When a step keeps the invariant of the files: it makes no file live     *)
(* that was not, marks for deletion only files that nothing refers to and  *)
(* that are below what a running job has reserved, deletes only marked     *)
(* files, and a job that gets a file number gets a new one.                *)
(***************************************************************************)
LEMMA FilesStep ==
    ASSUME TInv, TInv', FInv,
           \A f : LiveFile(f)' => LiveFile(f),
           \A f : Marked(f)' =>
              Marked(f) \/ (~LiveFile(f)' /\ (LiveFile(f)
                                \/ \A k \in Job : Active(k)' => f < job'[k].pending)),
           DOMAIN tables \subseteq DOMAIN tables',
           \A f \in disk \ disk' :
              ~LiveFile(f)' /\ \A k \in Job : job'[k].pc = "Commit" => f # job'[k].file,
           \A k \in Job : Active(k)' =>
              \/ Active(k) /\ job'[k].file = job[k].file /\ job'[k].pending = job[k].pending
              \/ job'[k].file \notin DOMAIN tables /\ job'[k].file >= job'[k].pending,
           \A k, o \in Job : Active(k)' /\ Active(o)' /\ k # o =>
              (Active(k) /\ job'[k].file = job[k].file) \/
                (Active(o) /\ job'[o].file = job[o].file),
           \A k \in Job :
              /\ job'[k].pc = "Commit" => (job[k].pc = "Commit" /\ job'[k].file = job[k].file)
                                             \/ job'[k].file \in disk'
              /\ job'[k].pc \in {"Write", "Commit"} => job'[k].pending # 0
              /\ job'[k].pc = "Write" => job'[k].pending <= Len(tables') + 1
    PROVE  FInv'
<1>1. \A f \in DOMAIN tables' : LiveFile(f)' => f \in disk' /\ ~Marked(f)'
  <2> SUFFICES ASSUME NEW f, LiveFile(f)' PROVE f \in disk' /\ ~Marked(f)'
    OBVIOUS
  <2>1. LiveFile(f) /\ f \in DOMAIN tables
    BY LiveIsTable
  <2>2. f \in disk /\ ~Marked(f)
    BY <2>1, Files DEF LiveSafe, OutputsSafe, JobsOrdered
  <2> QED BY <2>2
<1>2. ASSUME NEW k \in Job, Active(k)'
      PROVE  ~LiveFile(job'[k].file) /\ ~Marked(job'[k].file) /\ job'[k].file >= job'[k].pending
  <2>1. CASE Active(k) /\ job'[k].file = job[k].file /\ job'[k].pending = job[k].pending
    BY <2>1, Files DEF LiveSafe, OutputsSafe, JobsOrdered
  <2>2. CASE job'[k].file \notin DOMAIN tables /\ job'[k].file >= job'[k].pending
    BY <2>2, LiveIsTable
  <2> QED BY <1>2, <2>1, <2>2
<1>3. ASSUME NEW k \in Job, Active(k)', NEW f, f = job'[k].file
      PROVE  ~LiveFile(f)' /\ ~Marked(f)'
  <2>1. ~LiveFile(f) /\ ~Marked(f) /\ f >= job'[k].pending
    BY <1>2, <1>3
  <2>2. f \in Nat /\ job'[k].pending \in Nat
    <3>1. job' \in [Job -> JobState]
      BY Constants, Types DEF JobTypes
    <3>2. job'[k] \in JobState
      BY <3>1
    <3> QED BY <1>3, <3>2 DEF JobState
  <2>3. ~(f < job'[k].pending)
    BY SMT, <2>1, <2>2
  <2> QED BY <1>3, <2>1, <2>3
<1>4. ASSUME NEW k \in Job, Active(k)', NEW o \in Job \ {k}, Active(o)'
      PROVE  job'[k].file # job'[o].file
  <2>1. \A i \in Job : Active(i) => job[i].file \in DOMAIN tables
    BY JobFields DEF Active
  <2>2. \A i \in Job : Active(i)' => (Active(i) /\ job'[i].file = job[i].file)
                                       \/ job'[i].file \notin DOMAIN tables
    OBVIOUS
  <2>3. Active(k) /\ Active(o) => job[k].file # job[o].file
    BY Files DEF LiveSafe, OutputsSafe, JobsOrdered
  <2>4. (Active(k) /\ job'[k].file = job[k].file) \/ (Active(o) /\ job'[o].file = job[o].file)
    BY <1>4
  <2> QED BY <1>4, <2>1, <2>2, <2>3, <2>4
<1>5. \A k \in Job : job'[k].pc = "Commit" => job'[k].file \in disk'
  BY Files DEF LiveSafe, OutputsSafe, JobsOrdered
<1>6. Job' = Job
  BY Constants
<1>7. ASSUME NEW k \in Job, Active(k)'
      PROVE  ~LiveFile(job[k].file)' /\ ~Marked(job[k].file)'
  <2>1. PICK f : f = job'[k].file
    OBVIOUS
  <2>2. ~LiveFile(f)' /\ ~Marked(f)'
    BY <1>3, <1>7, <2>1
  <2>3. LiveFile(job[k].file)' <=> LiveFile(f)'
    BY <2>1 DEF LiveFile
  <2>4. Marked(job[k].file)' <=> Marked(f)'
    BY <2>1 DEF Marked
  <2> QED BY <2>2, <2>3, <2>4
<1> QED BY <1>1, <1>2, <1>4, <1>5, <1>6, <1>7, Files DEF LiveSafe, OutputsSafe, JobsOrdered

(***************************************************************************)
(* A step of no job.                                                       *)
(***************************************************************************)
LEMMA FilesQuiet ==
    ASSUME TInv, TInv', FInv, UNCHANGED <<tables, job>>,
           \A f : LiveFile(f)' => LiveFile(f),
           \A f : Marked(f)' =>
              Marked(f) \/ (~LiveFile(f)' /\ (LiveFile(f)
                                \/ \A k \in Job : Active(k) => f < job[k].pending)),
           \A f \in disk \ disk' : Marked(f)
    PROVE  FInv'
<1>1. \A k \in Job : Active(k)' <=> Active(k)
  BY DEF Active
<1>2. \A f \in disk \ disk' : ~LiveFile(f)' /\
          \A k \in Job : job'[k].pc = "Commit" => f # job'[k].file
  BY LiveIsTable, Files DEF LiveSafe, OutputsSafe, JobsOrdered, Active
<1>3. \A k \in Job :
              /\ job'[k].pc = "Commit" => (job[k].pc = "Commit" /\ job'[k].file = job[k].file)
                                             \/ job'[k].file \in disk'
              /\ job'[k].pc \in {"Write", "Commit"} => job'[k].pending # 0
              /\ job'[k].pc = "Write" => job'[k].pending <= Len(tables') + 1
  BY Files DEF LiveSafe, OutputsSafe, JobsOrdered
<1> QED BY <1>1, <1>2, <1>3, FilesStep

\* Super versions svs instead of sv: some may have been deleted.
Shrunk(svs) ==
    /\ DOMAIN svs = DOMAIN sv
    /\ \A m \in DOMAIN sv :
        /\ svs[m].mem = sv[m].mem /\ svs[m].imm = sv[m].imm /\ svs[m].files = sv[m].files
        /\ sv[m].freed => svs[m].freed

(***************************************************************************)
(* The operators on super versions change neither memtables nor files, and *)
(* bring none back.                                                        *)
(***************************************************************************)
LEMMA ViewOps ==
    ASSUME TInv, NEW n, NEW c, NEW svs,
           svs \in {sv, Ref(n), Unref(n), Cleanup(sv, c), Cleanup(Ref(n), c), Cleanup(Unref(n), c)}
    PROVE  Shrunk(svs)
<1>1. \A m \in DOMAIN sv : sv[m] \in SuperVersions
  BY SMT, Types DEF ViewTypes
<1>2. PICK mid \in {sv, Ref(n), Unref(n)} : svs \in {mid, Cleanup(mid, c)}
  OBVIOUS
<1>3. /\ DOMAIN mid = DOMAIN sv
      /\ \A m \in DOMAIN sv : mid[m] \in {sv[m], [sv[m] EXCEPT !.refs = sv[m].refs + 1],
                                         [sv[m] EXCEPT !.refs = sv[m].refs - 1]}
  BY DEF Ref, Unref
<1>4. /\ DOMAIN svs = DOMAIN sv
      /\ \A m \in DOMAIN sv : svs[m] \in {mid[m], [mid[m] EXCEPT !.freed = TRUE]}
  BY <1>2, <1>3 DEF Cleanup
<1>5. ASSUME NEW m \in DOMAIN sv
      PROVE  /\ svs[m].mem = sv[m].mem /\ svs[m].imm = sv[m].imm /\ svs[m].files = sv[m].files
             /\ sv[m].freed => svs[m].freed
  <2>1. /\ mid[m] \in SuperVersions /\ mid[m].mem = sv[m].mem /\ mid[m].imm = sv[m].imm
        /\ mid[m].files = sv[m].files /\ mid[m].freed = sv[m].freed
    BY SMT, <1>1, <1>3 DEF SuperVersions
  <2>2. LET new == [mid[m] EXCEPT !.freed = TRUE]
        IN  new.mem = mid[m].mem /\ new.imm = mid[m].imm /\ new.files = mid[m].files /\
              new.freed = TRUE
    BY <2>1 DEF SuperVersions
  <2>3. svs[m] = mid[m] \/ svs[m] = [mid[m] EXCEPT !.freed = TRUE]
    BY <1>4
  <2> QED BY <2>1, <2>2, <2>3
<1> QED BY <1>4, <1>5 DEF Shrunk

(***************************************************************************)
(* When super versions are deleted files can only stop being live.         *)
(***************************************************************************)
LEMMA LiveShrinks ==
    ASSUME UNCHANGED <<current, job>>, Shrunk(sv'), NEW f, LiveFile(f)' PROVE LiveFile(f)
<1>1. \/ f \in current
      \/ \E n \in DOMAIN sv : ~sv'[n].freed /\ f \in sv'[n].files
      \/ \E k \in Job : f \in job[k].version
  BY LiveFileMemberPrime DEF Shrunk
<1>2. \/ f \in current
      \/ \E n \in DOMAIN sv : ~sv[n].freed /\ f \in sv[n].files
      \/ \E k \in Job : f \in job[k].version
  BY <1>1 DEF Shrunk
<1> QED BY <1>2, LiveFileMember

(***************************************************************************)
(* A file becomes obsolete when the last Version with it goes.             *)
(***************************************************************************)
LEMMA Dropped ==
    ASSUME DropVersions, NEW f \in obsolete_files'
    PROVE  f \in obsolete_files \/ (LiveFile(f) /\ ~LiveFile(f)')
<1>1. PICK live : live = LiveFiles(current', sv', job')
  OBVIOUS
<1>2. LiveFile(f)' <=> f \in live
  BY <1>1 DEF LiveFile, LiveFiles, Job
<1> QED BY <1>1, <1>2 DEF DropVersions, LiveFile

(***************************************************************************)
(* A step in which nothing is found to delete.                             *)
(***************************************************************************)
LEMMA QuietFiles ==
    ASSUME TInv, TInv', FInv, UNCHANGED <<tables, current, job>>, disk' = disk, Shrunk(sv'),
           obsolete_files' = obsolete_files \/ DropVersions,
           \A q \in Reader : rd'[q].purge \subseteq rd[q].purge
    PROVE  FInv'
<1>1. \A f : LiveFile(f)' => LiveFile(f)
  BY LiveShrinks
<1>2. ASSUME NEW f, Marked(f)' PROVE Marked(f) \/ (LiveFile(f) /\ ~LiveFile(f)')
  <2>1. CASE f \in obsolete_files'
    BY <2>1, Dropped DEF Marked
  <2>2. CASE f \notin obsolete_files'
    BY <1>2, <2>2 DEF Marked, Job
  <2> QED BY <2>1, <2>2
<1> QED BY <1>1, <1>2, FilesQuiet

(***************************************************************************)
(* Reads leave data, jobs and files on disk alone.                         *)
(***************************************************************************)
LEMMA ReaderFiles ==
    ASSUME TInv, NEW r \in Reader,
           \/ NewIterator(r) \/ Get(r) \/ SwapForIterator(r) \/ CheckVersionNumber(r)
           \/ Acquire(r) \/ GetImpl(r) \/ ReturnFromGet(r) \/ ReturnFromNewIterator(r)
           \/ MultiGet(r) \/ EndMultiGet(r) \/ CleanupSuperVersion(r) \/ UnrefIterator(r)
           \/ ThreadExit(r)
    PROVE  /\ UNCHANGED <<last_sequence, snapshots, memtables, mem, imm>>
           /\ UNCHANGED <<tables, current, job>> /\ disk' = disk /\ Shrunk(sv')
           /\ obsolete_files' = obsolete_files \/ DropVersions
           /\ \A q \in Reader : rd'[q].purge \subseteq rd[q].purge
<1>1. rd \in [Reader -> ReaderState] /\ rd[r] \in ReaderState
  BY Types DEF ThreadTypes
<1>2. \A d : rd' = [rd EXCEPT ![r] = d] /\ d.purge \subseteq rd[r].purge
          => \A q \in Reader : rd'[q].purge \subseteq rd[q].purge
  BY <1>1
<1>3. /\ \A p : [rd[r] EXCEPT !.pc = p].purge = rd[r].purge
      /\ \A p, l : [rd[r] EXCEPT !.pc = p, !.last = l].purge = rd[r].purge
      /\ \A p, l, n : [rd[r] EXCEPT !.pc = p, !.sv = n, !.last = l].purge = rd[r].purge
      /\ \A p, n : [rd[r] EXCEPT !.pc = p, !.sv = n].purge = rd[r].purge
      /\ \A p, s, v : [rd[r] EXCEPT !.pc = p, !.snapshot = s, !.value = v].purge = rd[r].purge
      /\ \A p, v : [rd[r] EXCEPT !.pc = p, !.value = v].purge = rd[r].purge
  BY <1>1 DEF ReaderState
<1>4. NewReader.purge = {}
  BY NewReaderType
<1>5. ASSUME NEW kind, Call(r, kind), NEW e \in Requests(r)
      PROVE  /\ \A p : [e EXCEPT !.pc = p].purge = {}
             /\ \A p, n : [e EXCEPT !.pc = p, !.sv = n].purge = {}
             /\ \A p, n, v : [e EXCEPT !.pc = p, !.sv = n, !.value = v].purge = {}
  <2>1. e \in ReaderState /\ e.purge = {}
    BY <1>5, RequestTypes DEF Call
  <2> QED BY <2>1 DEF ReaderState
<1> HIDE DEF ReaderState
<1>6. CASE NewIterator(r)
  <2>1. PICK e \in Requests(r) : rd' = [rd EXCEPT ![r] = [e EXCEPT !.pc = "Swap"]]
    BY <1>6 DEF NewIterator
  <2>2. [e EXCEPT !.pc = "Swap"].purge = {}
    BY <1>5, <1>6 DEF NewIterator
  <2>3. \A q \in Reader : rd'[q].purge \subseteq rd[q].purge
    BY <2>1, <2>2, <1>2
  <2>4. Shrunk(sv')
    BY <1>6, ViewOps DEF NewIterator
  <2> QED BY <2>3, <2>4, <1>6 DEF NewIterator, data, files
<1>7. CASE Get(r)
  <2>1. PICK e \in Requests(r) : rd' = [rd EXCEPT ![r] = [e EXCEPT !.pc = "Check",
                 !.sv = local_sv[r]]]
    BY <1>7 DEF Get, SwapLocal
  <2>2. [e EXCEPT !.pc = "Check", !.sv = local_sv[r]].purge = {}
    BY <1>5, <1>7 DEF Get
  <2>3. \A q \in Reader : rd'[q].purge \subseteq rd[q].purge
    BY <2>1, <2>2, <1>2
  <2>4. Shrunk(sv')
    BY <1>7, ViewOps DEF Get
  <2> QED BY <2>3, <2>4, <1>7 DEF Get, data, files
<1>8. CASE SwapForIterator(r)
  <2>1. \A q \in Reader : rd'[q].purge \subseteq rd[q].purge
    BY SMT, <1>8, <1>2, <1>3 DEF SwapForIterator, SwapLocal
  <2>2. Shrunk(sv')
    BY <1>8, ViewOps DEF SwapForIterator
  <2> QED BY <2>1, <2>2, <1>8 DEF SwapForIterator, data, files
<1>9. CASE CheckVersionNumber(r)
  <2>1. \A q \in Reader : rd'[q].purge \subseteq rd[q].purge
    <3> DEFINE b == rd[r].sv # kSVObsolete /\ IsLast(rd[r].sv)
    <3>1. \/ rd' = [rd EXCEPT ![r] = [rd[r] EXCEPT !.pc = AfterAcquire(r)]]
          \/ rd' = [rd EXCEPT ![r] = [rd[r] EXCEPT !.pc = "Acquire", !.last = b]]
      BY <1>9 DEF CheckVersionNumber
    <3>2. /\ [rd[r] EXCEPT !.pc = AfterAcquire(r)].purge \subseteq rd[r].purge
          /\ [rd[r] EXCEPT !.pc = "Acquire", !.last = b].purge \subseteq rd[r].purge
      BY <1>1 DEF ReaderState
    <3> QED BY <3>1, <3>2, <1>2
  <2>2. Shrunk(sv')
    BY SMTT(30), <1>9, ViewOps DEF CheckVersionNumber
  <2> QED BY <2>1, <2>2, <1>9 DEF CheckVersionNumber, data, files
<1>10. CASE Acquire(r)
  <2>1. \A q \in Reader : rd'[q].purge \subseteq rd[q].purge
    BY SMT, <1>10, <1>1, <1>3 DEF Acquire
  <2>2. Shrunk(sv')
    BY <1>10, ViewOps DEF Acquire
  <2> QED BY <2>1, <2>2, <1>10 DEF Acquire, data
<1>11. CASE GetImpl(r)
  <2>1. \A q \in Reader : rd'[q].purge \subseteq rd[q].purge
    BY SMT, <1>11, <1>1, <1>3 DEF GetImpl
  <2>2. Shrunk(sv')
    BY <1>11, ViewOps DEF GetImpl
  <2> QED BY <2>1, <2>2, <1>11 DEF GetImpl, data, files
<1>12. CASE ReturnFromGet(r)
  <2>1. \A q \in Reader : rd'[q].purge \subseteq rd[q].purge
    BY <1>12, <1>1, <1>3, <1>4 DEF ReturnFromGet
  <2>2. Shrunk(sv')
    BY <1>12, ViewOps DEF ReturnFromGet
  <2> QED BY <2>1, <2>2, <1>12 DEF ReturnFromGet, data, files
<1>13. CASE ReturnFromNewIterator(r)
  <2>1. \A q \in Reader : rd'[q].purge \subseteq rd[q].purge
    BY SMT, <1>13, <1>1, <1>3 DEF ReturnFromNewIterator
  <2>2. Shrunk(sv')
    BY <1>13, ViewOps DEF ReturnFromNewIterator
  <2> QED BY <2>1, <2>2, <1>13 DEF ReturnFromNewIterator, data, files
<1>14. CASE MultiGet(r)
  <2>1. PICK e \in Requests(r) :
            rd' = [rd EXCEPT ![r] = [e EXCEPT !.pc = "Release", !.sv = Len(sv),
                                              !.value = Lookup(Len(sv), e.snapshot)]]
    BY <1>14 DEF MultiGet
  <2>2. [e EXCEPT !.pc = "Release", !.sv = Len(sv), !.value = Lookup(Len(sv),
            e.snapshot)].purge = {}
    BY <1>5, <1>14 DEF MultiGet
  <2>3. \A q \in Reader : rd'[q].purge \subseteq rd[q].purge
    BY <2>1, <2>2, <1>2
  <2>4. Shrunk(sv')
    BY <1>14, ViewOps DEF MultiGet
  <2> QED BY <2>3, <2>4, <1>14 DEF MultiGet, data, files
<1>15. CASE EndMultiGet(r)
  <2>1. \A q \in Reader : rd'[q].purge \subseteq rd[q].purge
    BY <1>15, <1>1, <1>4 DEF EndMultiGet
  <2>2. Shrunk(sv')
    BY <1>15, ViewOps DEF EndMultiGet
  <2> QED BY <2>1, <2>2, <1>15 DEF EndMultiGet, data
<1>16. CASE CleanupSuperVersion(r)
  <2>1. \A q \in Reader : rd'[q].purge \subseteq rd[q].purge
    BY <1>16, <1>1, <1>4 DEF CleanupSuperVersion
  <2>2. Shrunk(sv')
    BY <1>16, ViewOps DEF CleanupSuperVersion
  <2> QED BY <2>1, <2>2, <1>16 DEF CleanupSuperVersion, data
<1>17. CASE UnrefIterator(r)
  <2>1. \A q \in Reader : rd'[q].purge \subseteq rd[q].purge
    BY <1>17, <1>1, <1>3, <1>4 DEF UnrefIterator
  <2>2. Shrunk(sv')
    BY <1>17, ViewOps DEF UnrefIterator
  <2> QED BY <2>1, <2>2, <1>17 DEF UnrefIterator, data, files
<1>18. CASE ThreadExit(r)
  <2>1. Shrunk(sv')
    BY <1>18, ViewOps DEF ThreadExit
  <2> QED BY <2>1, <1>18 DEF ThreadExit, data, files
<1> QED BY <1>6, <1>7, <1>8, <1>9, <1>10, <1>11, <1>12, <1>13, <1>14, <1>15, <1>16, <1>17, <1>18

(***************************************************************************)
(* What CleanupIteratorState finds is not live, and below every pending    *)
(* output.                                                                 *)
(***************************************************************************)
LEMMA CleanupIteratorFiles ==
    ASSUME TInv, TInv', FInv, NEW r \in Reader, CleanupIteratorState(r) PROVE FInv'
<1>1. PICK svs : svs = sv'
  OBVIOUS
<1> DEFINE live == LiveFiles(current, svs, job)
           obsolete == obsolete_files \cup (LiveFiles(current, sv, job) \ live)
           found == FindObsoleteFiles(obsolete, live, Pending, FALSE)
           d == IF found = {} THEN NewReader ELSE [rd[r] EXCEPT !.pc = "Purge", !.purge = found]
<1>2. /\ rd' = [rd EXCEPT ![r] = d] /\ svs = Cleanup(sv, rd[r].sv)
      /\ UNCHANGED <<tables, current, job>> /\ disk' = disk
      /\ obsolete_files' = KeepPending(obsolete, Pending)
  BY <1>1 DEF CleanupIteratorState
<1>3. \A f : LiveFile(f)' <=> f \in live
  BY <1>1, <1>2 DEF LiveFile, LiveFiles, Job
<1>4. \A f : LiveFile(f)' => LiveFile(f)
  <2>1. Shrunk(svs)
    BY <1>2, ViewOps
  <2> QED BY <1>1, <1>2, <2>1, LiveShrinks
<1>5. \A f \in obsolete_files' : Marked(f) \/ (~LiveFile(f)' /\ LiveFile(f))
  BY <1>2, <1>3 DEF KeepPending, Marked, LiveFile
<1>6. ASSUME NEW f \in found
      PROVE  ~LiveFile(f)' /\ \A k \in Job : Active(k) => f < job[k].pending
  <2>1. f \notin live /\ \A p \in Pending : f < p
    BY DEF FindObsoleteFiles
  <2>2. \A k \in Job : Active(k) => job[k].pending \in Pending
    BY Files DEF LiveSafe, OutputsSafe, JobsOrdered, Pending, Active
  <2> QED BY <1>3, <2>1, <2>2
<1>7. d.purge \subseteq found
  <2>1. rd[r] \in ReaderState
    BY ReaderFields
  <2> HIDE DEF found
  <2> QED BY <2>1, NewReaderType DEF ReaderState
<1>8. ASSUME NEW f, Marked(f)'
      PROVE  Marked(f) \/ (~LiveFile(f)' /\
        (LiveFile(f) \/ \A k \in Job : Active(k) => f < job[k].pending))
  <2>1. rd \in [Reader -> ReaderState]
    BY Types DEF ThreadTypes
  <2> HIDE DEF found, d
  <2>2. f \in obsolete_files' \/ (\E q \in Reader : f \in rd'[q].purge) \/
            \E k \in Job : f \in job[k].purge
    BY <1>2, <1>8 DEF Marked, Job
  <2>3. f \in obsolete_files' \/ (\E q \in Reader : f \in rd[q].purge) \/ f \in found
          \/ \E k \in Job : f \in job[k].purge
    BY <1>2, <1>7, <2>1, <2>2
  <2>4. f \in obsolete_files' \/ Marked(f) \/ f \in found
    BY <2>3 DEF Marked
  <2> QED BY <1>5, <1>6, <2>4
<1>9. \A f \in disk \ disk' : Marked(f)
  BY <1>2
<1> HIDE DEF found, d, live, obsolete
<1> QED BY <1>2, <1>4, <1>8, <1>9, FilesQuiet

(***************************************************************************)
(* PurgeObsoleteFiles deletes what was found before mutex_ was released:   *)
(* it was not live then, and cannot have become live since.                *)
(***************************************************************************)
LEMMA PurgeIteratorFiles ==
    ASSUME TInv, TInv', FInv, NEW r \in Reader, PurgeAfterIterator(r) PROVE FInv'
<1>1. /\ disk' = disk \ rd[r].purge /\ rd' = [rd EXCEPT ![r] = NewReader]
      /\ UNCHANGED <<tables, current, job, obsolete_files, sv>> /\ UNCHANGED <<tables, job>>
  BY DEF PurgeAfterIterator, Purge
<1>2. \A f : LiveFile(f)' <=> LiveFile(f)
  BY SMT, <1>1 DEF LiveFile, LiveFiles, Job
<1>3. ASSUME NEW f, Marked(f)' PROVE Marked(f)
  <2>1. rd \in [Reader -> ReaderState] /\ NewReader.purge = {}
    BY NewReaderType, Types DEF ThreadTypes
  <2> QED BY <1>1, <1>3, <2>1 DEF Marked, Job
<1>4. \A f \in disk \ disk' : Marked(f)
  BY <1>1 DEF Marked
<1> QED BY <1>1, <1>2, <1>3, <1>4, FilesQuiet

(***************************************************************************)
(* Writes, snapshots and the steps of InstallSuperVersion leave jobs and   *)
(* tables alone.                                                           *)
(***************************************************************************)
LEMMA WriterShrinks ==
    ASSUME TInv,
           \/ Write \/ GetSnapshot \/ ReleaseSnapshot \/ UnrefScraped \/ UnrefOld \/ UNCHANGED vars
           \/ \E r \in Reader : Scrape(r)
    PROVE  Shrunk(sv') /\ UNCHANGED <<tables, current, job>> /\ disk' = disk /\ rd' = rd
<1>1. CASE UnrefScraped
  <2>1. \A m \in DOMAIN sv : sv[m] \in SuperVersions
    BY SMT, Types DEF ViewTypes
  <2>2. sv' = [n \in DOMAIN sv |-> [sv[n] EXCEPT !.refs = @ - Cardinality(ScrapedOf(n))]]
    BY <1>1 DEF UnrefScraped, ScrapedOf
  <2>3. ASSUME NEW m \in DOMAIN sv
        PROVE  /\ sv'[m].mem = sv[m].mem /\ sv'[m].imm = sv[m].imm
               /\ sv'[m].files = sv[m].files /\ sv'[m].freed = sv[m].freed
    <3>1. PICK i : i = sv[m].refs - Cardinality(ScrapedOf(m))
      OBVIOUS
    <3>2. sv'[m] = [sv[m] EXCEPT !.refs = i]
      BY <2>2, <3>1
    <3> QED BY <2>1, <3>2 DEF SuperVersions
  <2>4. Shrunk(sv')
    BY <2>2, <2>3 DEF Shrunk
  <2> QED BY <1>1, <2>4 DEF UnrefScraped, files
<1>2. CASE UnrefOld
  <2>1. Shrunk(sv')
    BY <1>2, ViewOps DEF UnrefOld
  <2> QED BY <1>2, <2>1 DEF UnrefOld
<1>3. CASE ~UnrefScraped /\ ~UnrefOld
  <2>1. sv' = sv /\ UNCHANGED <<tables, current, job>> /\ disk' = disk /\ rd' = rd
    BY <1>3 DEF Write, GetSnapshot, ReleaseSnapshot, vars, Scrape, files
  <2> QED BY <2>1, ViewOps
<1> QED BY <1>1, <1>2, <1>3

(***************************************************************************)
(* So they keep the invariant of the files.                                *)
(***************************************************************************)
LEMMA WriterFiles ==
    ASSUME TInv, TInv', FInv,
           \/ Write \/ GetSnapshot \/ ReleaseSnapshot \/ UnrefScraped \/ UnrefOld \/ UNCHANGED vars
           \/ \E r \in Reader : Scrape(r)
    PROVE  FInv'
<1>1. Shrunk(sv') /\ UNCHANGED <<tables, current, job>> /\ disk' = disk /\ rd' = rd
  BY WriterShrinks
<1>2. obsolete_files' = obsolete_files \/ DropVersions
  BY DEF Write, GetSnapshot, ReleaseSnapshot, UnrefScraped, UnrefOld, vars, Scrape, files
<1>3. \A q \in Reader : rd'[q].purge \subseteq rd[q].purge
  BY <1>1
<1> QED BY <1>1, <1>2, <1>3, QuietFiles

(***************************************************************************)
(* The new super version of SwitchMemtable has the files of the current    *)
(* Version.                                                                *)
(***************************************************************************)
LEMMA SwitchFiles == ASSUME TInv, TInv', FInv, SwitchMemtable PROVE FInv'
<1> DEFINE new == [mem |-> mem', imm |-> imm', files |-> current', refs |-> 1, freed |-> FALSE]
<1>1. UNCHANGED <<tables, current, job>> /\ disk' = disk /\ rd' = rd /\
          obsolete_files' = obsolete_files
      /\ sv' = Append(sv, new)
  BY DEF SwitchMemtable, InstallSuperVersion
<1>2. new.files = current /\ sv \in Seq(SuperVersions)
  BY <1>1, Types DEF ViewTypes
<1> HIDE DEF new
<1>3. DOMAIN sv' = DOMAIN sv \cup {Len(sv) + 1} /\ sv'[Len(sv) + 1] = new /\
          \A n \in DOMAIN sv : sv'[n] = sv[n]
  BY SMT, <1>1, <1>2
<1>4. ASSUME NEW f, LiveFile(f)' PROVE LiveFile(f)
  <2>1. \/ f \in current'
        \/ \E n \in DOMAIN sv' : ~sv'[n].freed /\ f \in sv'[n].files
        \/ \E k \in Job : f \in job'[k].version
    BY <1>4, LiveFileMemberPrime
  <2>2. \/ f \in current
        \/ \E n \in DOMAIN sv : ~sv[n].freed /\ f \in sv[n].files
        \/ \E k \in Job : f \in job[k].version
    BY <1>1, <1>2, <1>3, <2>1
  <2> QED BY <2>2, LiveFileMember
<1>5. \A f : Marked(f)' => Marked(f)
  BY <1>1 DEF Marked, Job
<1> QED BY <1>1, <1>4, <1>5, FilesQuiet

(***************************************************************************)
(* A step of one job.                                                      *)
(***************************************************************************)
LEMMA JobChange ==
    ASSUME TInv, NEW k \in Job, NEW j, job' = [job EXCEPT ![k] = j]
    PROVE  job'[k] = j /\ \A o \in Job \ {k} : job'[o] = job[o] /\ (Active(o)' <=> Active(o))
BY Types DEF JobTypes, Active

(***************************************************************************)
(* What a step of job k does to the files of Versions, if the current one  *)
(* stays.                                                                  *)
(***************************************************************************)
LEMMA JobLive ==
    ASSUME TInv, NEW k \in Job, NEW j, job' = [job EXCEPT ![k] = j], UNCHANGED <<current, sv>>,
           NEW f
    PROVE  /\ LiveFile(f)' => LiveFile(f) \/ f \in j.version
           /\ LiveFile(f) => LiveFile(f)' \/ f \in job[k].version
<1>1. LiveFile(f)' <=> \/ f \in current
                       \/ \E n \in DOMAIN sv : ~sv[n].freed /\ f \in sv[n].files
                       \/ \E o \in Job : f \in job'[o].version
  BY LiveFileMemberPrime
<1>2. LiveFile(f) <=> \/ f \in current
                      \/ \E n \in DOMAIN sv : ~sv[n].freed /\ f \in sv[n].files
                      \/ \E o \in Job : f \in job[o].version
  BY LiveFileMember
<1> QED BY SMT, <1>1, <1>2, JobChange

(***************************************************************************)
(* What a step of job k does to the files to be deleted.                   *)
(***************************************************************************)
LEMMA JobMarked ==
    ASSUME TInv, NEW k \in Job, NEW j, job' = [job EXCEPT ![k] = j], rd' = rd, NEW f, Marked(f)'
    PROVE  f \in obsolete_files' \/ f \in j.purge \/ Marked(f)
<1>1. f \in obsolete_files' \/ (\E r \in Reader : f \in rd[r].purge) \/
          \E o \in Job : f \in job'[o].purge
  BY DEF Marked, Job
<1> QED BY SMT, <1>1, JobChange DEF Marked

(***************************************************************************)
(* The numbers of a job with an output are set.                            *)
(***************************************************************************)
LEMMA JobOrder ==
    ASSUME TInv, FInv, NEW k \in Job
    PROVE  /\ job[k].pending \in Nat /\ job[k].file \in Nat
           /\ Active(k) => job[k].file \in DOMAIN tables /\ job[k].pending # 0
<1>1. job[k] \in JobState
  BY JobFields
<1>2. Active(k) => job[k].file \in DOMAIN tables /\ job[k].pending # 0
  BY JobFields, Files DEF LiveSafe, OutputsSafe, JobsOrdered, Active
<1> QED BY <1>1, <1>2 DEF JobState

(***************************************************************************)
(* A flush reserves the next file number, above all files there are.       *)
(***************************************************************************)
LEMMA StartFlushFiles == ASSUME TInv, TInv', FInv, StartFlush PROVE FInv'
<1> DEFINE N == Len(tables) + 1
           j == [NewJob EXCEPT !.pc = "Write", !.input = imm, !.version = current,
                               !.snapshots = snapshots, !.file = N, !.pending = N]
<1>1. /\ tables' = Append(tables, {}) /\ job' = [job EXCEPT !["flush"] = j] /\ rd' = rd
      /\ disk' = disk /\ obsolete_files' = obsolete_files /\ UNCHANGED <<current, sv>>
  BY DEF StartFlush
<1>2. j.pc = "Write" /\ j.version = current /\ j.file = N /\ j.pending = N /\ j.purge = {}
  BY DEF NewJob
<1> HIDE DEF j
<1>3. "flush" \in Job /\ "compaction" \in Job
  BY DEF Job
<1>4. job'["flush"] = j /\ \A o \in Job \ {"flush"} : job'[o] = job[o] /\ (Active(o)' <=> Active(o))
  BY <1>1, <1>3, JobChange
<1>5. tables \in Seq(SUBSET Nat) /\ Len(tables) \in Nat /\ DOMAIN tables = 1 .. Len(tables)
      /\ DOMAIN tables' = 1 .. N /\ Len(tables') = N
  BY SMT, <1>1, Types DEF FileTypes
<1>6. \A f : LiveFile(f)' => LiveFile(f)
  BY <1>1, <1>2, <1>3, JobLive, LiveFileMember
<1>7. \A f : Marked(f)' => Marked(f)
  BY <1>1, <1>2, <1>3, JobMarked DEF Marked
<1>8. \A k \in Job : Active(k)' =>
              \/ Active(k) /\ job'[k].file = job[k].file /\ job'[k].pending = job[k].pending
              \/ job'[k].file \notin DOMAIN tables /\ job'[k].file >= job'[k].pending
  <2>1. N \notin DOMAIN tables /\ N >= N
    BY SMT, <1>5
  <2> QED BY <1>2, <1>4, <2>1
<1>9. \A k, o \in Job : Active(k)' /\ Active(o)' /\ k # o =>
              (Active(k) /\ job'[k].file = job[k].file) \/ (Active(o) /\ job'[o].file = job[o].file)
  BY <1>4
<1>10. ASSUME NEW k \in Job
       PROVE  /\ job'[k].pc = "Commit" => (job[k].pc = "Commit" /\ job'[k].file = job[k].file)
                                             \/ job'[k].file \in disk'
              /\ job'[k].pc \in {"Write", "Commit"} => job'[k].pending # 0
              /\ job'[k].pc = "Write" => job'[k].pending <= Len(tables') + 1
  <2>1. CASE k = "flush"
    <3>1. N # 0 /\ N <= Len(tables') + 1
      BY SMT, <1>5
    <3> QED BY <1>2, <1>4, <2>1, <3>1
  <2>2. CASE k # "flush"
    <3>1. job'[k] = job[k]
      BY <1>4, <2>2
    <3>2. job[k].pc = "Write" => job[k].pending <= Len(tables) + 1
      BY Files DEF LiveSafe, OutputsSafe, JobsOrdered
    <3>3. job[k].pending \in Nat
      BY JobOrder
    <3>4. job[k].pc = "Write" => job[k].pending <= Len(tables') + 1
      BY SMT, <1>5, <3>2, <3>3
    <3>5. job[k].pc \in {"Write", "Commit"} => job[k].pending # 0
      BY Files DEF LiveSafe, OutputsSafe, JobsOrdered
    <3> QED BY <3>1, <3>4, <3>5
  <2> QED BY <2>1, <2>2
<1>11. DOMAIN tables \subseteq DOMAIN tables' /\ disk \ disk' = {}
  BY SMT, <1>1, <1>5
<1> QED BY <1>6, <1>7, <1>8, <1>9, <1>10, <1>11, FilesStep

(***************************************************************************)
(* A compaction reserves the next file number as the bound of what it may  *)
(* write.                                                                  *)
(***************************************************************************)
LEMMA StartCompactionFiles == ASSUME TInv, TInv', FInv, StartCompaction PROVE FInv'
<1> DEFINE N == Len(tables) + 1
           j == [NewJob EXCEPT !.pc = "Write", !.input = current, !.version = current,
                               !.snapshots = snapshots, !.pending = N]
<1>1. /\ job' = [job EXCEPT !["compaction"] = j] /\ rd' = rd /\ tables' = tables
      /\ disk' = disk /\ obsolete_files' = obsolete_files /\ UNCHANGED <<current, sv>>
  BY DEF StartCompaction, files
<1>2. j.pc = "Write" /\ j.version = current /\ j.pending = N /\ j.purge = {}
  BY DEF NewJob
<1> HIDE DEF j
<1>3. "flush" \in Job /\ "compaction" \in Job
  BY DEF Job
<1>4. job'["compaction"] = j /\ \A o \in Job \ {"compaction"} : job'[o] = job[o] /\
          (Active(o)' <=> Active(o))
  BY <1>1, <1>3, JobChange
<1>5. ~Active("compaction")'
  BY <1>2, <1>4 DEF Active
<1>6. \A f : LiveFile(f)' => LiveFile(f)
  BY <1>1, <1>2, <1>3, JobLive, LiveFileMember
<1>7. \A f : Marked(f)' => Marked(f)
  BY <1>1, <1>2, <1>3, JobMarked DEF Marked
<1>8. \A k \in Job : Active(k)' => k # "compaction" /\ Active(k) /\ job'[k] = job[k]
  BY <1>4, <1>5
<1>10. ASSUME NEW k \in Job
       PROVE  /\ job'[k].pc = "Commit" => (job[k].pc = "Commit" /\ job'[k].file = job[k].file)
                                             \/ job'[k].file \in disk'
              /\ job'[k].pc \in {"Write", "Commit"} => job'[k].pending # 0
              /\ job'[k].pc = "Write" => job'[k].pending <= Len(tables') + 1
  <2>1. CASE k = "compaction"
    <3>1. N # 0 /\ N <= Len(tables') + 1
      BY SMT, <1>1, Types DEF FileTypes
    <3> QED BY <1>2, <1>4, <2>1, <3>1
  <2>2. CASE k # "compaction"
    BY <1>1, <1>4, <2>2, Files DEF LiveSafe, OutputsSafe, JobsOrdered
  <2> QED BY <2>1, <2>2
<1>11. DOMAIN tables \subseteq DOMAIN tables' /\ disk \ disk' = {}
  BY <1>1
<1> QED BY <1>6, <1>7, <1>8, <1>10, <1>11, FilesStep

(***************************************************************************)
(* The file written is that of the flush or a new one, not below what the  *)
(* job reserved.                                                           *)
(***************************************************************************)
LEMMA WriteTableFiles == ASSUME TInv, TInv', FInv, NEW k \in Job, WriteTable(k) PROVE FInv'
<1> DEFINE file == IF k = "flush" THEN job[k].file ELSE Len(tables) + 1
           j == [job[k] EXCEPT !.pc = "Commit", !.file = file]
<1>1. /\ job[k].pc = "Write" /\ job' = [job EXCEPT ![k] = j] /\ disk' = disk \cup {file} /\ rd' = rd
      /\ obsolete_files' = obsolete_files /\ UNCHANGED <<current, sv>>
  BY DEF WriteTable
<1>2. DOMAIN tables \subseteq DOMAIN tables' /\ file \in Nat /\ Len(tables) \in Nat
      /\ DOMAIN tables = 1 .. Len(tables)
  <2>1. DOMAIN tables' = DOMAIN tables \cup {file} /\ file \in Nat
    BY WriteTableFile
  <2>2. Len(tables) \in Nat /\ DOMAIN tables = 1 .. Len(tables)
    BY SMT, Types DEF FileTypes
  <2> HIDE DEF file
  <2> QED BY <2>1, <2>2
<1>3. j.pc = "Commit" /\ j.version = job[k].version /\ j.purge = job[k].purge /\ j.file = file
      /\ j.pending = job[k].pending
  BY JobFields DEF JobState
<1>4. (k = "flush" /\ file = job[k].file) \/ (k # "flush" /\ file = Len(tables) + 1)
  OBVIOUS
<1> HIDE DEF j, file
<1>5. job'[k] = j /\ \A o \in Job \ {k} : job'[o] = job[o] /\ (Active(o)' <=> Active(o))
  BY <1>1, JobChange
<1>6. \A f : LiveFile(f)' => LiveFile(f)
  BY <1>1, <1>3, JobLive, LiveFileMember
<1>7. \A f : Marked(f)' => Marked(f)
  BY SMT, <1>1, <1>3, JobMarked DEF Marked
<1>8. ASSUME NEW o \in Job, Active(o)'
      PROVE  \/ Active(o) /\ job'[o].file = job[o].file /\ job'[o].pending = job[o].pending
             \/ job'[o].file \notin DOMAIN tables /\ job'[o].file >= job'[o].pending
  <2>1. CASE o # k
    BY <1>5, <1>8, <2>1
  <2>2. CASE o = k /\ k = "flush"
    BY SMT, <1>1, <1>3, <1>4, <1>5, <2>2 DEF Active
  <2>3. CASE o = k /\ k # "flush"
    <3>1. job[k].pending <= Len(tables) + 1
      BY <1>1, Files DEF LiveSafe, OutputsSafe, JobsOrdered
    <3>2. Len(tables) + 1 \notin DOMAIN tables
      BY SMT, <1>2
    <3>3. job[k].pending \in Nat
      BY JobOrder
    <3>4. Len(tables) + 1 >= job[k].pending
      BY <1>2, <3>1, <3>3
    <3> QED BY <1>3, <1>4, <1>5, <2>3, <3>2, <3>4
  <2> QED BY <2>1, <2>2, <2>3
<1>9. \A i, o \in Job : Active(i)' /\ Active(o)' /\ i # o =>
              (Active(i) /\ job'[i].file = job[i].file) \/ (Active(o) /\ job'[o].file = job[o].file)
  BY <1>5
<1>10. ASSUME NEW o \in Job
       PROVE  /\ job'[o].pc = "Commit" => (job[o].pc = "Commit" /\ job'[o].file = job[o].file)
                                             \/ job'[o].file \in disk'
              /\ job'[o].pc \in {"Write", "Commit"} => job'[o].pending # 0
              /\ job'[o].pc = "Write" => job'[o].pending <= Len(tables') + 1
  <2>1. CASE o = k
    <3>1. job[k].pending # 0
      BY <1>1, Files DEF LiveSafe, OutputsSafe, JobsOrdered
    <3> QED BY SMT, <1>1, <1>3, <1>5, <2>1, <3>1
  <2>2. CASE o # k
    <3>1. job'[o] = job[o]
      BY <1>5, <2>2
    <3>2. job[o].pc = "Write" => job[o].pending <= Len(tables) + 1
      BY Files DEF LiveSafe, OutputsSafe, JobsOrdered
    <3>3. job[o].pending \in Nat
      BY JobOrder
    <3>4. Len(tables') \in Nat /\ Len(tables) <= Len(tables')
      <4>1. DOMAIN tables' = 1 .. Len(tables') /\ Len(tables') \in Nat
        BY SMT, Types DEF FileTypes
      <4> QED BY SMT, <4>1, <1>2
    <3>5. job[o].pc = "Write" => job[o].pending <= Len(tables') + 1
      BY SMT, <1>2, <3>2, <3>3, <3>4
    <3>6. job[o].pc \in {"Write", "Commit"} => job[o].pending # 0
      BY Files DEF LiveSafe, OutputsSafe, JobsOrdered
    <3> QED BY <3>1, <3>5, <3>6
  <2> QED BY <2>1, <2>2
<1>11. disk \ disk' = {}
  BY <1>1
<1> QED BY <1>2, <1>6, <1>7, <1>8, <1>9, <1>10, <1>11, FilesStep

(***************************************************************************)
(* A job that failed may leave its file, which is in no Version.           *)
(***************************************************************************)
LEMMA FailFiles == ASSUME TInv, TInv', FInv, NEW k \in Job, Fail(k) PROVE FInv'
<1> DEFINE j == [job[k] EXCEPT !.pc = "Finish", !.version = {}, !.ok = FALSE]
<1>1. /\ job[k].pc = "Commit" /\ job' = [job EXCEPT ![k] = j] /\
             disk' \in {disk, disk \ {job[k].file}}
      /\ rd' = rd /\ DropVersions /\ UNCHANGED <<current, sv>> /\ tables' = tables
  BY DEF Fail
<1>2. j.pc = "Finish" /\ j.version = {} /\ j.purge = job[k].purge
  BY JobFields DEF JobState
<1> HIDE DEF j
<1>3. job'[k] = j /\ \A o \in Job \ {k} : job'[o] = job[o] /\ (Active(o)' <=> Active(o))
  BY <1>1, JobChange
<1>4. \A f : LiveFile(f)' => LiveFile(f)
  BY <1>1, <1>2, JobLive
<1>5. \A f : Marked(f)' => Marked(f) \/ (~LiveFile(f)' /\ LiveFile(f))
  BY <1>1, <1>2, JobMarked, Dropped DEF Marked
<1>6. Active(k) /\ ~Active(k)'
  BY <1>1, <1>2, <1>3 DEF Active
<1>7. \A o \in Job : Active(o)' => o # k /\ Active(o) /\ job'[o] = job[o]
  BY <1>3, <1>6
<1>8. \A o \in Job : job'[o].pc = "Commit" => Active(o)'
  BY <1>3 DEF Active
<1>9. ASSUME NEW f \in disk \ disk'
      PROVE  ~LiveFile(f)' /\ \A o \in Job : job'[o].pc = "Commit" => f # job'[o].file
  <2>1. f = job[k].file
    BY <1>1
  <2>2. ~LiveFile(f)
    BY <1>6, <2>1, Files DEF LiveSafe, OutputsSafe, JobsOrdered
  <2>3. \A o \in Job \ {k} : Active(o) => f # job[o].file
    BY <1>6, <2>1, Files DEF LiveSafe, OutputsSafe, JobsOrdered
  <2> QED BY <1>4, <1>7, <1>8, <2>2, <2>3
<1>10. ASSUME NEW o \in Job
       PROVE  /\ job'[o].pc = "Commit" => (job[o].pc = "Commit" /\ job'[o].file = job[o].file)
                                             \/ job'[o].file \in disk'
              /\ job'[o].pc \in {"Write", "Commit"} => job'[o].pending # 0
              /\ job'[o].pc = "Write" => job'[o].pending <= Len(tables') + 1
  <2>1. CASE o = k
    BY <1>2, <1>3, <2>1
  <2>2. CASE o # k
    BY <1>1, <1>3, <2>2, Files DEF LiveSafe, OutputsSafe, JobsOrdered
  <2> QED BY <2>1, <2>2
<1>11. DOMAIN tables \subseteq DOMAIN tables'
  BY <1>1
<1> QED BY <1>4, <1>5, <1>7, <1>9, <1>10, <1>11, FilesStep

(***************************************************************************)
(* PurgeObsoleteFiles by a job deletes what was found before mutex_ was    *)
(* released.                                                               *)
(***************************************************************************)
LEMMA PurgeJobFiles == ASSUME TInv, TInv', FInv, NEW k \in Job, PurgeAfterJob(k) PROVE FInv'
<1>1. /\ job[k].pc = "Purge" /\ job' = [job EXCEPT ![k] = NewJob] /\ disk' = disk \ job[k].purge
      /\ rd' = rd /\ obsolete_files' = obsolete_files /\ UNCHANGED <<current, sv>> /\
           tables' = tables
  BY DEF PurgeAfterJob, Purge
<1>2. job'[k] = NewJob /\ \A o \in Job \ {k} : job'[o] = job[o] /\ (Active(o)' <=> Active(o))
  BY <1>1, JobChange
<1>3. \A f : LiveFile(f)' => LiveFile(f)
  BY <1>1, NewJobType, JobLive
<1>4. \A f : Marked(f)' => Marked(f)
  BY <1>1, NewJobType, JobMarked DEF Marked
<1>5. ~Active(k)'
  BY <1>2, NewJobType DEF Active
<1>6. \A o \in Job : Active(o)' => o # k /\ Active(o) /\ job'[o] = job[o]
  BY <1>2, <1>5
<1>7. \A o \in Job : job'[o].pc = "Commit" => Active(o)'
  BY <1>2 DEF Active
<1>8. ASSUME NEW f \in disk \ disk'
      PROVE  ~LiveFile(f)' /\ \A o \in Job : job'[o].pc = "Commit" => f # job'[o].file
  <2>1. Marked(f)
    BY <1>1 DEF Marked
  <2>2. ~LiveFile(f)
    BY <2>1, LiveIsTable, Files DEF LiveSafe, OutputsSafe, JobsOrdered
  <2>3. \A o \in Job : Active(o) => f # job[o].file
    BY <2>1, Files DEF LiveSafe, OutputsSafe, JobsOrdered
  <2> QED BY <1>3, <1>6, <1>7, <2>2, <2>3
<1>9. ASSUME NEW o \in Job
      PROVE  /\ job'[o].pc = "Commit" => (job[o].pc = "Commit" /\ job'[o].file = job[o].file)
                                             \/ job'[o].file \in disk'
             /\ job'[o].pc \in {"Write", "Commit"} => job'[o].pending # 0
             /\ job'[o].pc = "Write" => job'[o].pending <= Len(tables') + 1
  <2>1. CASE o = k
    BY <1>2, <2>1, NewJobType
  <2>2. CASE o # k
    BY <1>1, <1>2, <2>2, Files DEF LiveSafe, OutputsSafe, JobsOrdered
  <2> QED BY <2>1, <2>2
<1>10. DOMAIN tables \subseteq DOMAIN tables'
  BY <1>1
<1> QED BY <1>3, <1>4, <1>6, <1>8, <1>9, <1>10, FilesStep

(***************************************************************************)
(* What the end of a job finds is not live, and below what the other job   *)
(* has reserved; its own output is either live or no longer wanted.        *)
(***************************************************************************)
LEMMA FinishFiles == ASSUME TInv, TInv', FInv, NEW k \in Job, Finish(k) PROVE FInv'
<1> DEFINE live == LiveFiles(current, sv, [job EXCEPT ![k].version = {}])
           obsolete == obsolete_files \cup (LiveFiles(current, sv, job) \ live)
           pending == {job[o].pending : o \in Job \ {k}} \ {0}
           found(full) == FindObsoleteFiles(obsolete, live, pending, full)
           jobOf(full) == IF found(full)
             = {} THEN NewJob ELSE [NewJob EXCEPT !.pc = "Purge", !.purge = found(full)]
<1>1. /\ obsolete_files' = KeepPending(obsolete, pending) /\ disk' = disk
      /\ rd' = rd /\ UNCHANGED <<current, sv>> /\ tables' = tables
  BY DEF Finish
<1>2. PICK full : job' = [job EXCEPT ![k] = jobOf(full)]
  BY DEF Finish
<1> DEFINE j == jobOf(full)
<1>3. j.pc \in {"Idle", "Purge"} /\ j.version = {} /\ j.purge \subseteq found(full)
  <2> HIDE DEF found
  <2> QED BY NewJobType DEF NewJob
<1>4. job' = [job EXCEPT ![k] = j]
  BY <1>2
<1> HIDE DEF j
<1>5. job'[k] = j /\ \A o \in Job \ {k} : job'[o] = job[o] /\ (Active(o)' <=> Active(o))
  BY <1>4, JobChange
<1>6. \A f : LiveFile(f)' => LiveFile(f)
  BY <1>1, <1>3, <1>4, JobLive
<1>7. ASSUME NEW f PROVE LiveFile(f)' <=> f \in live
  <2>1. PICK jobs : jobs = [job EXCEPT ![k].version = {}]
    OBVIOUS
  <2>2. \A o \in Job : jobs[o].version = job'[o].version
    <3>1. job \in [Job -> JobState] /\ job[k] \in JobState
      BY Types DEF JobTypes
    <3>2. jobs[k] = [job[k] EXCEPT !.version = {}] /\ \A o \in Job \ {k} : jobs[o] = job[o]
      BY <2>1, <3>1
    <3>3. jobs[k].version = {}
      BY <3>1, <3>2 DEF JobState
    <3> QED BY <1>3, <1>5, <3>2, <3>3
  <2>3. f \in live <=> \/ f \in current
                       \/ \E n \in DOMAIN sv : ~sv[n].freed /\ f \in sv[n].files
                       \/ \E o \in Job : f \in jobs[o].version
    BY <2>1, LiveMember
  <2>4. LiveFile(f)' <=> \/ f \in current
                         \/ \E n \in DOMAIN sv : ~sv[n].freed /\ f \in sv[n].files
                         \/ \E o \in Job : f \in job'[o].version
    BY <1>1, LiveFileMemberPrime
  <2> QED BY <2>2, <2>3, <2>4
<1>8. ~Active(k)'
  BY <1>3, <1>5 DEF Active
<1>9. \A o \in Job : Active(o)' => o # k /\ Active(o) /\ job'[o] = job[o]
  BY <1>5, <1>8
<1>10. ASSUME NEW f, Marked(f)'
       PROVE  Marked(f) \/ (~LiveFile(f)' /\ (LiveFile(f)
                                \/ \A o \in Job : Active(o)' => f < job'[o].pending))
  <2>1. f \in obsolete_files' \/ f \in j.purge \/ Marked(f)
    BY <1>1, <1>4, <1>10, JobMarked
  <2>2. CASE f \in obsolete_files'
    BY <1>1, <1>7, <2>2 DEF KeepPending, Marked, LiveFile
  <2>3. CASE f \in j.purge
    <3>1. f \in found(full)
      BY <1>3, <2>3
    <3>2. f \notin live /\ \A p \in pending : f < p
      BY <3>1 DEF FindObsoleteFiles
    <3>3. \A o \in Job \ {k} : Active(o) => job[o].pending \in pending
      BY Files DEF LiveSafe, OutputsSafe, JobsOrdered, Active
    <3> QED BY <1>7, <1>9, <3>2, <3>3
  <2> QED BY <2>1, <2>2, <2>3
<1> HIDE DEF live, obsolete, pending, found
<1>11. ASSUME NEW o \in Job
      PROVE  /\ job'[o].pc = "Commit" => (job[o].pc = "Commit" /\ job'[o].file = job[o].file)
                                             \/ job'[o].file \in disk'
             /\ job'[o].pc \in {"Write", "Commit"} => job'[o].pending # 0
             /\ job'[o].pc = "Write" => job'[o].pending <= Len(tables') + 1
  <2>1. CASE o = k
    BY <1>3, <1>5, <2>1
  <2>2. CASE o # k
    BY <1>1, <1>5, <2>2, Files DEF LiveSafe, OutputsSafe, JobsOrdered
  <2> QED BY <2>1, <2>2
<1>12. DOMAIN tables \subseteq DOMAIN tables' /\ disk \ disk' = {}
  BY <1>1
<1> QED BY <1>6, <1>9, <1>10, <1>11, <1>12, FilesStep

(***************************************************************************)
(* The output becomes live. It is on disk, and was never marked, as it is  *)
(* not below the number its job reserved.                                  *)
(***************************************************************************)
LEMMA CommitFiles == ASSUME TInv, TInv', FInv, NEW k \in Job, Commit(k) PROVE FInv'
<1> DEFINE j == [job[k] EXCEPT !.pc = "Finish", !.version = IF k = "flush" THEN {} ELSE @]
           F == job[k].file
<1>1. /\ job[k].pc = "Commit" /\ job' = [job EXCEPT ![k] = j] /\ disk' = disk /\ tables' = tables
      /\ current' \subseteq current \cup {F} /\ rd' = rd /\ DropVersions
      /\ Len(sv') = Len(sv) + 1 /\ (\A n \in DOMAIN sv : sv'[n] = sv[n])
      /\ sv'[Len(sv) + 1].files = current'
  <2>1. /\ job[k].pc = "Commit" /\ job' = [job EXCEPT ![k] = j] /\ disk' = disk /\ tables' = tables
        /\ current' \subseteq current \cup {F} /\ rd' = rd /\ DropVersions
    BY DEF Commit
  <2>2. /\ Len(sv') = Len(sv) + 1 /\ (\A n \in DOMAIN sv : sv'[n] = sv[n])
        /\ sv'[Len(sv) + 1] = [mem |-> mem', imm |-> imm', files |-> current', refs |-> 1,
                               freed |-> FALSE]
    BY CommitTypes
  <2>3. sv'[Len(sv) + 1].files = current'
    BY SMT, <2>2
  <2> QED BY <2>1, <2>2, <2>3
<1>2. j.pc = "Finish" /\ j.version \subseteq job[k].version /\ j.purge = job[k].purge
  BY JobFields DEF JobState
<1> HIDE DEF j
<1>3. job'[k] = j /\ \A o \in Job \ {k} : job'[o] = job[o] /\ (Active(o)' <=> Active(o))
  BY <1>1, JobChange
<1>4. Active(k) /\ ~Active(k)'
  BY <1>1, <1>2, <1>3 DEF Active
<1>5. F \in disk /\ ~Marked(F) /\ ~LiveFile(F) /\ \A o \in Job \ {k} : Active(o) => F # job[o].file
  BY <1>1, <1>4, Files DEF LiveSafe, OutputsSafe, JobsOrdered
<1>6. ASSUME NEW f, LiveFile(f)' PROVE LiveFile(f) \/ f = F
  <2>1. \/ f \in current'
        \/ \E n \in DOMAIN sv' : ~sv'[n].freed /\ f \in sv'[n].files
        \/ \E o \in Job : f \in job'[o].version
    BY <1>6, LiveFileMemberPrime
  <2>2. \A n \in DOMAIN sv' : n \in DOMAIN sv \/ n = Len(sv) + 1
    BY SMT, <1>1, Types DEF ViewTypes
  <2>3. \/ f \in current \cup {F}
        \/ \E n \in DOMAIN sv : ~sv[n].freed /\ f \in sv[n].files
        \/ \E o \in Job : f \in job[o].version
    BY <1>1, <1>2, <1>3, <2>1, <2>2
  <2> QED BY <2>3, LiveFileMember
<1>7. ASSUME NEW f, Marked(f)' PROVE Marked(f) \/ (LiveFile(f) /\ ~LiveFile(f)')
  BY SMT, <1>1, <1>2, <1>7, JobMarked, Dropped DEF Marked
<1>8. ASSUME NEW f, LiveFile(f)' PROVE f \in disk' /\ ~Marked(f)'
  <2>1. f \in disk /\ ~Marked(f)
    BY <1>5, <1>6, <1>8, LiveIsTable, Files DEF LiveSafe, OutputsSafe, JobsOrdered
  <2> QED BY <1>1, <1>7, <1>8, <2>1
<1>9. ASSUME NEW o \in Job, Active(o)'
      PROVE  o # k /\ Active(o) /\ job'[o] = job[o]
  BY <1>3, <1>4, <1>9
<1>10. ASSUME NEW o \in Job, Active(o)', NEW f, f = job'[o].file PROVE ~LiveFile(f)' /\ ~Marked(f)'
  <2>1. ~LiveFile(f) /\ ~Marked(f) /\ f # F
    BY <1>5, <1>9, <1>10, Files DEF LiveSafe, OutputsSafe, JobsOrdered
  <2> QED BY <1>6, <1>7, <2>1
<1>11. ASSUME NEW o \in Job, Active(o)'
       PROVE  /\ ~LiveFile(job[o].file)' /\ ~Marked(job[o].file)'
              /\ job'[o].file >= job'[o].pending
              /\ \A i \in Job \ {o} : Active(i)' => job'[o].file # job'[i].file
  <2>1. PICK f : f = job'[o].file
    OBVIOUS
  <2>2. ~LiveFile(f)' /\ ~Marked(f)'
    BY <1>10, <1>11, <2>1
  <2>3. LiveFile(job[o].file)' <=> LiveFile(f)'
    BY <2>1 DEF LiveFile
  <2>4. Marked(job[o].file)' <=> Marked(f)'
    BY <2>1 DEF Marked
  <2>5. job'[o].file >= job'[o].pending /\ \A i \in Job \ {o} : Active(i)' =>
            job'[o].file # job'[i].file
    BY <1>9, <1>11, Files DEF LiveSafe, OutputsSafe, JobsOrdered
  <2> QED BY <2>2, <2>3, <2>4, <2>5
<1>12. ASSUME NEW o \in Job
       PROVE  /\ job'[o].pc = "Commit" => job'[o].file \in disk'
              /\ job'[o].pc \in {"Write", "Commit"} => job'[o].pending # 0
              /\ job'[o].pc = "Write" => job'[o].pending <= Len(tables') + 1
  <2>1. CASE o = k
    BY <1>2, <1>3, <2>1
  <2>2. CASE o # k
    BY SMT, <1>1, <1>3, <2>2, Files DEF LiveSafe, OutputsSafe, JobsOrdered
  <2> QED BY <2>1, <2>2
<1> QED BY <1>8, <1>11, <1>12, Constants, Files DEF LiveSafe, OutputsSafe, JobsOrdered

(***************************************************************************)
(* At the start there are no files.                                        *)
(***************************************************************************)
LEMMA InitFiles == Init => FInv
<1> SUFFICES ASSUME Init PROVE FInv
  OBVIOUS
<1>1. \A k \in Job : job[k] = NewJob
  BY DEF Init
<1>2. DOMAIN tables = {} /\ \A k \in Job : ~Active(k) /\ job[k].pc \notin {"Write", "Commit"}
  BY SMT, <1>1, NewJobType DEF Init, Active
<1> QED BY <1>2, Files DEF LiveSafe, OutputsSafe, JobsOrdered

(***************************************************************************)
(* The invariant of the files is inductive, given types and counts.        *)
(***************************************************************************)
LEMMA FilesNext == ASSUME TInv, RInv, TInv', FInv, [Next]_vars PROVE FInv'
<1>1. CASE \/ Write \/ GetSnapshot \/ ReleaseSnapshot \/ UnrefScraped \/ UnrefOld \/ UNCHANGED vars
           \/ \E r \in Reader : Scrape(r)
  BY <1>1, WriterFiles
<1>2. CASE SwitchMemtable
  BY <1>2, SwitchFiles
<1>3. ASSUME NEW r \in Reader,
             \/ NewIterator(r) \/ Get(r) \/ SwapForIterator(r) \/ CheckVersionNumber(r)
             \/ Acquire(r) \/ GetImpl(r) \/ ReturnFromGet(r) \/ ReturnFromNewIterator(r)
             \/ MultiGet(r) \/ EndMultiGet(r) \/ CleanupSuperVersion(r) \/ UnrefIterator(r)
             \/ ThreadExit(r)
      PROVE  FInv'
  BY <1>3, ReaderFiles, QuietFiles
<1>4. ASSUME NEW r \in Reader, CleanupIteratorState(r) \/ PurgeAfterIterator(r) PROVE FInv'
  BY <1>4, CleanupIteratorFiles, PurgeIteratorFiles
<1>5. CASE StartFlush \/ StartCompaction
  BY <1>5, StartFlushFiles, StartCompactionFiles
<1>6. ASSUME NEW k \in Job, WriteTable(k) \/ Commit(k) \/ Fail(k) \/ Finish(k) \/ PurgeAfterJob(k)
      PROVE  FInv'
  BY <1>6, WriteTableFiles, CommitFiles, FailFiles, FinishFiles, PurgeJobFiles
<1> QED BY <1>1, <1>2, <1>3, <1>4, <1>5, <1>6 DEF Next

(***************************************************************************)
(* NothingFreedInUse follows from the invariant of the files.              *)
(***************************************************************************)
LEMMA FilesHold ==
    ASSUME TInv, FInv, \A r \in Reader : \A n \in DOMAIN sv : Holds(r, n) => ~sv[n].freed
    PROVE  NothingFreedInUse
<1>1. LiveFiles(current, sv, job) \subseteq disk
  BY LiveType, Files DEF LiveSafe, OutputsSafe, JobsOrdered, LiveFile
<1> QED BY <1>1, Files DEF LiveSafe, OutputsSafe, JobsOrdered, NothingFreedInUse

----------------------------------------------------------------------------
(***************************************************************************)
(* VInv is the conjunction of its parts, now and in the next state.        *)
(***************************************************************************)
LEMMA Views ==
    /\ VInv <=> (NewestInv /\ (\A k \in Job : JobView(k))
                         /\ (\A r \in Reader : ReaderView(rd[r])))
    /\ VInv' <=> (NewestInv' /\ (\A k \in Job : JobView(k)')
                           /\ (\A r \in Reader : ReaderView(rd[r])'))
BY Constants DEF VInv

(***************************************************************************)
(* EntriesMember for the next state.                                       *)
(***************************************************************************)
LEMMA EntriesPrime ==
    ASSUME NEW n, NEW e
    PROVE  e \in Entries(n)' <=> \/ \E m \in sv'[n].imm \cup {sv'[n].mem} : e \in memtables'[m]
                                \/ \E f \in sv'[n].files : e \in tables'[f]
<1> DEFINE A == {memtables'[m] : m \in sv'[n].imm \cup {sv'[n].mem}}
           B == {tables'[f] : f \in sv'[n].files}
<1>1. Entries(n)' = (UNION A) \cup (UNION B)
  BY DEF Entries
<1>2. e \in UNION A <=> \E m \in sv'[n].imm \cup {sv'[n].mem} : e \in memtables'[m]
  OBVIOUS
<1>3. e \in UNION B <=> \E f \in sv'[n].files : e \in tables'[f]
  OBVIOUS
<1> HIDE DEF A, B
<1> QED BY <1>1, <1>2, <1>3

(***************************************************************************)
(* A super version keeps its entries if its memtables and tables do.       *)
(***************************************************************************)
LEMMA EntriesGrow ==
    ASSUME NEW n, sv'[n].mem = sv[n].mem, sv'[n].imm = sv[n].imm, sv'[n].files = sv[n].files,
           \A m \in sv[n].imm \cup {sv[n].mem} : memtables[m] \subseteq memtables'[m],
           \A f \in sv[n].files : tables[f] \subseteq tables'[f]
    PROVE  Entries(n) \subseteq Entries(n)'
<1> SUFFICES ASSUME NEW e \in Entries(n) PROVE e \in Entries(n)'
  OBVIOUS
<1>1. \/ \E m \in sv[n].imm \cup {sv[n].mem} : e \in memtables[m]
      \/ \E f \in sv[n].files : e \in tables[f]
  BY EntriesMember
<1>2. \/ \E m \in sv'[n].imm \cup {sv'[n].mem} : e \in memtables'[m]
      \/ \E f \in sv'[n].files : e \in tables'[f]
  BY <1>1
<1> QED BY <1>2, EntriesPrime

(***************************************************************************)
(* The view of a reader in the next state.                                 *)
(***************************************************************************)
LEMMA ReaderViewPrime ==
    ASSUME NEW r, NEW d, d = rd'[r] PROVE ReaderView(rd[r])' <=> ReaderView(d)'
<1>1. Entries(rd[r].sv)' = Entries(d.sv)'
  BY DEF Entries
<1>2. Visible(rd[r])' <=> Visible(d)'
  BY <1>1 DEF Visible
<1>3. Finished(rd[r])' <=> Finished(d)'
  BY DEF Finished
<1> QED BY <1>2, <1>3 DEF ReaderView

(***************************************************************************)
(* The view d of a reader stays right if the super version keeps its       *)
(* entries and the snapshot is not released.                               *)
(***************************************************************************)
LEMMA ReaderViewKept ==
    ASSUME NEW d \in ReaderState, ReaderView(d), last_sequence \in Nat, last_sequence' \in Nat,
           last_sequence <= last_sequence',
           d.pc # "Idle" /\ d.op.snapshot /\ d.snapshot \in snapshots => d.snapshot \in snapshots',
           d.pc \in {"Snapshot", "Return"} => Entries(d.sv) \subseteq Entries(d.sv)'
    PROVE  ReaderView(d)'
<1> SUFFICES ASSUME d.pc # "Idle" PROVE ReaderView(d)'
  BY DEF ReaderView
<1>1. d.start <= last_sequence'
  BY SMT DEF ReaderView, ReaderState
<1>2. d.op.snapshot /\ d.pc \in {"Swap", "Check", "Acquire", "Snapshot"} =>
          d.snapshot \in snapshots'
  BY DEF ReaderView
<1>3. d.pc \in {"Snapshot", "Return"} => Visible(d)'
  BY DEF ReaderView, Visible
<1>4. Finished(d)' <=> Finished(d)
  BY DEF Finished
<1>5. Finished(d)' => IF d.op.snapshot THEN d.value = d.snapshot
                      ELSE d.op.kind # "NewIterator" => d.value >= d.start
  BY <1>4 DEF ReaderView
<1> QED BY <1>1, <1>2, <1>3, <1>5 DEF ReaderView

(***************************************************************************)
(* So does that of a reader that takes no step.                            *)
(***************************************************************************)
LEMMA ReaderKept ==
    ASSUME TInv, RInv, VInv, NEW r \in Reader, rd'[r] = rd[r],
           last_sequence' \in Nat, last_sequence <= last_sequence',
           rd[r].pc # "Idle" /\ rd[r].op.snapshot /\ rd[r].snapshot \in snapshots
              => rd[r].snapshot \in snapshots',
           \A n \in DOMAIN sv : Entries(n) \subseteq Entries(n)'
    PROVE  ReaderView(rd[r])'
<1>1. PICK d : d = rd[r]
  OBVIOUS
<1>2. d \in ReaderState /\ ReaderView(d)
  BY <1>1, ReaderFields, Views
<1>3. d.pc \in {"Snapshot", "Return"} => d.sv \in DOMAIN sv
  BY <1>1, Refs DEF ReaderInv
<1>4. last_sequence \in Nat
  BY Types DEF DataTypes
<1>5. d.pc # "Idle" /\ d.op.snapshot /\ d.snapshot \in snapshots => d.snapshot \in snapshots'
  BY <1>1
<1>6. d.pc \in {"Snapshot", "Return"} => Entries(d.sv) \subseteq Entries(d.sv)'
  BY <1>3
<1>7. ReaderView(d)'
  BY <1>2, <1>4, <1>5, <1>6, ReaderViewKept
<1>8. d = rd'[r]
  BY <1>1
<1> QED BY <1>7, <1>8, ReaderViewPrime

(***************************************************************************)
(* A step that leaves entries and jobs alone.                              *)
(***************************************************************************)
LEMMA StillView ==
    ASSUME TInv, VInv, UNCHANGED <<last_sequence, memtables, mem, imm>>,
      Readable' \subseteq Readable,
           UNCHANGED <<tables, current, job>>, Shrunk(sv'), sv' \in Seq(SuperVersions)
    PROVE  /\ NewestInv' /\ \A k \in Job : JobView(k)'
           /\ \A n \in DOMAIN sv : Entries(n) \subseteq Entries(n)'
<1>1. Len(sv') = Len(sv) /\ Len(sv) \in DOMAIN sv
  BY SMT, Types DEF ViewTypes, Shrunk
<1>2. \A n \in DOMAIN sv : Entries(n) \subseteq Entries(n)'
  BY EntriesGrow DEF Shrunk
<1>4. \A k \in Job : Source(k)' = Source(k)
  BY DEF Source
<1>5. \A k \in Job : Active(k)' <=> Active(k)
  BY DEF Active
<1>6. \A k \in Job : JobView(k)'
  BY <1>4, Views DEF JobView
<1>7. PICK N : N = Len(sv)
  OBVIOUS
<1>8. Entries(Len(sv))' = Entries(N)'
  BY <1>1, <1>7 DEF Entries
<1>9. \A s \in Readable' : s = 0 \/ s \in Entries(Len(sv))'
  BY <1>1, <1>2, <1>7, <1>8, Views DEF NewestInv
<1>10. sv'[Len(sv')].mem = mem' /\ sv'[Len(sv')].imm = imm' /\ sv'[Len(sv')].files = current'
  BY <1>1, Views DEF NewestInv, Shrunk
<1>11. \A n \in DOMAIN sv' : \A k \in Job' : Active(k)' => job'[k].file \notin sv'[n].files
  BY <1>5, Constants, Views DEF NewestInv, Shrunk
<1>12. /\ \A m \in DOMAIN memtables' : memtables'[m] \subseteq 1..last_sequence'
       /\ \A f \in DOMAIN tables' : tables'[f] \subseteq 1..last_sequence'
  BY Views DEF NewestInv
<1> QED BY <1>2, <1>6, <1>9, <1>10, <1>11, <1>12 DEF NewestInv

(***************************************************************************)
(* The parts of the invariant.                                             *)
(***************************************************************************)
LEMMA VInvPrime ==
    ASSUME NewestInv', \A k \in Job : JobView(k)', \A r \in Reader : ReaderView(rd[r])'
    PROVE  VInv'
BY Constants, Views

(***************************************************************************)
(* A step of no reader that leaves entries and jobs alone.                 *)
(***************************************************************************)
LEMMA StillStep ==
    ASSUME TInv, RInv, VInv, TInv', UNCHANGED <<last_sequence, memtables, mem, imm>>,
           Readable' \subseteq Readable,
           \A r \in Reader : rd[r].pc # "Idle" /\ rd[r].op.snapshot /\ rd[r].snapshot \in snapshots
              => rd[r].snapshot \in snapshots',
           UNCHANGED <<tables, current, job>>, Shrunk(sv'), rd' = rd
    PROVE  VInv'
<1>1. sv' \in Seq(SuperVersions)
  BY Constants, Types DEF ViewTypes
<1>2. /\ NewestInv' /\ \A k \in Job : JobView(k)'
      /\ \A n \in DOMAIN sv : Entries(n) \subseteq Entries(n)'
  BY <1>1, StillView
<1>3. last_sequence' \in Nat /\ last_sequence <= last_sequence'
  BY SMT, Types DEF DataTypes
<1>4. \A r \in Reader : ReaderView(rd[r])'
  BY <1>2, <1>3, ReaderKept
<1> QED BY <1>2, <1>4, VInvPrime

(***************************************************************************)
(* A step of reader r to state d.                                          *)
(***************************************************************************)
LEMMA ReaderViewStep ==
    ASSUME TInv, RInv, VInv, TInv', UNCHANGED <<last_sequence, snapshots, memtables, mem, imm>>,
           UNCHANGED <<tables, current, job>>, Shrunk(sv'),
           NEW r \in Reader, NEW d \in ReaderState, rd' = [rd EXCEPT ![r] = d], ReaderView(d),
           d.pc \in {"Snapshot", "Return"} => d.sv \in DOMAIN sv
    PROVE  VInv'
<1>1. sv' \in Seq(SuperVersions)
  BY Constants, Types DEF ViewTypes
<1>2. /\ NewestInv' /\ \A k \in Job : JobView(k)'
      /\ \A n \in DOMAIN sv : Entries(n) \subseteq Entries(n)'
  <2>1. Readable' \subseteq Readable
    BY DEF Readable
  <2> QED BY <1>1, <2>1, StillView
<1>3. last_sequence \in Nat /\ last_sequence' \in Nat /\ last_sequence <= last_sequence'
  BY SMT, Types DEF DataTypes
<1>4. rd'[r] = d /\ \A q \in Reader \ {r} : rd'[q] = rd[q]
  BY Types DEF ThreadTypes
<1>5. \A q \in Reader \ {r} : ReaderView(rd[q])'
  BY <1>2, <1>3, <1>4, ReaderKept
<1>6. d.pc \in {"Snapshot", "Return"} => Entries(d.sv) \subseteq Entries(d.sv)'
  BY <1>2
<1>7. ReaderView(d)'
  BY <1>3, <1>6, ReaderViewKept
<1>8. ReaderView(rd[r])'
  BY <1>4, <1>7, ReaderViewPrime
<1> QED BY <1>2, <1>5, <1>8, VInvPrime

(***************************************************************************)
(* A lookup at the number of an entry finds that entry.                    *)
(***************************************************************************)
LEMMA LookupAt ==
    ASSUME SetFacts, TInv, NEW n \in DOMAIN sv, NEW s \in Nat, s = 0 \/ s \in Entries(n)
    PROVE  Lookup(n, s) = s
<1>1. Lookup(n, s) \in Nat /\ Lookup(n, s) <= s /\ \A e \in Entries(n) : e <= s => e <= Lookup(n, s)
  BY LookupProperty
<1>2. s <= Lookup(n, s)
  BY SMT, <1>1
<1> QED BY SMT, <1>1, <1>2

(***************************************************************************)
(* No entry is newer than LastSequence().                                  *)
(***************************************************************************)
LEMMA EntriesBound ==
    ASSUME TInv, VInv, NEW n \in DOMAIN sv, NEW e \in Entries(n)
    PROVE  e \in Nat /\ e <= last_sequence
<1>1. \/ \E m \in sv[n].imm \cup {sv[n].mem} : e \in memtables[m]
      \/ \E f \in sv[n].files : e \in tables[f]
  BY EntriesMember
<1>2. /\ sv[n].imm \cup {sv[n].mem} \subseteq DOMAIN memtables
      /\ sv[n].files \subseteq DOMAIN tables
  BY Types DEF ViewTypes
<1>3. e \in 1..last_sequence
  BY <1>1, <1>2, Views DEF NewestInv
<1> QED BY SMT, <1>3, Types DEF DataTypes

(***************************************************************************)
(* A reader between two calls,                                             *)
(***************************************************************************)
LEMMA IdleView == ASSUME NEW d, d.pc = "Idle" PROVE ReaderView(d)
BY DEF ReaderView

(***************************************************************************)
(* one that has no super version yet,                                      *)
(***************************************************************************)
LEMMA EarlyView ==
    ASSUME NEW d, d.pc \in {"Swap", "Check", "Acquire"}, d.start <= last_sequence,
           d.op.snapshot => d.snapshot \in snapshots
    PROVE  ReaderView(d)
BY DEF ReaderView, Finished

(***************************************************************************)
(* and one that has dropped it.                                            *)
(***************************************************************************)
LEMMA LateView ==
    ASSUME NEW d, d.pc \in {"Cleanup", "IterCleanup", "Purge"}, d.start <= last_sequence
    PROVE  ReaderView(d)
BY DEF ReaderView, Finished

(***************************************************************************)
(* A reader that takes the newest super version finds what it may look     *)
(* for.                                                                    *)
(***************************************************************************)
LEMMA AcquiredView ==
    ASSUME TInv, VInv, NEW d \in ReaderState, d.sv = Len(sv), d.start <= last_sequence,
           d.op.snapshot => d.snapshot \in snapshots,
           d.pc = IF d.op.kind = "Get" THEN "Snapshot" ELSE "Return"
    PROVE  ReaderView(d)
<1>1. \A s \in Readable : s = 0 \/ s \in Entries(d.sv)
  BY Views DEF NewestInv
<1>2. d.op.snapshot => d.snapshot = 0 \/ d.snapshot \in Entries(d.sv)
  BY <1>1 DEF Readable
<1>3. last_sequence = 0 \/ last_sequence \in Entries(d.sv)
  BY <1>1 DEF Readable
<1>4. d.start = 0 \/ \E e \in Entries(d.sv) : d.start <= e
  BY SMT, <1>3, Types DEF ReaderState, DataTypes
<1>5. Visible(d)
  BY <1>2, <1>4 DEF Visible
<1>6. ~Finished(d)
  BY DEF Finished
<1> QED BY <1>5, <1>6 DEF ReaderView

(***************************************************************************)
(* What a reader knows of its own state.                                   *)
(***************************************************************************)
LEMMA ReaderKnows ==
    ASSUME TInv, RInv, VInv, NEW r \in Reader, rd[r].pc # "Idle"
    PROVE  /\ rd[r] \in ReaderState /\ rd[r].start <= last_sequence
           /\ rd[r].pc \in {"Swap", "Check", "Acquire", "Snapshot"} =>
                  (rd[r].op.snapshot => rd[r].snapshot \in snapshots)
           /\ rd[r].pc \in {"Snapshot", "Return"} => Visible(rd[r]) /\ rd[r].sv \in DOMAIN sv
<1>1. rd[r] \in ReaderState
  BY ReaderFields
<1>2. ReaderView(rd[r]) /\ ReaderInv(r, rd[r], local_sv[r])
  BY Views, Refs
<1> QED BY <1>1, <1>2 DEF ReaderView, ReaderInv

(***************************************************************************)
(* What a call starts with.                                                *)
(***************************************************************************)
LEMMA RequestView ==
    ASSUME TInv, VInv, NEW r \in Reader, NEW kind, Call(r, kind), NEW e \in Requests(r)
    PROVE  /\ e \in ReaderState /\ e.start <= last_sequence /\ e.start = last_sequence
           /\ e.op.snapshot => e.snapshot \in snapshots
           /\ e.snapshot \in Readable /\ e.snapshot \in Nat /\ e.op.kind = kind
<1>1. todo.reads[r] # <<>> /\ Head(todo.reads[r]).kind = kind
  BY DEF Call
<1>2. /\ e \in ReaderState /\ e.start = last_sequence /\ e.op = Head(todo.reads[r])
      /\ IF e.op.snapshot THEN e.snapshot \in snapshots ELSE e.snapshot = last_sequence
  BY <1>1, RequestTypes
<1>3. e.snapshot \in Readable
  BY <1>2 DEF Readable
<1>4. last_sequence \in Nat
  BY Types DEF DataTypes
<1> QED BY SMT, <1>1, <1>2, <1>3, <1>4 DEF ReaderState

(***************************************************************************)
(* The call begins: it looks for what is newest, or for a snapshot not     *)
(* released.                                                               *)
(***************************************************************************)
LEMMA BeginViews ==
    ASSUME TInv, RInv, VInv, TInv', NEW r \in Reader, NewIterator(r) \/ Get(r) \/ SwapForIterator(r)
    PROVE  VInv'
<1>1. /\ UNCHANGED <<last_sequence, snapshots, memtables, mem, imm>>
      /\ UNCHANGED <<tables, current, job>> /\ Shrunk(sv')
  BY ReaderFiles
<1>2. local_sv[r] \in Int
  BY ReaderFields
<1>3. CASE NewIterator(r)
  <2>1. PICK e \in Requests(r) : rd' = [rd EXCEPT ![r] = [e EXCEPT !.pc = "Swap"]]
    BY <1>3 DEF NewIterator
  <2>2. e \in ReaderState /\ e.start <= last_sequence /\ (e.op.snapshot => e.snapshot \in snapshots)
    BY <1>3, RequestView DEF NewIterator
  <2>3. PICK d : d = [e EXCEPT !.pc = "Swap"]
    OBVIOUS
  <2>4. d \in ReaderState /\ d.pc = "Swap" /\ d.start = e.start /\ d.op = e.op /\
            d.snapshot = e.snapshot
    BY <2>2, <2>3 DEF ReaderState
  <2>5. ReaderView(d)
    BY SMT, <2>2, <2>4, EarlyView
  <2> QED BY <1>1, <2>1, <2>3, <2>4, <2>5, ReaderViewStep
<1>4. CASE Get(r)
  <2>1. PICK e \in Requests(r) : rd' = [rd EXCEPT ![r] = [e EXCEPT !.pc = "Check",
                 !.sv = local_sv[r]]]
    BY <1>4 DEF Get, SwapLocal
  <2>2. e \in ReaderState /\ e.start <= last_sequence /\ (e.op.snapshot => e.snapshot \in snapshots)
    BY <1>4, RequestView DEF Get
  <2>3. PICK d : d = [e EXCEPT !.pc = "Check", !.sv = local_sv[r]]
    OBVIOUS
  <2>4. d \in ReaderState /\ d.pc = "Check" /\ d.start = e.start /\ d.op = e.op /\
            d.snapshot = e.snapshot
    BY <1>2, <2>2, <2>3 DEF ReaderState
  <2>5. ReaderView(d)
    BY SMT, <2>2, <2>4, EarlyView
  <2> QED BY <1>1, <2>1, <2>3, <2>4, <2>5, ReaderViewStep
<1>5. CASE SwapForIterator(r)
  <2>1. PICK e : e = rd[r]
    OBVIOUS
  <2>2. e \in ReaderState /\ e.start <= last_sequence /\ (e.op.snapshot => e.snapshot \in snapshots)
    BY <1>5, <2>1, ReaderKnows DEF SwapForIterator
  <2>3. PICK d : d = [e EXCEPT !.pc = "Check", !.sv = local_sv[r]]
    OBVIOUS
  <2>4. d \in ReaderState /\ d.pc = "Check" /\ d.start = e.start /\ d.op = e.op /\
            d.snapshot = e.snapshot
    BY <1>2, <2>2, <2>3 DEF ReaderState
  <2>5. ReaderView(d)
    BY SMT, <2>2, <2>4, EarlyView
  <2>6. rd' = [rd EXCEPT ![r] = d]
    BY <1>5, <2>1, <2>3 DEF SwapForIterator, SwapLocal
  <2> QED BY <1>1, <2>4, <2>5, <2>6, ReaderViewStep
<1> QED BY <1>3, <1>4, <1>5

(***************************************************************************)
(* The cached super version is used only if it is the newest, and so is    *)
(* the one taken under mutex_.                                             *)
(***************************************************************************)
LEMMA TakeViews ==
    ASSUME TInv, RInv, VInv, TInv', NEW r \in Reader, CheckVersionNumber(r) \/ Acquire(r)
    PROVE  VInv'
<1>1. /\ UNCHANGED <<last_sequence, snapshots, memtables, mem, imm>>
      /\ UNCHANGED <<tables, current, job>> /\ Shrunk(sv')
  BY ReaderFiles
<1>2. rd[r].pc \in {"Check", "Acquire"}
  BY DEF CheckVersionNumber, Acquire
<1>3. /\ rd[r] \in ReaderState /\ rd[r].start <= last_sequence
      /\ (rd[r].op.snapshot => rd[r].snapshot \in snapshots)
  BY <1>2, ReaderKnows
<1>4. Len(sv) \in DOMAIN sv /\ Len(sv) \in Int
  BY SMT, Types DEF ViewTypes
<1>5. rd \in [Reader -> ReaderState] /\ rd' \in [Reader -> ReaderState] /\ rd'[r] \in ReaderState
  BY Constants, Types DEF ThreadTypes
<1>6. rd' = [rd EXCEPT ![r] = rd'[r]]
  BY <1>5 DEF CheckVersionNumber, Acquire
<1>7. /\ rd'[r].start = rd[r].start /\ rd'[r].op = rd[r].op /\ rd'[r].snapshot = rd[r].snapshot
      /\ \/ rd'[r].pc = "Acquire"
         \/ rd'[r].pc = AfterAcquire(r) /\ rd'[r].sv = Len(sv)
  <2>1. CASE Acquire(r)
    <3>1. rd'[r] = [rd[r] EXCEPT !.pc = AfterAcquire(r), !.sv = Len(sv), !.last = FALSE]
      BY <2>1, <1>5 DEF Acquire
    <3> QED BY <3>1, <1>3 DEF ReaderState
  <2>2. CASE CheckVersionNumber(r) /\ rd[r].sv = Len(sv)
    <3>1. rd'[r] = [rd[r] EXCEPT !.pc = AfterAcquire(r)]
      BY <2>2, <1>5 DEF CheckVersionNumber
    <3> QED BY <2>2, <3>1, <1>3 DEF ReaderState
  <2>3. CASE CheckVersionNumber(r) /\ rd[r].sv # Len(sv)
    <3>1. PICK b : rd'[r] = [rd[r] EXCEPT !.pc = "Acquire", !.last = b]
      BY <2>3, <1>5 DEF CheckVersionNumber
    <3> QED BY <3>1, <1>3 DEF ReaderState
  <2> QED BY <2>1, <2>2, <2>3
<1>8. PICK d : d = rd'[r]
  OBVIOUS
<1>9. d \in ReaderState /\ rd' = [rd EXCEPT ![r] = d]
  BY <1>5, <1>6, <1>8
<1>10. d.start <= last_sequence /\ (d.op.snapshot => d.snapshot \in snapshots)
  BY <1>3, <1>7, <1>8
<1>11. CASE d.pc = "Acquire"
  <2>1. ReaderView(d)
    BY SMT, <1>10, <1>11, EarlyView
  <2> QED BY <1>1, <1>9, <1>11, <2>1, ReaderViewStep
<1>12. CASE d.pc = AfterAcquire(r) /\ d.sv = Len(sv)
  <2>1. d.pc = IF d.op.kind = "Get" THEN "Snapshot" ELSE "Return"
    BY <1>7, <1>8, <1>12 DEF AfterAcquire
  <2>2. ReaderView(d)
    BY <1>9, <1>10, <1>12, <2>1, AcquiredView
  <2> QED BY <1>1, <1>4, <1>9, <1>12, <2>2, ReaderViewStep
<1> QED BY <1>7, <1>8, <1>11, <1>12

(***************************************************************************)
(* GetImpl reads LastSequence() after it has its super version. What was   *)
(* written in between may not be in it, but what had been written when the *)
(* call began is, and nothing newer hides it.                              *)
(***************************************************************************)
LEMMA GetImplViews ==
    ASSUME SetFacts, TInv, RInv, VInv, TInv', NEW r \in Reader, GetImpl(r) PROVE VInv'
<1>1. /\ UNCHANGED <<last_sequence, snapshots, memtables, mem, imm>>
      /\ UNCHANGED <<tables, current, job>> /\ Shrunk(sv')
  BY ReaderFiles
<1>2. PICK e : e = rd[r]
  OBVIOUS
<1>3. e.pc = "Snapshot"
  BY <1>2 DEF GetImpl
<1>4. e \in ReaderState /\ e.start <= last_sequence /\ (e.op.snapshot => e.snapshot \in snapshots)
      /\ Visible(e) /\ e.sv \in DOMAIN sv
  BY <1>2, <1>3, ReaderKnows
<1>5. PICK s : s = IF e.op.snapshot THEN e.snapshot ELSE last_sequence
  OBVIOUS
<1>6. s \in Nat
  BY <1>4, <1>5, Types DEF ReaderState, DataTypes
<1>7. PICK v : v = Lookup(e.sv, s)
  OBVIOUS
<1>8. v \in Nat /\ \A x \in Entries(e.sv) : x <= s => x <= v
  BY <1>4, <1>6, <1>7, LookupProperty
<1>9. PICK d : d = [e EXCEPT !.pc = "Return", !.snapshot = s, !.value = v]
  OBVIOUS
<1>10. /\ d \in ReaderState /\ d.pc = "Return" /\ d.start = e.start /\ d.op = e.op /\ d.snapshot = s
       /\ d.value = v /\ d.sv = e.sv
  BY <1>4, <1>6, <1>8, <1>9 DEF ReaderState
<1>11. Visible(d)
  BY <1>4, <1>5, <1>10 DEF Visible
<1>12. d.op.snapshot => d.value = d.snapshot
  <2>1. e.op.snapshot => s = 0 \/ s \in Entries(e.sv)
    BY <1>4, <1>5 DEF Visible
  <2>2. e.op.snapshot => v = s
    BY <1>4, <1>6, <1>7, <2>1, LookupAt
  <2> QED BY <1>10, <2>2
<1>13. ~d.op.snapshot => d.value >= d.start
  <2> SUFFICES ASSUME ~e.op.snapshot PROVE v >= e.start
    BY <1>10
  <2>1. s = last_sequence
    BY <1>5
  <2>2. e.start \in Nat
    BY <1>4 DEF ReaderState
  <2>3. CASE e.start = 0
    BY SMT, <1>8, <2>3
  <2>4. CASE e.start # 0
    <3>1. PICK x \in Entries(e.sv) : e.start <= x
      BY <1>4, <2>4 DEF Visible
    <3>2. x \in Nat /\ x <= s
      BY <1>4, <2>1, EntriesBound
    <3>3. x <= v
      BY <1>8, <3>2
    <3> QED BY SMT, <1>8, <2>2, <3>1, <3>2, <3>3
  <2> QED BY <2>3, <2>4
<1>14. ReaderView(d)
  BY <1>4, <1>10, <1>11, <1>12, <1>13 DEF ReaderView
<1>15. rd' = [rd EXCEPT ![r] = d]
  BY <1>2, <1>5, <1>7, <1>9 DEF GetImpl
<1> QED BY <1>1, <1>4, <1>10, <1>14, <1>15, ReaderViewStep

(***************************************************************************)
(* The iterator finds the entry of its snapshot.                           *)
(***************************************************************************)
LEMMA ReturnIteratorViews ==
    ASSUME SetFacts, TInv, RInv, VInv, TInv', NEW r \in Reader, ReturnFromNewIterator(r) PROVE VInv'
<1>1. /\ UNCHANGED <<last_sequence, snapshots, memtables, mem, imm>>
      /\ UNCHANGED <<tables, current, job>> /\ Shrunk(sv')
  BY ReaderFiles
<1>2. PICK e : e = rd[r]
  OBVIOUS
<1>3. e.pc = "Return" /\ e.op.kind = "NewIterator"
  BY <1>2 DEF ReturnFromNewIterator
<1>4. e \in ReaderState /\ e.start <= last_sequence /\ Visible(e) /\ e.sv \in DOMAIN sv
  BY <1>2, <1>3, ReaderKnows
<1>5. e.snapshot \in Nat
  BY <1>4 DEF ReaderState
<1>6. PICK v : v = Lookup(e.sv, e.snapshot)
  OBVIOUS
<1>7. v \in Nat
  BY <1>4, <1>5, <1>6, LookupProperty
<1>8. PICK d : d = [e EXCEPT !.pc = "Release", !.value = v]
  OBVIOUS
<1>9. /\ d \in ReaderState /\ d.pc = "Release" /\ d.start = e.start /\ d.op = e.op
      /\ d.snapshot = e.snapshot /\ d.value = v
  BY <1>4, <1>7, <1>8 DEF ReaderState
<1>10. d.op.snapshot => d.value = d.snapshot
  <2>1. e.op.snapshot => e.snapshot = 0 \/ e.snapshot \in Entries(e.sv)
    BY <1>4 DEF Visible
  <2>2. e.op.snapshot => v = e.snapshot
    BY <1>4, <1>5, <1>6, <2>1, LookupAt
  <2> QED BY <1>9, <2>2
<1>11. ReaderView(d)
  BY <1>3, <1>4, <1>9, <1>10 DEF ReaderView
<1>12. rd' = [rd EXCEPT ![r] = d]
  BY <1>2, <1>6, <1>8 DEF ReturnFromNewIterator
<1> QED BY <1>1, <1>9, <1>11, <1>12, ReaderViewStep

(***************************************************************************)
(* MultiGet takes sequence number and super version together, so it finds  *)
(* the newest entry.                                                       *)
(***************************************************************************)
LEMMA MultiGetViews ==
    ASSUME SetFacts, TInv, RInv, VInv, TInv', NEW r \in Reader, MultiGet(r) PROVE VInv'
<1>1. /\ UNCHANGED <<last_sequence, snapshots, memtables, mem, imm>>
      /\ UNCHANGED <<tables, current, job>> /\ Shrunk(sv')
  BY ReaderFiles
<1>2. PICK e \in Requests(r) :
          rd' = [rd EXCEPT ![r] = [e EXCEPT !.pc = "Release", !.sv = Len(sv),
                                            !.value = Lookup(Len(sv), e.snapshot)]]
  BY DEF MultiGet
<1>3. /\ e \in ReaderState /\ e.start <= last_sequence /\ e.start = last_sequence
      /\ e.snapshot \in Readable /\ e.snapshot \in Nat
  BY RequestView DEF MultiGet
<1>4. ~e.op.snapshot => e.snapshot = last_sequence
  BY RequestTypes DEF MultiGet, Call
<1>5. PICK n : n = Len(sv)
  OBVIOUS
<1>6. n \in DOMAIN sv /\ n \in Int
  BY SMT, <1>5, Types DEF ViewTypes
<1>7. e.snapshot = 0 \/ e.snapshot \in Entries(n)
  BY <1>3, <1>5, Views DEF NewestInv
<1>8. Lookup(n, e.snapshot) = e.snapshot
  BY <1>3, <1>6, <1>7, LookupAt
<1>9. PICK d : d = [e EXCEPT !.pc = "Release", !.sv = n, !.value = e.snapshot]
  OBVIOUS
<1>10. /\ d \in ReaderState /\ d.pc = "Release" /\ d.start = e.start /\ d.op = e.op
       /\ d.snapshot = e.snapshot /\ d.value = e.snapshot
  BY <1>3, <1>6, <1>9 DEF ReaderState
<1>11. ~d.op.snapshot => d.value >= d.start
  BY <1>3, <1>4, <1>10
<1>12. ReaderView(d)
  BY <1>3, <1>10, <1>11 DEF ReaderView
<1>13. rd' = [rd EXCEPT ![r] = d]
  BY <1>2, <1>5, <1>8, <1>9
<1> QED BY <1>1, <1>10, <1>12, <1>13, ReaderViewStep

(***************************************************************************)
(* The ends of calls.                                                      *)
(***************************************************************************)
LEMMA EndViews ==
    ASSUME TInv, RInv, VInv, TInv', NEW r \in Reader,
           \/ ReturnFromGet(r) \/ EndMultiGet(r) \/ CleanupSuperVersion(r) \/ UnrefIterator(r)
           \/ CleanupIteratorState(r) \/ PurgeAfterIterator(r)
    PROVE  VInv'
<1>1. /\ UNCHANGED <<last_sequence, snapshots, memtables, mem, imm>>
      /\ UNCHANGED <<tables, current, job>> /\ Shrunk(sv')
  <2>1. CASE CleanupIteratorState(r)
    <3>1. Shrunk(sv')
      BY <2>1, ViewOps DEF CleanupIteratorState
    <3> QED BY <2>1, <3>1 DEF CleanupIteratorState, data
  <2>2. CASE PurgeAfterIterator(r)
    <3>1. Shrunk(sv')
      BY <2>2, ViewOps DEF PurgeAfterIterator, Purge
    <3> QED BY <2>2, <3>1 DEF PurgeAfterIterator, Purge, data
  <2> QED BY <2>1, <2>2, ReaderFiles
<1>2. rd[r].pc # "Idle"
  BY DEF ReturnFromGet, EndMultiGet, CleanupSuperVersion, UnrefIterator, CleanupIteratorState,
         PurgeAfterIterator
<1>3. rd[r] \in ReaderState /\ rd[r].start <= last_sequence
  BY <1>2, ReaderKnows
<1>4. \/ rd' = [rd EXCEPT ![r] = NewReader]
      \/ \E p \in {"Cleanup", "IterCleanup"} : rd' = [rd EXCEPT ![r] = [rd[r] EXCEPT !.pc = p]]
      \/ \E f : rd' = [rd EXCEPT ![r] = [rd[r] EXCEPT !.pc = "Purge", !.purge = f]]
  <2>1. CASE ReturnFromGet(r)
    BY <2>1 DEF ReturnFromGet
  <2>2. CASE UnrefIterator(r)
    BY <2>2 DEF UnrefIterator
  <2>3. CASE CleanupIteratorState(r)
    <3>1. PICK found : rd' = [rd EXCEPT ![r] = IF found = {} THEN NewReader
                                      ELSE [@ EXCEPT !.pc = "Purge", !.purge = found]]
      BY <2>3 DEF CleanupIteratorState
    <3> QED BY <3>1
  <2>4. CASE EndMultiGet(r) \/ CleanupSuperVersion(r) \/ PurgeAfterIterator(r)
    BY <2>4 DEF EndMultiGet, CleanupSuperVersion, PurgeAfterIterator
  <2> QED BY <2>1, <2>2, <2>3, <2>4
<1>5. PICK d : /\ rd' = [rd EXCEPT ![r] = d]
               /\ \/ d = NewReader
                  \/ \E p \in {"Cleanup", "IterCleanup"} : d = [rd[r] EXCEPT !.pc = p]
                  \/ \E f : d = [rd[r] EXCEPT !.pc = "Purge", !.purge = f]
  BY <1>4
<1>6. \/ d.pc = "Idle"
      \/ d.pc \in {"Cleanup", "IterCleanup", "Purge"} /\ d.start <= last_sequence
  BY <1>3, <1>5, NewReaderType DEF ReaderState
<1>7. ReaderView(d)
  BY SMT, <1>6, IdleView, LateView
<1>8. d \in ReaderState
  <2>1. rd' \in [Reader -> ReaderState] /\ rd'[r] = d
    BY <1>5, Constants, Types DEF ThreadTypes
  <2> QED BY <2>1
<1> QED BY <1>1, <1>5, <1>6, <1>7, <1>8, ReaderViewStep

(***************************************************************************)
(* A thread exits.                                                         *)
(***************************************************************************)
LEMMA ExitViews ==
    ASSUME TInv, RInv, VInv, TInv', NEW r \in Reader, ThreadExit(r) PROVE VInv'
<1>1. /\ UNCHANGED <<last_sequence, snapshots, memtables, mem, imm>>
      /\ UNCHANGED <<tables, current, job>> /\ Shrunk(sv')
  BY ReaderFiles
<1>2. rd' = rd
  BY DEF ThreadExit
<1>3. Readable' \subseteq Readable
  BY <1>1 DEF Readable
<1> QED BY <1>1, <1>2, <1>3, StillStep

(***************************************************************************)
(* What a job reads,                                                       *)
(***************************************************************************)
LEMMA SourceMember ==
    ASSUME NEW k \in Job, NEW e
    PROVE  e \in Source(k) <=> IF k = "flush" THEN \E m \in job[k].input : e \in memtables[m]
                               ELSE \E f \in job[k].input : e \in tables[f]
BY DEF Source

(***************************************************************************)
(* also in the next state.                                                 *)
(***************************************************************************)
LEMMA SourcePrime ==
    ASSUME NEW k \in Job, NEW e
    PROVE  e \in Source(k)' <=> IF k = "flush" THEN \E m \in job'[k].input : e \in memtables'[m]
                                ELSE \E f \in job'[k].input : e \in tables'[f]
BY DEF Source

(***************************************************************************)
(* A job reads nothing newer than LastSequence().                          *)
(***************************************************************************)
LEMMA SourceBound ==
    ASSUME TInv, VInv, NEW k \in Job, NEW e \in Source(k) PROVE e \in 1..last_sequence
<1>1. /\ k = "flush" => job[k].input \subseteq DOMAIN memtables
      /\ k = "compaction" => job[k].input \subseteq DOMAIN tables
  BY JobFields
<1>2. IF k = "flush" THEN \E m \in job[k].input : e \in memtables[m]
      ELSE \E f \in job[k].input : e \in tables[f]
  BY SourceMember
<1> QED BY <1>1, <1>2, Views DEF Job, NewestInv

(***************************************************************************)
(* The view of a job that takes no step.                                   *)
(***************************************************************************)
LEMMA JobViewKept ==
    ASSUME TInv, VInv, NEW k \in Job, job'[k] = job[k],
           \A s \in Readable' : s \in Readable \/ s = last_sequence + 1,
           imm \subseteq imm' \/ (k = "compaction"), current \subseteq current' \/ (k = "flush"),
           \A m \in imm : memtables'[m] = memtables[m],
           \A f \in current : tables'[f] = tables[f],
           job[k].pc = "Commit" => tables'[job[k].file] = tables[job[k].file]
    PROVE  JobView(k)'
<1> SUFFICES ASSUME job[k].pc \in {"Write", "Commit"} PROVE JobView(k)'
  BY DEF JobView
<1>1. job[k].input \subseteq IF k = "flush" THEN imm ELSE current
  BY Views DEF JobView
<1>2. job'[k].input \subseteq IF k = "flush" THEN imm' ELSE current'
  BY <1>1
<1>3. \A e : e \in Source(k)' <=> e \in Source(k)
  BY SMT, <1>1, SourceMember, SourcePrime
<1>4. last_sequence \in Nat
  BY Types DEF DataTypes
<1>5. \A e \in Source(k) : e \in Nat /\ e <= last_sequence + 1 /\ e # last_sequence + 1
  BY SMT, <1>4, SourceBound
<1>6. \A s \in Readable : s \in job[k].snapshots \/ \A e \in Source(k) : e <= s
  BY Views DEF JobView
<1>7. \A s \in Readable' : s \in job'[k].snapshots \/ \A e \in Source(k)' : e <= s
  BY <1>3, <1>5, <1>6
<1>8. job[k].pc = "Commit" => \A s \in Readable : s \in Source(k) => s \in tables[job[k].file]
  BY Views DEF JobView
<1>9. job'[k].pc = "Commit" => \A s \in Readable' : s \in Source(k)' => s \in tables'[job'[k].file]
  BY <1>3, <1>5, <1>8
<1> QED BY <1>2, <1>7, <1>9 DEF JobView

(***************************************************************************)
(* A write goes to the newest memtable, which no job reads.                *)
(***************************************************************************)
LEMMA WriteViews == ASSUME TInv, RInv, VInv, TInv', Write PROVE VInv'
<1>1. /\ last_sequence \in Nat /\ last_sequence' = last_sequence + 1
      /\ memtables' = [memtables EXCEPT ![mem] = @ \cup {last_sequence'}]
      /\ UNCHANGED <<snapshots, mem, imm, tables, current, sv, rd, job>>
  BY Types DEF Write, files, DataTypes
<1>2. /\ mem \in DOMAIN memtables /\ mem \notin imm
      /\ DOMAIN memtables' = DOMAIN memtables
      /\ memtables'[mem] = memtables[mem] \cup {last_sequence + 1}
      /\ \A m \in DOMAIN memtables \ {mem} : memtables'[m] = memtables[m]
  BY SMT, <1>1, Types DEF DataTypes
<1>3. \A s \in Readable' : s \in Readable \/ s = last_sequence + 1
  BY <1>1 DEF Readable
<1>4. imm \subseteq DOMAIN memtables
  BY SMT, Types DEF DataTypes
<1>5. \A k \in Job : JobView(k)'
  BY <1>1, <1>2, <1>3, <1>4, JobViewKept
<1>6. \A n \in DOMAIN sv : Entries(n) \subseteq Entries(n)'
  <2>1. \A n \in DOMAIN sv : sv[n].imm \cup {sv[n].mem} \subseteq DOMAIN memtables
    BY Types DEF ViewTypes
  <2>2. \A m \in DOMAIN memtables : memtables[m] \subseteq memtables'[m]
    BY <1>2
  <2> QED BY <1>1, <2>1, <2>2, EntriesGrow
<1>7. PICK N : N = Len(sv)
  OBVIOUS
<1>8. N \in DOMAIN sv /\ sv[N].mem = mem
  BY SMT, <1>7, Types, Views DEF ViewTypes, NewestInv
<1>9. Entries(Len(sv))' = Entries(N)'
  BY <1>1, <1>7 DEF Entries
<1>10. last_sequence + 1 \in Entries(N)'
  BY <1>1, <1>2, <1>8, EntriesPrime
<1>11. \A s \in Readable : s = 0 \/ s \in Entries(N)
  BY <1>7, Views DEF NewestInv
<1>12. \A s \in Readable' : s = 0 \/ s \in Entries(Len(sv))'
  BY <1>3, <1>6, <1>8, <1>9, <1>10, <1>11
<1>13. \A m \in DOMAIN memtables' : memtables'[m] \subseteq 1..last_sequence'
  BY SMTT(30), <1>1, <1>2, Views DEF NewestInv
<1>14. \A f \in DOMAIN tables' : tables'[f] \subseteq 1..last_sequence'
  BY SMT, <1>1, Views DEF NewestInv
<1>15. \A n \in DOMAIN sv' : \A k \in Job' : Active(k)' => job'[k].file \notin sv'[n].files
  BY <1>1, Constants, Views DEF NewestInv, Active
<1>16. sv'[Len(sv')].mem = mem' /\ sv'[Len(sv')].imm = imm' /\ sv'[Len(sv')].files = current'
  BY <1>1, Views DEF NewestInv
<1>17. NewestInv'
  BY <1>12, <1>13, <1>14, <1>15, <1>16 DEF NewestInv
<1>18. \A r \in Reader : ReaderView(rd[r])'
  BY SMT, <1>1, <1>6, ReaderKept
<1> QED BY <1>5, <1>17, <1>18, VInvPrime

(***************************************************************************)
(* A snapshot is taken of what is newest, and is not released while a      *)
(* reader uses it.                                                         *)
(***************************************************************************)
LEMMA SnapshotViews ==
    ASSUME TInv, RInv, VInv, TInv', GetSnapshot \/ ReleaseSnapshot PROVE VInv'
<1>1. Shrunk(sv') /\ UNCHANGED <<tables, current, job>> /\ rd' = rd
  BY WriterShrinks
<1>2. UNCHANGED <<last_sequence, memtables, mem, imm>>
  BY DEF GetSnapshot, ReleaseSnapshot
<1>3. Readable' \subseteq Readable
  BY <1>2 DEF GetSnapshot, ReleaseSnapshot, Readable
<1>4. \A r \in Reader : rd[r].pc # "Idle" /\ rd[r].op.snapshot /\ rd[r].snapshot \in snapshots
              => rd[r].snapshot \in snapshots'
  BY DEF GetSnapshot, ReleaseSnapshot
<1> QED BY <1>1, <1>2, <1>3, <1>4, StillStep

(***************************************************************************)
(* The steps of InstallSuperVersion.                                       *)
(***************************************************************************)
LEMMA WriterViews ==
    ASSUME TInv, RInv, VInv, TInv',
           \/ UnrefScraped \/ UnrefOld \/ UNCHANGED vars \/ \E r \in Reader : Scrape(r)
    PROVE  VInv'
<1>1. Shrunk(sv') /\ UNCHANGED <<tables, current, job>> /\ rd' = rd
  BY WriterShrinks
<1>2. UNCHANGED <<last_sequence, snapshots, memtables, mem, imm>>
  BY DEF UnrefScraped, UnrefOld, vars, Scrape, data
<1>3. Readable' \subseteq Readable
  BY <1>2 DEF Readable
<1> QED BY <1>1, <1>2, <1>3, StillStep

(***************************************************************************)
(* A new super version is installed.                                       *)
(***************************************************************************)
LEMMA InstallViews ==
    ASSUME TInv, RInv, VInv, TInv', UNCHANGED <<last_sequence, snapshots, tables, rd>>,
           \A m \in DOMAIN memtables : memtables'[m] = memtables[m],
           \A m \in DOMAIN memtables' : m \in DOMAIN memtables \/ memtables'[m] = {},
           NEW N, N = Len(sv) + 1, Len(sv') = N, \A n \in DOMAIN sv : sv'[n] = sv[n],
           sv'[N].mem = mem', sv'[N].imm = imm', sv'[N].files = current',
           \A s \in Readable : s = 0 \/ s \in Entries(N)',
           \A k \in Job : JobView(k)',
           \A k \in Job : Active(k)' =>
              Active(k) /\ job'[k].file = job[k].file /\ job[k].file \notin current'
    PROVE  VInv'
<1>1. \A n \in DOMAIN sv : Entries(n) \subseteq Entries(n)'
  <2>1. \A n \in DOMAIN sv : sv[n].imm \cup {sv[n].mem} \subseteq DOMAIN memtables
    BY Types DEF ViewTypes
  <2> QED BY <2>1, EntriesGrow
<1>2. last_sequence \in Nat /\ last_sequence' \in Nat /\ last_sequence <= last_sequence'
  BY SMT, Types DEF DataTypes
<1>3. \A r \in Reader : ReaderView(rd[r])'
  BY <1>1, <1>2, ReaderKept
<1>4. Readable' = Readable
  BY DEF Readable
<1>5. Entries(Len(sv))' = Entries(N)'
  BY DEF Entries
<1>6. \A s \in Readable' : s = 0 \/ s \in Entries(Len(sv))'
  BY <1>4, <1>5
<1>7. /\ \A m \in DOMAIN memtables' : memtables'[m] \subseteq 1..last_sequence'
      /\ \A f \in DOMAIN tables' : tables'[f] \subseteq 1..last_sequence'
  BY Views DEF NewestInv
<1>8. \A n \in DOMAIN sv' : n \in DOMAIN sv \/ n = N
  <2>1. sv \in Seq(SuperVersions) /\ sv' \in Seq(SuperVersions)
    BY Constants, Types DEF ViewTypes
  <2> QED BY SMT, <2>1
<1>9. \A n \in DOMAIN sv' : \A k \in Job' : Active(k)' => job'[k].file \notin sv'[n].files
  BY <1>8, Constants, Views DEF NewestInv
<1>10. sv'[Len(sv')].mem = mem' /\ sv'[Len(sv')].imm = imm' /\ sv'[Len(sv')].files = current'
  OBVIOUS
<1>11. NewestInv'
  BY <1>6, <1>7, <1>9, <1>10 DEF NewestInv
<1> QED BY <1>3, <1>11, VInvPrime

(***************************************************************************)
(* SwitchMemtable: the old memtable is one of the immutable ones of the    *)
(* new super version.                                                      *)
(***************************************************************************)
LEMMA SwitchViews == ASSUME TInv, RInv, VInv, TInv', SwitchMemtable PROVE VInv'
<1>1. PICK N : N = Len(sv) + 1
  OBVIOUS
<1>2. /\ memtables \in Seq(SUBSET Nat) /\ mem \in DOMAIN memtables /\ imm \subseteq DOMAIN memtables
      /\ last_sequence \in Nat
  BY SMT, Types DEF DataTypes
<1>3. /\ memtables' = Append(memtables, {}) /\ imm' = imm \cup {mem} /\ mem' = Len(memtables) + 1
      /\ UNCHANGED <<last_sequence, snapshots, tables, rd, current, job>>
  BY DEF SwitchMemtable
<1>4. /\ \A m \in DOMAIN memtables : memtables'[m] = memtables[m]
      /\ \A m \in DOMAIN memtables' : m \in DOMAIN memtables \/ memtables'[m] = {}
  BY SMT, <1>2, <1>3
<1>5. /\ sv \in Seq(SuperVersions) /\ Len(sv) \in DOMAIN sv /\ Len(sv) \in Nat
      /\ sv' = Append(sv, [mem |-> mem', imm |-> imm', files |-> current', refs |-> 1,
                           freed |-> FALSE])
  BY SMT, Types DEF SwitchMemtable, InstallSuperVersion, ViewTypes
<1>6. /\ Len(sv') = N /\ \A n \in DOMAIN sv : sv'[n] = sv[n]
      /\ sv'[N] = [mem |-> mem', imm |-> imm', files |-> current', refs |-> 1, freed |-> FALSE]
  BY SMT, <1>1, <1>5
<1>7. sv'[N].mem = mem' /\ sv'[N].imm = imm' /\ sv'[N].files = current'
  BY SMT, <1>6
<1>8. ASSUME NEW s \in Readable PROVE s = 0 \/ s \in Entries(N)'
  <2>1. CASE s # 0
    <3>1. s \in Entries(Len(sv))
      BY <2>1, Views DEF NewestInv
    <3>2. \/ \E m \in imm \cup {mem} : s \in memtables[m]
          \/ \E f \in current : s \in tables[f]
      BY <3>1, EntriesMember, Views DEF NewestInv
    <3>3. \/ \E m \in sv'[N].imm \cup {sv'[N].mem} : s \in memtables'[m]
          \/ \E f \in sv'[N].files : s \in tables'[f]
      BY SMTT(30), <1>2, <1>3, <1>4, <1>7, <3>2
    <3> QED BY <3>3, EntriesPrime
  <2> QED BY <2>1
<1>9. \A k \in Job : JobView(k)'
  <2>1. \A s \in Readable' : s \in Readable \/ s = last_sequence + 1
    BY <1>3 DEF Readable
  <2>2. \A m \in imm : memtables'[m] = memtables[m]
    BY <1>2, <1>4
  <2> QED BY <1>3, <2>1, <2>2, JobViewKept
<1>10. \A k \in Job : Active(k)' =>
              Active(k) /\ job'[k].file = job[k].file /\ job[k].file \notin current'
  BY SMT, <1>3, <1>5, Views DEF Active, NewestInv
<1> QED BY <1>1, <1>3, <1>4, <1>6, <1>7, <1>8, <1>9, <1>10, InstallViews

(***************************************************************************)
(* Commit: what readers may look for was in the input of the job, and is   *)
(* now in its output, or was not, and is still there.                      *)
(***************************************************************************)
LEMMA CommitViews ==
    ASSUME TInv, RInv, FInv, VInv, TInv', NEW k \in Job, Commit(k) PROVE VInv'
<1>1. PICK N : N = Len(sv) + 1
  OBVIOUS
<1>2. PICK j : j = job[k]
  OBVIOUS
<1>3. /\ j.pc = "Commit" /\ UNCHANGED <<last_sequence, snapshots, memtables, mem, tables, rd>>
      /\ current' = {j.file} \cup IF k = "flush" THEN current ELSE current \ j.input
      /\ imm' = IF k = "flush" THEN imm \ j.input ELSE imm
  BY <1>2 DEF Commit
<1>4. PICK new : /\ job' = [job EXCEPT ![k] = new]
                 /\ new = [job[k] EXCEPT !.pc = "Finish", !.version = IF k = "flush" THEN {} ELSE @]
  BY DEF Commit
<1>5. new.pc = "Finish" /\ job'[k] = new /\ \A o \in Job \ {k} : job'[o] = job[o] /\
          (Active(o)' <=> Active(o))
  <2>1. new.pc = "Finish"
    BY <1>4, JobFields DEF JobState
  <2> QED BY <1>4, <2>1, JobChange
<1>6. /\ Len(sv') = N /\ \A n \in DOMAIN sv : sv'[n] = sv[n]
      /\ sv'[N] = [mem |-> mem', imm |-> imm', files |-> current', refs |-> 1, freed |-> FALSE]
  BY <1>1, CommitTypes
<1>7. sv'[N].mem = mem' /\ sv'[N].imm = imm' /\ sv'[N].files = current'
  BY SMT, <1>6
<1>8. Len(sv) \in DOMAIN sv /\ last_sequence \in Nat
  BY SMT, Types DEF ViewTypes, DataTypes
<1>9. /\ j.input \subseteq IF k = "flush" THEN imm ELSE current
      /\ \A s \in Readable : s \in Source(k) => s \in tables[j.file]
  BY <1>2, <1>3, Views DEF JobView
<1>10. ASSUME NEW s \in Readable PROVE s = 0 \/ s \in Entries(N)'
  <2>1. CASE s # 0 /\ s \in Source(k)
    <3>1. s \in tables'[j.file] /\ j.file \in sv'[N].files
      BY <1>3, <1>7, <1>9, <2>1
    <3> QED BY <3>1, EntriesPrime
  <2>2. CASE s # 0 /\ s \notin Source(k)
    <3>1. s \in Entries(Len(sv))
      BY <2>2, Views DEF NewestInv
    <3>2. \/ \E m \in imm \cup {mem} : s \in memtables[m]
          \/ \E f \in current : s \in tables[f]
      BY <3>1, EntriesMember, Views DEF NewestInv
    <3>3. IF k = "flush" THEN \A m \in j.input : s \notin memtables[m]
          ELSE \A f \in j.input : s \notin tables[f]
      BY <1>2, <2>2, SourceMember
    <3>4. \/ \E m \in sv'[N].imm \cup {sv'[N].mem} : s \in memtables'[m]
          \/ \E f \in sv'[N].files : s \in tables'[f]
      BY <1>3, <1>7, <3>2, <3>3
    <3> QED BY <3>4, EntriesPrime
  <2> QED BY <2>1, <2>2
<1>11. \A o \in Job : JobView(o)'
  <2>1. JobView(k)'
    BY <1>5 DEF JobView
  <2>2. \A s \in Readable' : s \in Readable \/ s = last_sequence + 1
    BY <1>3 DEF Readable
  <2>3. ASSUME NEW o \in Job \ {k} PROVE JobView(o)'
    <3>1. (imm \subseteq imm' \/ o = "compaction") /\ (current \subseteq current' \/ o = "flush")
      BY <1>3 DEF Job
    <3> QED BY <1>3, <1>5, <2>2, <3>1, JobViewKept
  <2> QED BY <2>1, <2>3
<1>12. ASSUME NEW o \in Job, Active(o)'
       PROVE  Active(o) /\ job'[o].file = job[o].file /\ job[o].file \notin current'
  <2>1. o # k
    BY <1>5, <1>12 DEF Active
  <2>2. Active(o) /\ job'[o].file = job[o].file
    BY <1>5, <1>12, <2>1
  <2>3. Active(k)
    BY <1>2, <1>3 DEF Active
  <2>4. job[o].file # j.file
    BY <1>2, <2>1, <2>2, <2>3, Files DEF LiveSafe, OutputsSafe, JobsOrdered
  <2>5. job[o].file \notin current
    BY <1>8, <2>2, Views DEF NewestInv
  <2> QED BY <1>3, <2>2, <2>4, <2>5
<1>13. /\ \A m \in DOMAIN memtables : memtables'[m] = memtables[m]
       /\ \A m \in DOMAIN memtables' : m \in DOMAIN memtables \/ memtables'[m] = {}
  BY <1>3
<1> QED BY <1>1, <1>3, <1>6, <1>7, <1>10, <1>11, <1>12, <1>13, InstallViews

(***************************************************************************)
(* A step of a job that installs nothing.                                  *)
(***************************************************************************)
LEMMA JobViews ==
    ASSUME TInv, RInv, VInv, TInv', UNCHANGED <<last_sequence, snapshots, memtables, mem, imm>>,
           UNCHANGED <<current, sv, rd>>,
           \A n \in DOMAIN sv : \A f \in sv[n].files : tables'[f] = tables[f],
           \A f \in DOMAIN tables' : tables'[f] \subseteq 1..last_sequence,
           \A k \in Job : JobView(k)',
           \A n \in DOMAIN sv : \A k \in Job : Active(k)' => job'[k].file \notin sv[n].files
    PROVE  VInv'
<1>1. \A n \in DOMAIN sv : Entries(n) \subseteq Entries(n)'
  BY EntriesGrow
<1>2. last_sequence' \in Nat /\ last_sequence <= last_sequence' /\ Len(sv) \in DOMAIN sv
  BY SMT, Types DEF DataTypes, ViewTypes
<1>3. \A r \in Reader : ReaderView(rd[r])'
  BY <1>1, <1>2, ReaderKept
<1>4. PICK N : N = Len(sv)
  OBVIOUS
<1>5. Entries(Len(sv))' = Entries(N)'
  BY <1>4 DEF Entries
<1>6. \A s \in Readable' : s = 0 \/ s \in Entries(Len(sv))'
  BY <1>1, <1>2, <1>4, <1>5, Views DEF NewestInv, Readable
<1>7. \A n \in DOMAIN sv' : \A k \in Job' : Active(k)' => job'[k].file \notin sv'[n].files
  BY Constants
<1>8. /\ \A m \in DOMAIN memtables' : memtables'[m] \subseteq 1..last_sequence'
      /\ \A f \in DOMAIN tables' : tables'[f] \subseteq 1..last_sequence'
      /\ sv'[Len(sv')].mem = mem' /\ sv'[Len(sv')].imm = imm' /\ sv'[Len(sv')].files = current'
  BY Views DEF NewestInv
<1>9. NewestInv'
  BY <1>6, <1>7, <1>8 DEF NewestInv
<1> QED BY <1>3, <1>9, VInvPrime

(***************************************************************************)
(* What the invariants say of tables.                                      *)
(***************************************************************************)
LEMMA TablesBound ==
    ASSUME TInv, VInv
    PROVE  /\ \A f \in DOMAIN tables : tables[f] \subseteq 1..last_sequence
           /\ \A n \in DOMAIN sv : sv[n].files \subseteq DOMAIN tables
           /\ current \subseteq DOMAIN tables /\ tables \in Seq(SUBSET Nat)
           /\ \A n \in DOMAIN sv : \A k \in Job : Active(k) => job[k].file \notin sv[n].files
           /\ sv[Len(sv)].files = current /\ Len(sv) \in DOMAIN sv
BY SMT, Types, Views DEF ViewTypes, FileTypes, NewestInv

(***************************************************************************)
(* A job begins: every sequence number a read may begin at is one of the   *)
(* snapshots it knows, or not below anything it reads.                     *)
(***************************************************************************)
LEMMA FirstView ==
    ASSUME TInv, VInv, NEW k \in Job, job'[k].pc = "Write", job'[k].snapshots = snapshots,
           job'[k].input = IF k = "flush" THEN imm ELSE current,
           UNCHANGED <<last_sequence, snapshots, memtables, imm, current>>,
           \A f \in current : tables'[f] = tables[f]
    PROVE  JobView(k)'
<1>1. last_sequence \in Nat
  BY Types DEF DataTypes
<1>2. \A e \in Source(k)' : e \in 1..last_sequence
  <2>1. imm \subseteq DOMAIN memtables /\ current \subseteq DOMAIN tables
    BY SMT, Types DEF DataTypes, FileTypes
  <2>2. /\ \A m \in DOMAIN memtables : memtables[m] \subseteq 1..last_sequence
        /\ \A f \in DOMAIN tables : tables[f] \subseteq 1..last_sequence
    BY Views DEF NewestInv
  <2> QED BY <2>1, <2>2, SourcePrime
<1>3. \A s \in Readable' : s \in job'[k].snapshots \/ \A e \in Source(k)' : e <= s
  BY SMT, <1>1, <1>2 DEF Readable
<1>4. job'[k].input \subseteq IF k = "flush" THEN imm' ELSE current'
  OBVIOUS
<1> QED BY <1>3, <1>4 DEF JobView

(***************************************************************************)
(* A flush begins.                                                         *)
(***************************************************************************)
LEMMA StartFlushViews == ASSUME TInv, RInv, VInv, TInv', StartFlush PROVE VInv'
<1>1. /\ UNCHANGED <<last_sequence, snapshots, memtables, mem, imm>> /\
             UNCHANGED <<current, sv, rd>>
      /\ tables' = Append(tables, {})
  BY DEF StartFlush, data
<1>2. /\ \A f \in DOMAIN tables : tables'[f] = tables[f]
      /\ \A f \in DOMAIN tables' : f \in DOMAIN tables \/ tables'[f] = {}
      /\ Len(tables) + 1 \notin DOMAIN tables
  BY SMT, <1>1, TablesBound
<1>3. PICK j : /\ job' = [job EXCEPT !["flush"] = j]
               /\ j = [NewJob EXCEPT !.pc = "Write", !.input = imm, !.version = current,
                               !.snapshots = snapshots, !.file = Len(tables) + 1,
                               !.pending = Len(tables) + 1]
  BY DEF StartFlush
<1>4. j.pc = "Write" /\ j.input = imm /\ j.snapshots = snapshots /\ j.file = Len(tables) + 1
  BY <1>3, NewJobType DEF JobState
<1>5. "flush" \in Job /\ Job = {"flush", "compaction"}
  BY DEF Job
<1>6. job'["flush"] = j /\ job'["compaction"] = job["compaction"] /\
          (Active("compaction")' <=> Active("compaction"))
  BY <1>3, <1>5, JobChange
<1>7. JobView("flush")'
  BY <1>1, <1>2, <1>4, <1>5, <1>6, FirstView, TablesBound
<1>8. JobView("compaction")'
  <2>1. \A s \in Readable' : s \in Readable \/ s = last_sequence + 1
    BY <1>1 DEF Readable
  <2>2. job["compaction"].pc = "Commit" => tables'[job["compaction"].file]
            = tables[job["compaction"].file]
    BY <1>2, <1>5, JobFields
  <2>3. \A f \in current : tables'[f] = tables[f]
    BY <1>2, TablesBound
  <2> QED BY <1>1, <1>5, <1>6, <2>1, <2>2, <2>3, JobViewKept
<1>9. \A n \in DOMAIN sv : \A k \in Job : Active(k)' => job'[k].file \notin sv[n].files
  BY <1>2, <1>4, <1>5, <1>6, TablesBound
<1>10. \A n \in DOMAIN sv : \A f \in sv[n].files : tables'[f] = tables[f]
  BY <1>2, TablesBound
<1>11. \A f \in DOMAIN tables' : tables'[f] \subseteq 1..last_sequence
  BY <1>2, TablesBound
<1>12. \A k \in Job : JobView(k)'
  BY <1>5, <1>7, <1>8
<1> QED BY <1>1, <1>9, <1>10, <1>11, <1>12, JobViews

(***************************************************************************)
(* A compaction begins.                                                    *)
(***************************************************************************)
LEMMA StartCompactionViews == ASSUME TInv, RInv, VInv, TInv', StartCompaction PROVE VInv'
<1>1. /\ UNCHANGED <<last_sequence, snapshots, memtables, mem, imm>> /\
             UNCHANGED <<current, sv, rd>>
      /\ tables' = tables
  BY DEF StartCompaction, data, files
<1>2. PICK j : /\ job' = [job EXCEPT !["compaction"] = j]
               /\ j = [NewJob EXCEPT !.pc = "Write", !.input = current, !.version = current,
                               !.snapshots = snapshots, !.pending = Len(tables) + 1]
  BY DEF StartCompaction
<1>3. j.pc = "Write" /\ j.input = current /\ j.snapshots = snapshots
  BY <1>2, NewJobType DEF JobState
<1>4. "compaction" \in Job /\ "flush" \in Job /\ Job = {"flush", "compaction"}
  BY DEF Job
<1>5. job'["compaction"] = j /\ job'["flush"] = job["flush"] /\
          (Active("flush")' <=> Active("flush"))
  BY <1>2, <1>4, JobChange
<1>6. JobView("compaction")'
  BY <1>1, <1>3, <1>4, <1>5, FirstView
<1>7. JobView("flush")'
  <2>1. \A s \in Readable' : s \in Readable \/ s = last_sequence + 1
    BY <1>1 DEF Readable
  <2> QED BY <1>1, <1>4, <1>5, <2>1, JobViewKept
<1>8. ~Active("compaction")'
  BY <1>3, <1>5 DEF Active
<1>9. \A n \in DOMAIN sv : \A k \in Job : Active(k)' => job'[k].file \notin sv[n].files
  BY <1>4, <1>5, <1>8, TablesBound
<1>10. \A k \in Job : JobView(k)'
  BY <1>4, <1>6, <1>7
<1> QED BY <1>1, <1>9, <1>10, TablesBound, JobViews

(***************************************************************************)
(* The end of a job.                                                       *)
(***************************************************************************)
LEMMA EndJobViews ==
    ASSUME TInv, RInv, VInv, TInv', NEW k \in Job, Fail(k) \/ Finish(k) \/ PurgeAfterJob(k)
    PROVE  VInv'
<1>1. /\ UNCHANGED <<last_sequence, snapshots, memtables, mem, imm>> /\
             UNCHANGED <<current, sv, rd>>
      /\ tables' = tables
  BY DEF Fail, Finish, PurgeAfterJob, Purge, data
<1>2. PICK j : job' = [job EXCEPT ![k] = j] /\ j.pc \in {"Idle", "Finish", "Purge"}
  <2>1. CASE Fail(k)
    <3>1. job' = [job EXCEPT ![k] = [job[k] EXCEPT !.pc = "Finish", !.version = {}, !.ok = FALSE]]
      BY <2>1 DEF Fail
    <3>2. [job[k] EXCEPT !.pc = "Finish", !.version = {}, !.ok = FALSE].pc = "Finish"
      BY JobFields DEF JobState
    <3> QED BY <3>1, <3>2
  <2>2. CASE Finish(k)
    <3>1. PICK found : job' = [job EXCEPT ![k] = IF found = {} THEN NewJob
                                          ELSE [NewJob EXCEPT !.pc = "Purge", !.purge = found]]
      BY <2>2 DEF Finish
    <3>2. NewJob.pc = "Idle" /\ [NewJob EXCEPT !.pc = "Purge", !.purge = found].pc = "Purge"
      BY NewJobType DEF JobState
    <3> QED BY <3>1, <3>2
  <2>3. CASE PurgeAfterJob(k)
    BY <2>3, NewJobType DEF PurgeAfterJob
  <2> QED BY <2>1, <2>2, <2>3
<1>3. job'[k] = j /\ \A o \in Job \ {k} : job'[o] = job[o] /\ (Active(o)' <=> Active(o))
  BY <1>2, JobChange
<1>4. JobView(k)' /\ ~Active(k)'
  BY <1>2, <1>3 DEF JobView, Active
<1>5. \A s \in Readable' : s \in Readable \/ s = last_sequence + 1
  BY <1>1 DEF Readable
<1>6. \A o \in Job \ {k} : JobView(o)'
  BY <1>1, <1>3, <1>5, JobViewKept
<1>7. \A n \in DOMAIN sv : \A o \in Job : Active(o)' => job'[o].file \notin sv[n].files
  BY <1>3, <1>4, TablesBound
<1>8. \A o \in Job : JobView(o)'
  BY <1>4, <1>6
<1> QED BY <1>1, <1>7, <1>8, TablesBound, JobViews

(***************************************************************************)
(* A table keeps, of what it is made of, what the snapshots and the newest *)
(* reads see.                                                              *)
(***************************************************************************)
LEMMA CompactedKeeps ==
    ASSUME NEW es, NEW snaps, NEW b \in Nat, es \subseteq 1..b, NEW s \in es,
           s \in snaps \/ \A e \in es : e <= s
    PROVE  s \in Compacted(es, snaps)
<1>1. s <= s
  BY SMT
<1> QED BY <1>1 DEF Compacted

(***************************************************************************)
(* The table holds all that a read may look for, also at snapshots taken   *)
(* since the job began: they see the newest of its entries.                *)
(***************************************************************************)
LEMMA WriteTableViews ==
    ASSUME TInv, RInv, FInv, VInv, TInv', NEW k \in Job, WriteTable(k) PROVE VInv'
<1>1. /\ UNCHANGED <<last_sequence, snapshots, memtables, mem, imm>> /\
             UNCHANGED <<current, sv, rd>>
      /\ job[k].pc = "Write"
  BY DEF WriteTable, data
<1>2. PICK file : file = IF k = "flush" THEN job[k].file ELSE Len(tables) + 1
  OBVIOUS
<1>3. /\ DOMAIN tables' = DOMAIN tables \cup {file} /\ (file \in DOMAIN tables => k = "flush")
      /\ tables'[file] = Compacted(Source(k), job[k].snapshots)
      /\ \A f \in DOMAIN tables \ {file} : tables'[f] = tables[f]
  BY <1>2, WriteTableFile
<1>4. PICK j : job' = [job EXCEPT ![k] = j] /\ j = [job[k] EXCEPT !.pc = "Commit", !.file = file]
  BY <1>2 DEF WriteTable
<1>5. j.pc = "Commit" /\ j.file = file /\ j.input = job[k].input /\ j.snapshots = job[k].snapshots
  BY <1>4, JobFields DEF JobState
<1>6. job'[k] = j /\ \A o \in Job \ {k} : job'[o] = job[o] /\ (Active(o)' <=> Active(o))
  BY <1>4, JobChange
<1>7. \A n \in DOMAIN sv : file \notin sv[n].files
  <2>1. CASE file \in DOMAIN tables
    <3>1. Active(k) /\ file = job[k].file
      BY <1>1, <1>2, <1>3, <2>1 DEF Active
    <3> QED BY <3>1, TablesBound
  <2>2. CASE file \notin DOMAIN tables
    BY <2>2, TablesBound
  <2> QED BY <2>1, <2>2
<1>8. \A n \in DOMAIN sv : \A f \in sv[n].files : tables'[f] = tables[f]
  BY <1>3, <1>7, TablesBound
<1>9. \A f \in current : tables'[f] = tables[f]
  BY <1>8, TablesBound
<1>10. Source(k) \subseteq 1..last_sequence /\ last_sequence \in Nat
  BY SourceBound, Types DEF DataTypes
<1>11. \A f \in DOMAIN tables' : tables'[f] \subseteq 1..last_sequence
  <2>1. Compacted(Source(k), job[k].snapshots) \subseteq Source(k)
    BY DEF Compacted
  <2> QED BY <1>3, <1>10, <2>1, TablesBound
<1>12. Readable' = Readable
  BY <1>1 DEF Readable
<1>13. JobView(k)'
  <2>1. /\ job[k].input \subseteq IF k = "flush" THEN imm ELSE current
        /\ \A s \in Readable : s \in job[k].snapshots \/ \A e \in Source(k) : e <= s
    BY <1>1, Views DEF JobView
  <2>2. \A e : e \in Source(k)' <=> e \in Source(k)
    BY SMTT(30), <1>1, <1>5, <1>6, <1>9, <2>1, SourceMember, SourcePrime
  <2>3. ASSUME NEW s \in Readable, s \in Source(k) PROVE s \in tables'[file]
    BY SMTT(30), <1>3, <1>10, <2>1, <2>3, CompactedKeeps
  <2>4. /\ job'[k].input \subseteq IF k = "flush" THEN imm' ELSE current'
        /\ \A s \in Readable' : s \in job'[k].snapshots \/ \A e \in Source(k)' : e <= s
        /\ \A s \in Readable' : s \in Source(k)' => s \in tables'[job'[k].file]
    BY <1>1, <1>5, <1>6, <1>12, <2>1, <2>2, <2>3
  <2> QED BY <2>4 DEF JobView
<1>14. ASSUME NEW o \in Job \ {k} PROVE JobView(o)'
  <2>1. job[o].pc = "Commit" => tables'[job[o].file] = tables[job[o].file]
    <3> SUFFICES ASSUME job[o].pc = "Commit" PROVE job[o].file \in DOMAIN tables /\
            job[o].file # file
      BY <1>3
    <3>1. job[o].file \in DOMAIN tables
      BY JobFields
    <3>2. CASE file \in DOMAIN tables
      <4>1. Active(k) /\ file = job[k].file /\ Active(o)
        BY <1>1, <1>2, <1>3, <3>2 DEF Active
      <4> QED BY <3>1, <4>1, Files DEF LiveSafe, OutputsSafe, JobsOrdered
    <3> QED BY <3>1, <3>2
  <2>2. \A s \in Readable' : s \in Readable \/ s = last_sequence + 1
    BY <1>12
  <2> QED BY <1>1, <1>6, <1>9, <2>1, <2>2, JobViewKept
<1>15. \A n \in DOMAIN sv : \A o \in Job : Active(o)' => job'[o].file \notin sv[n].files
  BY <1>5, <1>6, <1>7, TablesBound
<1>16. \A o \in Job : JobView(o)'
  BY <1>13, <1>14
<1> QED BY <1>1, <1>8, <1>11, <1>15, <1>16, JobViews

(***************************************************************************)
(* At the start there is nothing to find.                                  *)
(***************************************************************************)
LEMMA InitViews == Init => VInv
<1> SUFFICES ASSUME Init PROVE VInv
  OBVIOUS
<1>1. /\ last_sequence = 0 /\ snapshots = {} /\ memtables = <<{}>> /\ mem = 1 /\ imm = {}
      /\ tables = <<>> /\ current = {}
      /\ sv = <<[mem |-> 1, imm |-> {}, files |-> {}, refs |-> 1, freed |-> FALSE]>>
  BY DEF Init
<1>2. Len(sv) = 1 /\ sv[1] = [mem |-> 1, imm |-> {}, files |-> {}, refs |-> 1, freed |-> FALSE]
      /\ DOMAIN sv = {1}
  BY SMT, <1>1
<1>3. \A k \in Job : job[k].pc = "Idle"
  BY DEF Init, NewJob
<1>4. \A r \in Reader : rd[r].pc = "Idle"
  BY NewReaderType DEF Init
<1>5. /\ \A m \in DOMAIN memtables : memtables[m] \subseteq 1..last_sequence
      /\ \A f \in DOMAIN tables : tables[f] \subseteq 1..last_sequence
  BY SMT, <1>1
<1>6. \A s \in Readable : s = 0
  BY <1>1 DEF Readable
<1>7. sv[Len(sv)].mem = mem /\ sv[Len(sv)].imm = imm /\ sv[Len(sv)].files = current
  BY <1>1, <1>2
<1>8. \A k \in Job : ~Active(k)
  BY <1>3 DEF Active
<1>9. NewestInv
  BY <1>5, <1>6, <1>7, <1>8 DEF NewestInv
<1>10. \A k \in Job : JobView(k)
  BY <1>3 DEF JobView
<1> QED BY <1>4, <1>9, <1>10, IdleView, Views

(***************************************************************************)
(* The invariant of the views is inductive, given those of types, counts   *)
(* and files.                                                              *)
(***************************************************************************)
LEMMA ViewsNext == ASSUME SetFacts, TInv, RInv, FInv, VInv, TInv', [Next]_vars PROVE VInv'
<1>1. CASE \E r \in Reader :
        \/ NewIterator(r) \/ Get(r) \/ SwapForIterator(r) \/ CheckVersionNumber(r)
        \/ Acquire(r) \/ GetImpl(r) \/ ReturnFromGet(r) \/ ReturnFromNewIterator(r)
        \/ MultiGet(r) \/ EndMultiGet(r) \/ CleanupSuperVersion(r) \/ UnrefIterator(r)
        \/ CleanupIteratorState(r) \/ PurgeAfterIterator(r) \/ ThreadExit(r)
  BY <1>1, BeginViews, TakeViews, GetImplViews, ReturnIteratorViews, MultiGetViews, EndViews,
     ExitViews
<1>2. CASE \E k \in Job : WriteTable(k) \/ Commit(k) \/ Fail(k) \/ Finish(k) \/ PurgeAfterJob(k)
  BY <1>2, WriteTableViews, CommitViews, EndJobViews
<1>3. CASE StartFlush \/ StartCompaction \/ SwitchMemtable
  BY <1>3, StartFlushViews, StartCompactionViews, SwitchViews
<1>4. CASE \/ Write \/ GetSnapshot \/ ReleaseSnapshot \/ UnrefScraped \/ UnrefOld
           \/ UNCHANGED vars \/ \E r \in Reader : Scrape(r)
  BY <1>4, WriteViews, SnapshotViews, WriterViews
<1> QED BY <1>1, <1>2, <1>3, <1>4 DEF Next

(***************************************************************************)
(* ReadsCorrect follows from the invariant of the views.                   *)
(***************************************************************************)
LEMMA ViewsHold == ASSUME VInv PROVE ReadsCorrect
  BY Views DEF ReaderView, Finished, ReadsCorrect, HasRead
============================================================================
