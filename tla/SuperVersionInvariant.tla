----------------------- MODULE SuperVersionInvariant -----------------------
(***************************************************************************)
(* The inductive invariant of SuperVersion, in four parts: the types       *)
(* (TInv), the reference counts (RInv), the files (FInv) and what reads    *)
(* find (VInv), and lemmas about the operators of SuperVersion and the     *)
(* types that the proofs of all of them use.                               *)
(***************************************************************************)
EXTENDS SuperVersion, TLAPS

(***************************************************************************)
(* What the proofs use of the theory of finite sets: a bounded set of      *)
(* natural numbers has a greatest element, and the cardinality of a finite *)
(* set. SuperVersionProofs proves it from the theorems of the library. The *)
(* lemmas before it assume it, so that they need not those theorems among  *)
(* their hypotheses.                                                       *)
(***************************************************************************)
SetFacts ==
    /\ \A S \in SUBSET Nat : \A b \in Nat :
          S # {} /\ (\A x \in S : x <= b) => \E x \in S : \A y \in S : y <= x
    /\ Cardinality({}) = 0
    /\ \A S : IsFiniteSet(S) => Cardinality(S) \in Nat /\ (Cardinality(S) = 0 <=> S = {})
    /\ \A S : IsFiniteSet(S) => \A T \in SUBSET S : IsFiniteSet(T)
    /\ \A S, x : IsFiniteSet(S) =>
          /\ IsFiniteSet(S \cup {x})
          /\ Cardinality(S \cup {x}) = IF x \in S THEN Cardinality(S) ELSE Cardinality(S) + 1
          /\ IsFiniteSet(S \ {x})
          /\ Cardinality(S \ {x}) = IF x \in S THEN Cardinality(S) - 1 ELSE Cardinality(S)

\* The values of super versions, readers and jobs.
SuperVersions == [mem : Nat, imm : SUBSET Nat, files : SUBSET Nat, refs : Int, freed : BOOLEAN]

ReaderState ==
    [pc : {"Idle", "Swap", "Check", "Acquire", "Snapshot", "Return", "Release", "Cleanup",
           "IterCleanup", "Purge"},
     op : {Null} \cup Operation, sv : Int, last : BOOLEAN, snapshot : Nat, start : Nat,
     value : Nat, purge : SUBSET Nat]

JobState ==
    [pc : {"Idle", "Write", "Commit", "Finish", "Purge"}, input : SUBSET Nat, file : Nat,
     version : SUBSET Nat, snapshots : SUBSET Nat, pending : Nat, ok : BOOLEAN,
     purge : SUBSET Nat]

\* The types of the variables, as needed in the proofs below.
DataTypes ==
    /\ todo \in Workload
    /\ last_sequence \in Nat /\ last_sequence <= todo.maxSequence
    /\ snapshots \subseteq 0..last_sequence
    /\ memtables \in Seq(SUBSET Nat) /\ mem \in Nat \ {0} /\ mem = Len(memtables)
    /\ imm \subseteq 1..(mem - 1)

FileTypes ==
    /\ tables \in Seq(SUBSET Nat) /\ Len(tables) <= todo.maxFiles
    /\ current \subseteq DOMAIN tables /\ disk \subseteq DOMAIN tables
    /\ obsolete_files \subseteq DOMAIN tables /\ grabbed \subseteq DOMAIN tables

ViewTypes ==
    /\ sv \in Seq(SuperVersions) /\ Len(sv) > 0
    /\ \A n \in DOMAIN sv :
        /\ sv[n].mem \in DOMAIN memtables /\ sv[n].imm \subseteq DOMAIN memtables
        /\ sv[n].files \subseteq DOMAIN tables

ThreadTypes ==
    /\ mutex \in {Null, "writer"} \cup Job
    /\ local_sv \in [Reader -> {kSVObsolete, kSVInUse} \cup DOMAIN sv]
    /\ install \in [old : Nat, todo : SUBSET Reader, scraped : SUBSET (Reader \X Nat)]
    /\ IsFiniteSet(install.scraped)
    /\ rd \in [Reader -> ReaderState]
    /\ \A r \in Reader : rd[r].purge \subseteq DOMAIN tables

JobTypes ==
    /\ job \in [Job -> JobState]
    /\ \A k \in Job : /\ job[k].version \subseteq DOMAIN tables
                      /\ job[k].purge \subseteq DOMAIN tables
                      /\ job[k].file = 0 \/ job[k].file \in DOMAIN tables
    /\ job["flush"].input \subseteq DOMAIN memtables
    /\ job["compaction"].input \subseteq DOMAIN tables
    /\ job["flush"].pc \in {"Write", "Commit"} => job["flush"].file # 0
    /\ job["compaction"].pc = "Commit" => job["compaction"].file # 0

(***************************************************************************)
(* The typing invariant. It says more than TypeOK: what refers to a        *)
(* memtable or a file refers to one that exists.                           *)
(***************************************************************************)
TInv == DataTypes /\ FileTypes /\ ViewTypes /\ ThreadTypes /\ JobTypes

\* The entries that job k reads.
Source(k) == UNION IF k = "flush" THEN {memtables[m] : m \in job[k].input}
                                  ELSE {tables[f] : f \in job[k].input}

----------------------------------------------------------------------------
\* Holds and Cleaning for a reader in state d.
Holding(d, n) == d.sv = n /\ d.pc \in {"Check", "Snapshot", "Return", "Release"}

CleaningUp(d, n) ==
    /\ d.sv = n
    /\ d.pc \in {"Cleanup", "IterCleanup"} \/ (d.pc = "Acquire" /\ d.last)

\* Whether the pointer n of reader r is safe from being the last.
Owned(n) == n \in {Len(sv), install.old}
Fresh(r, n) == n = Len(sv) \/ (n = install.old /\ r \in install.todo)

(***************************************************************************)
(* Reader r in state d, with v in its cache. The last two lines are why    *)
(* caches never hold the last reference: a cached pointer, also one that   *)
(* is out of the cache for a read, is that of a super version that has a   *)
(* reference of its own. A read that is overtaken by an install finds its  *)
(* cache scraped.                                                          *)
(***************************************************************************)
ReaderInv(r, d, v) ==
    /\ d.pc \in {"Idle", "Swap", "Release", "Cleanup", "IterCleanup", "Purge"} => v # kSVInUse
    /\ d.pc \in {"Snapshot", "Return", "Release", "Cleanup", "IterCleanup"} => d.sv \in DOMAIN sv
    /\ d.pc \in {"Check", "Acquire"} => d.sv \in {0} \cup DOMAIN sv
    /\ d.pc = "Acquire" /\ d.last => d.sv \in DOMAIN sv
    /\ d.pc # "Idle" => d.op \in Operation
    /\ v > 0 => Fresh(r, v)
    /\ v = kSVInUse /\ d.pc \in {"Check", "Snapshot", "Return"} /\ d.sv # 0 => Fresh(r, d.sv)

\* The InstallSuperVersion under way holds mutex_, or its job does.
InstallInv ==
    /\ install.old < Len(sv)
    /\ install.old = 0 => install = NoInstall
    /\ mutex = Null => install.old = 0
    /\ \A p \in install.scraped : Owned(p[2]) /\ p[2] # 0 /\ p[1] \notin install.todo

\* Those who have a reference to n, besides its owner.
CacheOf(n) == {r \in Reader : local_sv[r] = n}
ScrapedOf(n) == {p \in install.scraped : p[2] = n}
HoldersOf(n) == {r \in Reader : Holding(rd[r], n)}

One(b) == IF b THEN 1 ELSE 0

\* The first line of RefsCountHolders, and the other two.
Counted(n) ==
    sv[n].refs = One(Owned(n)) + Cardinality(CacheOf(n)) + Cardinality(ScrapedOf(n))
                    + Cardinality(HoldersOf(n))

Cleaned(n) ==
    /\ \A r, q \in Reader : CleaningUp(rd[r], n) /\ CleaningUp(rd[q], n) => r = q
    /\ \A r \in Reader : CleaningUp(rd[r], n) => sv[n].refs = 0
    /\ sv[n].freed <=> (sv[n].refs = 0 /\ \A r \in Reader : ~CleaningUp(rd[r], n))

(***************************************************************************)
(* The inductive invariant of the reference counts. RefsCountHolders alone *)
(* is not inductive: that the reference which Scrape, UnrefScraped and a   *)
(* thread that exits drop is not the last follows from whose pointers can  *)
(* be in caches.                                                           *)
(***************************************************************************)
RInv ==
    /\ InstallInv
    /\ \A r \in Reader : ReaderInv(r, rd[r], local_sv[r])
    /\ \A n \in DOMAIN sv : Counted(n) /\ Cleaned(n)

----------------------------------------------------------------------------
\* The output of job k has a number, and the file is not in a Version yet.
Active(k) == job[k].pc = "Commit" \/ (k = "flush" /\ job[k].pc = "Write")

\* Something refers to a Version with file f,
LiveFile(f) == f \in LiveFiles(current, sv, job)

\* or f is to be deleted.
Marked(f) ==
    \/ f \in obsolete_files
    \/ \E r \in Reader : f \in rd[r].purge
    \/ \E k \in Job : f \in job[k].purge

\* What is live is on disk and stays there,
LiveSafe == \A f \in DOMAIN tables : LiveFile(f) => f \in disk /\ ~Marked(f)

\* the output of a job is neither live nor to be deleted, and has its own number,
OutputsSafe ==
    \A k \in Job : Active(k) =>
        /\ ~LiveFile(job[k].file) /\ ~Marked(job[k].file)
        /\ job[k].file >= job[k].pending
        /\ \A o \in Job \ {k} : Active(o) => job[k].file # job[o].file

\* and a job that may write has a number in pending_outputs_.
JobsOrdered ==
    \A k \in Job :
        /\ job[k].pc = "Commit" => job[k].file \in disk
        /\ job[k].pc \in {"Write", "Commit"} => job[k].pending # 0
        /\ job[k].pc = "Write" => job[k].pending <= Len(tables) + 1

(***************************************************************************)
(* The inductive invariant of the files. A file to be deleted, in          *)
(* obsolete_files or in the list of a purge that runs without mutex_, must *)
(* not become live again, so the output of a job must not be among them:   *)
(* its number is not below the one in pending_outputs_, which spares it    *)
(* from scans.                                                             *)
(***************************************************************************)
FInv == LiveSafe /\ OutputsSafe /\ JobsOrdered

----------------------------------------------------------------------------
\* The sequence numbers at which a read may begin.
Readable == snapshots \cup {last_sequence}

\* The newest super version is that of the column family, and has what reads look for.
NewestInv ==
    /\ \A m \in DOMAIN memtables : memtables[m] \subseteq 1..last_sequence
    /\ \A f \in DOMAIN tables : tables[f] \subseteq 1..last_sequence
    /\ sv[Len(sv)].mem = mem /\ sv[Len(sv)].imm = imm /\ sv[Len(sv)].files = current
    /\ \A s \in Readable : s = 0 \/ s \in Entries(Len(sv))
    /\ \A n \in DOMAIN sv : \A k \in Job : Active(k) => job[k].file \notin sv[n].files

\* What job k may drop no read can look for.
JobView(k) ==
    job[k].pc \in {"Write", "Commit"} =>
        /\ job[k].input \subseteq IF k = "flush" THEN imm ELSE current
        /\ \A s \in Readable : s \in job[k].snapshots \/ \A e \in Source(k) : e <= s
        /\ job[k].pc = "Commit" =>
             \A s \in Readable : s \in Source(k) => s \in tables[job[k].file]

\* A reader in state d can find what it must,
Visible(d) ==
    IF d.op.snapshot THEN d.snapshot = 0 \/ d.snapshot \in Entries(d.sv)
    ELSE d.start = 0 \/ \E e \in Entries(d.sv) : d.start <= e

\* and has looked for it.
Finished(d) ==
    \/ d.op.kind = "Get" /\ d.pc = "Return"
    \/ d.op.kind # "Get" /\ d.pc = "Release"

\* What a reader in state d relies on.
ReaderView(d) ==
    d.pc # "Idle" =>
        /\ d.start <= last_sequence
        /\ d.op.snapshot /\ d.pc \in {"Swap", "Check", "Acquire", "Snapshot"} =>
              d.snapshot \in snapshots
        /\ d.pc \in {"Snapshot", "Return"} => Visible(d)
        /\ Finished(d) =>
              IF d.op.snapshot THEN d.value = d.snapshot
              ELSE d.op.kind # "NewIterator" => d.value >= d.start

(***************************************************************************)
(* The inductive invariant of the views. ReadsCorrect speaks of reads that *)
(* are done; that they find the right entry depends on what the super      *)
(* version held when it was taken, and so on what flushes and compactions  *)
(* keep: the entry of every snapshot not released, and of LastSequence().  *)
(***************************************************************************)
VInv ==
    /\ NewestInv
    /\ \A k \in Job : JobView(k)
    /\ \A r \in Reader : ReaderView(rd[r])

----------------------------------------------------------------------------
\* Most leaves are for Zenon; those that need arithmetic or sequences name SMT.
USE Zenon

(***************************************************************************)
(* A bounded set of natural numbers has a greatest element.                *)
(***************************************************************************)
LEMMA Greatest ==
    ASSUME SetFacts, NEW S, S \subseteq Nat, S # {}, NEW b \in Nat, \A x \in S : x <= b
    PROVE  \E x \in S : \A y \in S : y <= x
  BY DEF SetFacts

(***************************************************************************)
(* The empty set is finite.                                                *)
(***************************************************************************)
LEMMA EmptyIsFinite == IsFiniteSet({})
<1>1. <<>> \in Seq({})
  BY SMT
<1> QED BY <1>1 DEF IsFiniteSet

(***************************************************************************)
(* TInv is the conjunction of its parts, now and in the next state.        *)
(***************************************************************************)
LEMMA Types ==
    /\ TInv <=> DataTypes /\ FileTypes /\ ViewTypes /\ ThreadTypes /\ JobTypes
    /\ TInv' <=> DataTypes' /\ FileTypes' /\ ViewTypes' /\ ThreadTypes' /\ JobTypes'
BY DEF TInv

(***************************************************************************)
(* RInv is the conjunction of its parts, now and in the next state.        *)
(***************************************************************************)
LEMMA Refs ==
    /\ RInv <=> (InstallInv /\ (\A r \in Reader : ReaderInv(r, rd[r], local_sv[r]))
                          /\ (\A n \in DOMAIN sv : Counted(n) /\ Cleaned(n)))
    /\ RInv' <=> (InstallInv' /\ (\A r \in Reader : ReaderInv(r, rd[r], local_sv[r])')
                            /\ (\A n \in DOMAIN sv' : Counted(n)' /\ Cleaned(n)'))
BY DEF RInv

(***************************************************************************)
(* InstallSuperVersion puts one super version at the end and leaves the    *)
(* others alone.                                                           *)
(***************************************************************************)
LEMMA NewViewTypes ==
    ASSUME TInv, NEW k \in {"writer"} \cup Job, InstallSuperVersion(k),
           UNCHANGED <<local_sv, rd, tables>>,
           mem' \in DOMAIN memtables', imm' \subseteq DOMAIN memtables',
             current' \subseteq DOMAIN tables',
           DOMAIN memtables \subseteq DOMAIN memtables',
           mem' \in Nat, imm' \subseteq Nat
    PROVE  /\ ViewTypes' /\ ThreadTypes' /\ Len(sv') = Len(sv) + 1
           /\ \A n \in DOMAIN sv : sv'[n] = sv[n]
           /\ sv'[Len(sv) + 1] =
                [mem |-> mem', imm |-> imm', files |-> current', refs |-> 1, freed |-> FALSE]
<1> DEFINE new == [mem |-> mem', imm |-> imm', files |-> current', refs |-> 1, freed |-> FALSE]
<1>1. SuperVersions' = SuperVersions /\ ReaderState' = ReaderState
      /\ Job' = Job /\ kSVInUse' = kSVInUse /\ kSVObsolete' = kSVObsolete
  BY DEF SuperVersions, ReaderState, Operation, Job, kSVInUse, kSVObsolete
<1>2. current' \subseteq Nat
  BY SMT, Types DEF FileTypes
<1>3. new \in SuperVersions
  <2>1. 1 \in Int /\ FALSE \in BOOLEAN
    BY SMT
  <2> QED BY <1>2, <2>1 DEF SuperVersions
<1>4. /\ sv' = Append(sv, new) /\ install' = [old |-> Len(sv), todo |-> Reader, scraped |-> {}]
      /\ mutex' = k /\ sv \in Seq(SuperVersions)
  BY Types DEF InstallSuperVersion, ViewTypes
<1>5. new.mem = mem' /\ new.imm = imm' /\ new.files = current'
  OBVIOUS
<1> HIDE DEF SuperVersions, ReaderState, Job, new
<1>6. sv' \in Seq(SuperVersions) /\ Len(sv') = Len(sv) + 1 /\ sv'[Len(sv) + 1] = new
      /\ \A n \in DOMAIN sv : sv'[n] = sv[n]
  BY SMT, <1>3, <1>4
<1>7. DOMAIN sv = 1 .. Len(sv) /\ DOMAIN sv' = 1 .. Len(sv) + 1 /\ Len(sv) \in Nat
  BY SMT, <1>4, <1>6
<1>8. ViewTypes'
  <2>1. ASSUME NEW n \in DOMAIN sv'
        PROVE  /\ sv'[n].mem \in DOMAIN memtables' /\ sv'[n].imm \subseteq DOMAIN memtables'
               /\ sv'[n].files \subseteq DOMAIN tables'
    <3>1. CASE n \in DOMAIN sv
      BY <3>1, <1>6, Types DEF ViewTypes
    <3>2. CASE n = Len(sv) + 1
      BY <3>2, <1>5, <1>6
    <3> QED BY SMT, <3>1, <3>2, <1>7
  <2> QED BY SMT, <1>1, <1>6, <1>7, <2>1 DEF ViewTypes
<1>9. ThreadTypes'
  <2>1. local_sv' \in [Reader -> {kSVObsolete, kSVInUse} \cup DOMAIN sv']
    BY SMT, <1>7, Types DEF ThreadTypes
  <2>2. install' \in [old : Nat, todo : SUBSET Reader, scraped : SUBSET (Reader \X Nat)]
        /\ IsFiniteSet(install'.scraped)
    BY <1>4, <1>7, EmptyIsFinite
  <2> QED BY <1>1, <1>4, <2>1, <2>2, Types DEF ThreadTypes
<1> QED BY <1>6, <1>8, <1>9 DEF new

(***************************************************************************)
(* Definitions without variables are the same in the next state.           *)
(***************************************************************************)
LEMMA Constants ==
    /\ SuperVersions' = SuperVersions /\ ReaderState' = ReaderState /\ JobState' = JobState
    /\ Workload' = Workload /\ Job' = Job /\ kSVInUse' = kSVInUse /\ kSVObsolete' = kSVObsolete
BY DEF SuperVersions, ReaderState, JobState, Workload, Operation, Job, kSVInUse, kSVObsolete

(***************************************************************************)
(* The fields of a super version.                                          *)
(***************************************************************************)
LEMMA ViewFields ==
    ASSUME TInv, NEW n \in DOMAIN sv
    PROVE  sv[n] \in SuperVersions /\ sv[n].refs \in Int /\ sv[n].freed \in BOOLEAN
           /\ n \in Nat /\ n # 0 /\ n <= Len(sv)
<1>1. sv \in Seq(SuperVersions)
  BY Types DEF ViewTypes
<1>2. sv[n] \in SuperVersions /\ n \in 1 .. Len(sv)
  BY SMT, <1>1
<1>3. sv[n].freed \in BOOLEAN
  BY <1>2 DEF SuperVersions
<1>4. sv[n].refs \in Int
  BY <1>2 DEF SuperVersions
<1> QED BY SMT, <1>1, <1>2, <1>3, <1>4

(***************************************************************************)
(* What a call starts with.                                                *)
(***************************************************************************)
LEMMA RequestTypes ==
    ASSUME TInv, NEW r \in Reader, todo.reads[r] # <<>>, NEW d \in Requests(r)
    PROVE  /\ d \in ReaderState /\ d.purge = {} /\ d.sv = 0 /\ ~d.last /\ d.pc = "Idle"
           /\ d.op = Head(todo.reads[r]) /\ d.op \in Operation /\ d.start = last_sequence /\
                d.value = 0
           /\ IF d.op.snapshot THEN d.snapshot \in snapshots ELSE d.snapshot = last_sequence
<1> DEFINE op == Head(todo.reads[r])
<1>1. op \in Operation
  <2>1. todo.reads \in [Reader -> Seq(Operation)]
    BY Types DEF DataTypes, Workload
  <2> QED BY SMT, <2>1
<1>2. PICK s \in IF op.snapshot THEN snapshots ELSE {last_sequence} :
         d = [NewReader EXCEPT !.op = op, !.start = last_sequence, !.snapshot = s]
  BY DEF Requests
<1>3. last_sequence \in Nat /\ s \in Nat
  BY SMT, <1>2, Types DEF DataTypes
<1> HIDE DEF op
<1>4. d = [pc |-> "Idle", op |-> op, sv |-> kSVObsolete, last |-> FALSE, snapshot |-> s,
           start |-> last_sequence, value |-> 0, purge |-> {}]
  BY <1>2 DEF NewReader
<1>5. /\ d.pc = "Idle" /\ d.op = op /\ d.sv = 0 /\ d.last = FALSE /\ d.snapshot = s
      /\ d.start = last_sequence /\ d.value = 0 /\ d.purge = {}
  BY <1>4 DEF kSVObsolete
<1>6. d \in ReaderState
  <2>1. 0 \in Nat /\ 0 \in Int /\ kSVObsolete \in Int /\ {} \in SUBSET Nat /\ FALSE \in BOOLEAN
    BY SMT DEF kSVObsolete
  <2> QED BY <1>1, <1>3, <1>4, <2>1 DEF ReaderState
<1> QED BY <1>1, <1>2, <1>5, <1>6 DEF op

(***************************************************************************)
(* The fields of a reader and its cached pointer.                          *)
(***************************************************************************)
LEMMA ReaderFields ==
    ASSUME TInv, NEW r \in Reader
    PROVE  /\ rd[r] \in ReaderState /\ rd[r].purge \subseteq DOMAIN tables
           /\ rd[r].sv \in Int /\ rd[r].last \in BOOLEAN
           /\ local_sv[r] \in {kSVObsolete, kSVInUse} \cup DOMAIN sv
           /\ local_sv[r] \in Int
<1>1. rd[r] \in ReaderState /\ rd[r].purge \subseteq DOMAIN tables
      /\ local_sv[r] \in {kSVObsolete, kSVInUse} \cup DOMAIN sv
  BY Types DEF ThreadTypes
<1>2. rd[r].sv \in Int
  BY <1>1 DEF ReaderState
<1>3. rd[r].last \in BOOLEAN
  BY <1>1 DEF ReaderState
<1>4. local_sv[r] \in Int
  BY SMT, <1>1, ViewFields DEF kSVObsolete, kSVInUse
<1> QED BY <1>1, <1>2, <1>3, <1>4

(***************************************************************************)
(* An entry of a super version is in one of its memtables or tables.       *)
(***************************************************************************)
LEMMA EntriesMember ==
    ASSUME NEW n, NEW e
    PROVE  e \in Entries(n) <=> \/ \E m \in sv[n].imm \cup {sv[n].mem} : e \in memtables[m]
                               \/ \E f \in sv[n].files : e \in tables[f]
<1> DEFINE A == UNION {memtables[m] : m \in sv[n].imm \cup {sv[n].mem}}
           B == UNION {tables[f] : f \in sv[n].files}
<1>1. e \in A <=> \E m \in sv[n].imm \cup {sv[n].mem} : e \in memtables[m]
  OBVIOUS
<1>2. e \in B <=> \E f \in sv[n].files : e \in tables[f]
  OBVIOUS
<1>3. Entries(n) = A \cup B
  BY DEF Entries
<1> HIDE DEF A, B
<1> QED BY <1>1, <1>2, <1>3

(***************************************************************************)
(* A live file is in the current Version, in that of a super version that  *)
(* is not deleted, or in that of a job.                                    *)
(***************************************************************************)
LEMMA LiveMember ==
    ASSUME NEW cur, NEW svs, NEW jobs, NEW f
    PROVE  f \in LiveFiles(cur, svs, jobs) <=>
              \/ f \in cur
              \/ \E n \in DOMAIN svs : ~svs[n].freed /\ f \in svs[n].files
              \/ \E k \in Job : f \in jobs[k].version
<1> DEFINE A == UNION {svs[n].files : n \in {n \in DOMAIN svs : ~svs[n].freed}}
           B == UNION {jobs[k].version : k \in Job}
<1>1. f \in A <=> \E n \in DOMAIN svs : ~svs[n].freed /\ f \in svs[n].files
  OBVIOUS
<1>2. f \in B <=> \E k \in Job : f \in jobs[k].version
  OBVIOUS
<1>3. LiveFiles(cur, svs, jobs) = cur \cup A \cup B
  BY DEF LiveFiles
<1> HIDE DEF A, B
<1> QED BY <1>1, <1>2, <1>3

(***************************************************************************)
(* Entries are sequence numbers.                                           *)
(***************************************************************************)
LEMMA EntriesType == ASSUME TInv, NEW n \in DOMAIN sv PROVE Entries(n) \subseteq Nat
<1>1. /\ sv[n].mem \in DOMAIN memtables /\ sv[n].imm \subseteq DOMAIN memtables
      /\ sv[n].files \subseteq DOMAIN tables
      /\ memtables \in Seq(SUBSET Nat) /\ tables \in Seq(SUBSET Nat)
  BY Types DEF ViewTypes, DataTypes, FileTypes
<1>2. /\ \A m \in DOMAIN memtables : memtables[m] \subseteq Nat
      /\ \A f \in DOMAIN tables : tables[f] \subseteq Nat
  BY SMT, <1>1
<1> QED BY <1>1, <1>2, EntriesMember

(***************************************************************************)
(* A lookup finds the newest entry that is not newer than s, if there is   *)
(* one.                                                                    *)
(***************************************************************************)
LEMMA LookupProperty ==
    ASSUME SetFacts, TInv, NEW n \in DOMAIN sv, NEW s \in Nat
    PROVE  /\ Lookup(n, s) \in Nat /\ Lookup(n, s) <= s
           /\ Lookup(n, s) \in Entries(n) \cup {0}
           /\ \A e \in Entries(n) : e <= s => e <= Lookup(n, s)
<1> DEFINE S == {e \in Entries(n) : e <= s} \cup {0}
<1>1. S \subseteq Nat /\ S # {} /\ \A x \in S : x <= s
  BY SMT, EntriesType
<1>2. Lookup(n, s) \in S /\ \A y \in S : y <= Lookup(n, s)
  <2>1. Lookup(n, s) = CHOOSE e \in S : \A d \in S : d <= e
    BY DEF Lookup
  <2> HIDE DEF S
  <2>2. \E x \in S : \A y \in S : y <= x
    BY <1>1, Greatest
  <2> QED BY <2>1, <2>2
<1> QED BY <1>1, <1>2

(***************************************************************************)
(* Live files have been numbered.                                          *)
(***************************************************************************)
LEMMA LiveType == ASSUME TInv PROVE LiveFiles(current, sv, job) \subseteq DOMAIN tables
<1>1. current \subseteq DOMAIN tables /\ \A n \in DOMAIN sv : sv[n].files \subseteq DOMAIN tables
  BY Types DEF FileTypes, ViewTypes
<1>2. \A k \in Job : job[k].version \subseteq DOMAIN tables
  BY Types DEF JobTypes
<1> QED BY <1>1, <1>2, LiveMember

(***************************************************************************)
(* A reader between two calls has no reference.                            *)
(***************************************************************************)
LEMMA NewReaderType ==
    /\ NewReader \in ReaderState /\ NewReader.pc = "Idle" /\ NewReader.purge = {}
    /\ \A n : ~Holding(NewReader, n) /\ ~CleaningUp(NewReader, n)
<1>1. NewReader \in ReaderState
  BY SMT DEF NewReader, ReaderState, kSVObsolete
<1>2. NewReader.pc = "Idle" /\ NewReader.purge = {}
  BY DEF NewReader
<1> QED BY <1>1, <1>2 DEF Holding, CleaningUp

(***************************************************************************)
(* Files of dropped Versions have been numbered.                           *)
(***************************************************************************)
LEMMA DropTypes == ASSUME TInv, DropVersions PROVE obsolete_files' \subseteq DOMAIN tables
<1>1. obsolete_files \subseteq DOMAIN tables
  BY Types DEF FileTypes
<1>2. LiveFiles(current, sv, job) \subseteq DOMAIN tables
  BY LiveType
<1> QED BY <1>1, <1>2 DEF DropVersions

(***************************************************************************)
(* The fields of a job.                                                    *)
(***************************************************************************)
LEMMA JobFields ==
    ASSUME TInv, NEW k \in Job
    PROVE  /\ job[k] \in JobState /\ job[k].version \subseteq DOMAIN tables
           /\ job[k].purge \subseteq DOMAIN tables
           /\ job[k].file = 0 \/ job[k].file \in DOMAIN tables
           /\ k = "flush" => job[k].input \subseteq DOMAIN memtables
           /\ k = "compaction" => job[k].input \subseteq DOMAIN tables
           /\ k = "flush" /\ job[k].pc \in {"Write", "Commit"} => job[k].file # 0
           /\ job[k].pc = "Commit" => job[k].file \in DOMAIN tables
BY Types DEF JobTypes, Job

(***************************************************************************)
(* A job in a new state j keeps the types.                                 *)
(***************************************************************************)
LEMMA JobDone ==
    ASSUME TInv, NEW k \in Job, NEW j \in JobState, job' = [job EXCEPT ![k] = j],
           DOMAIN memtables \subseteq DOMAIN memtables', DOMAIN tables \subseteq DOMAIN tables',
           j.version \subseteq DOMAIN tables', j.purge \subseteq DOMAIN tables',
           j.file = 0 \/ j.file \in DOMAIN tables',
           k = "flush" => j.input \subseteq DOMAIN memtables',
           k = "compaction" => j.input \subseteq DOMAIN tables',
           k = "flush" /\ j.pc \in {"Write", "Commit"} => j.file # 0,
           k = "compaction" /\ j.pc = "Commit" => j.file # 0
    PROVE  JobTypes'
<1>1. "flush" \in Job /\ "compaction" \in Job
  BY DEF Job
<1>2. job \in [Job -> JobState]
  BY Types DEF JobTypes
<1>3. job' \in [Job -> JobState] /\ job'[k] = j /\ \A o \in Job \ {k} : job'[o] = job[o]
  BY <1>2
<1>4. \A o \in Job : /\ job'[o].version \subseteq DOMAIN tables'
                     /\ job'[o].purge \subseteq DOMAIN tables'
                     /\ job'[o].file = 0 \/ job'[o].file \in DOMAIN tables'
  BY <1>3, JobFields
<1>5. /\ job'["flush"].input \subseteq DOMAIN memtables'
      /\ job'["compaction"].input \subseteq DOMAIN tables'
      /\ job'["flush"].pc \in {"Write", "Commit"} => job'["flush"].file # 0
      /\ job'["compaction"].pc = "Commit" => job'["compaction"].file # 0
  BY <1>1, <1>3, Types DEF JobTypes
<1> QED BY <1>3, <1>4, <1>5, Constants DEF JobTypes

(***************************************************************************)
(* A job that is idle.                                                     *)
(***************************************************************************)
LEMMA NewJobType ==
    /\ NewJob \in JobState /\ NewJob.pc = "Idle" /\ NewJob.version = {} /\ NewJob.purge = {}
    /\ NewJob.file = 0 /\ NewJob.input = {} /\ NewJob.pending = 0
BY DEF NewJob, JobState

(***************************************************************************)
(* A function on 1..n is a sequence.                                       *)
(***************************************************************************)
LEMMA FunctionIsSeq ==
    ASSUME NEW S, NEW n \in Nat, NEW f \in [1 .. n -> S]
    PROVE  f \in Seq(S) /\ Len(f) = n
<1>1. f \in Seq(S)
  BY SMT
<1>2. Len(f) = n
  BY SMT, <1>1
<1> QED BY <1>1, <1>2

(***************************************************************************)
(* A job reads sequence numbers.                                           *)
(***************************************************************************)
LEMMA SourceType == ASSUME TInv, NEW k \in Job PROVE Source(k) \subseteq Nat
<1>1. memtables \in Seq(SUBSET Nat) /\ tables \in Seq(SUBSET Nat)
  BY Types DEF DataTypes, FileTypes
<1>2. \A m \in DOMAIN memtables : memtables[m] \subseteq Nat
  BY SMT, <1>1
<1>3. \A f \in DOMAIN tables : tables[f] \subseteq Nat
  BY SMT, <1>1
<1>4. CASE k = "flush"
  BY <1>2, <1>4, JobFields DEF Source
<1>5. CASE k = "compaction"
  BY <1>3, <1>5, JobFields DEF Source
<1> QED BY <1>4, <1>5 DEF Job

(***************************************************************************)
(* WriteTable fills one table, that of a number reserved before or of the  *)
(* next one, and leaves the others.                                        *)
(***************************************************************************)
LEMMA WriteTableFile ==
    ASSUME TInv, NEW k \in Job, WriteTable(k)
    PROVE  LET file == IF k = "flush" THEN job[k].file ELSE Len(tables) + 1
           IN  /\ file \in Nat /\ file # 0 /\ (file \in DOMAIN tables \/ file = Len(tables) + 1)
               /\ file \in DOMAIN tables => k = "flush"
               /\ tables' \in Seq(SUBSET Nat) /\ DOMAIN tables' = DOMAIN tables \cup {file}
               /\ Len(tables') <= todo.maxFiles
               /\ tables'[file] = Compacted(Source(k), job[k].snapshots)
               /\ \A f \in DOMAIN tables \ {file} : tables'[f] = tables[f]
<1> DEFINE file == IF k = "flush" THEN job[k].file ELSE Len(tables) + 1
           new == Compacted(Source(k), job[k].snapshots)
<1>1. /\ job[k].pc = "Write" /\ file <= todo.maxFiles
      /\ tables' = [f \in DOMAIN tables \cup {file} |-> IF f = file THEN new ELSE tables[f]]
  BY DEF WriteTable, Source
<1>2. tables \in Seq(SUBSET Nat) /\ Len(tables) \in Nat /\ DOMAIN tables = 1 .. Len(tables)
      /\ Len(tables) <= todo.maxFiles
  BY SMT, Types DEF FileTypes
<1>3. file \in Nat /\ file # 0 /\ (file \in DOMAIN tables \/ file = Len(tables) + 1)
      /\ (file \in DOMAIN tables => k = "flush")
  BY SMT, <1>1, <1>2, JobFields
<1>4. new \in SUBSET Nat
  BY SourceType DEF Compacted
<1> HIDE DEF file, new
<1>5. PICK n \in Nat : n <= todo.maxFiles /\ DOMAIN tables \cup {file} = 1 .. n
  <2>1. CASE file \in DOMAIN tables
    <3>1. DOMAIN tables \cup {file} = 1 .. Len(tables)
      BY <1>2, <2>1
    <3> QED BY <3>1, <1>2
  <2>2. CASE file = Len(tables) + 1
    <3>1. DOMAIN tables \cup {file} = 1 .. file
      BY SMT, <1>2, <2>2
    <3> QED BY <3>1, <1>1, <1>3
  <2> QED BY <2>1, <2>2, <1>3
<1>6. tables' \in [1 .. n -> SUBSET Nat]
  BY SMT, <1>1, <1>2, <1>4, <1>5
<1>7. tables' \in Seq(SUBSET Nat) /\ Len(tables') = n /\ DOMAIN tables' = DOMAIN tables \cup {file}
  BY <1>5, <1>6, FunctionIsSeq
<1>8. tables'[file] = new /\ \A f \in DOMAIN tables \ {file} : tables'[f] = tables[f]
  BY <1>1
<1> QED BY <1>3, <1>5, <1>7, <1>8 DEF file, new

(***************************************************************************)
(* Commit keeps the types, and adds a super version.                       *)
(***************************************************************************)
LEMMA CommitTypes ==
    ASSUME TInv, NEW k \in Job, Commit(k)
    PROVE  /\ TInv' /\ Len(sv') = Len(sv) + 1 /\ \A n \in DOMAIN sv : sv'[n] = sv[n]
           /\ sv'[Len(sv) + 1] = [mem |-> mem', imm |-> imm', files |-> current', refs |-> 1,
                                  freed |-> FALSE]
<1> DEFINE j == [job[k] EXCEPT !.pc = "Finish", !.version = IF k = "flush" THEN {} ELSE @]
<1>1. /\ job[k].pc = "Commit" /\ InstallSuperVersion(k) /\ DropVersions
      /\ current' = {job[k].file} \cup (IF k = "flush" THEN current ELSE current \ job[k].input)
      /\ imm' = IF k = "flush" THEN imm \ job[k].input ELSE imm
      /\ job' = [job EXCEPT ![k] = j]
      /\ UNCHANGED <<last_sequence, snapshots, memtables, mem, todo>>
      /\ UNCHANGED <<tables, disk, grabbed>> /\ UNCHANGED <<local_sv, rd, tables>>
  BY DEF Commit
<1>2. current' \subseteq DOMAIN tables'
  <2>1. current \subseteq DOMAIN tables /\ job[k].file \in DOMAIN tables
    BY <1>1, JobFields, Types DEF FileTypes
  <2> QED BY <2>1, <1>1
<1>3. /\ mem' \in DOMAIN memtables' /\ imm' \subseteq 1 .. (mem' - 1) /\
             imm' \subseteq DOMAIN memtables'
      /\ mem' \in Nat /\ imm' \subseteq Nat
  BY SMT, <1>1, Types DEF DataTypes
<1>4. DataTypes'
  BY <1>1, <1>3, Constants, Types DEF DataTypes
<1>5. FileTypes'
  <2>1. obsolete_files' \subseteq DOMAIN tables
    BY <1>1, DropTypes
  <2> QED BY <1>1, <1>2, <2>1, Types DEF FileTypes
<1>6. /\ ViewTypes' /\ ThreadTypes' /\ Len(sv') = Len(sv) + 1 /\ \A n \in DOMAIN sv : sv'[n] = sv[n]
      /\ sv'[Len(sv) + 1] = [mem |-> mem', imm |-> imm', files |-> current', refs |-> 1,
                             freed |-> FALSE]
  <2>1. k \in {"writer"} \cup Job /\ DOMAIN memtables \subseteq DOMAIN memtables'
    BY <1>1
  <2>2. InstallSuperVersion(k) /\ UNCHANGED <<local_sv, rd, tables>>
    BY <1>1
  <2>3. ViewTypes' /\ ThreadTypes'
    BY <1>2, <1>3, <2>1, <2>2, NewViewTypes
  <2>4. sv \in Seq(SuperVersions)
    BY Types DEF ViewTypes
  <2>5. sv' = Append(sv, [mem |-> mem', imm |-> imm', files |-> current', refs |-> 1,
                          freed |-> FALSE])
    BY <2>2 DEF InstallSuperVersion
  <2> QED BY SMT, <2>3, <2>4, <2>5
<1>7. j \in JobState /\ j.version \subseteq job[k].version /\ j.purge = job[k].purge
      /\ j.file = job[k].file /\ j.input = job[k].input /\ j.pc = "Finish"
  BY JobFields DEF JobState
<1> HIDE DEF j
<1>8. JobTypes'
  <2>1. DOMAIN memtables \subseteq DOMAIN memtables' /\ DOMAIN tables \subseteq DOMAIN tables'
        /\ j.version \subseteq DOMAIN tables' /\ j.purge \subseteq DOMAIN tables'
        /\ (j.file = 0 \/ j.file \in DOMAIN tables')
        /\ (k = "flush" => j.input \subseteq DOMAIN memtables')
        /\ (k = "compaction" => j.input \subseteq DOMAIN tables')
    BY <1>1, <1>7, JobFields
  <2> QED BY <1>1, <1>7, <2>1, JobDone
<1> QED BY <1>4, <1>5, <1>6, <1>8, Types
============================================================================
