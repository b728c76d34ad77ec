----------------------- MODULE SuperVersionRefProofs -----------------------
(***************************************************************************)
(* Every step keeps the types and the reference counts.                    *)
(*                                                                         *)
(* The proof has one lemma per action. A step of a reader is described by  *)
(* its state d and its cached pointer v afterwards; ReaderStep says what   *)
(* they must be like, and the counts follow the references that reader and *)
(* cache take and give.                                                    *)
(***************************************************************************)
EXTENDS SuperVersionInvariant

\* Most leaves are for Zenon; those that need arithmetic or sequences name SMT.
USE Zenon

(***************************************************************************)
(* The types hold at the start.                                            *)
(***************************************************************************)
LEMMA InitTypes == Init => TInv
<1> SUFFICES ASSUME Init PROVE TInv
  OBVIOUS
<1>1. DataTypes
  BY SMT, WorkloadsAssumption DEF Init, DataTypes, Workload
<1>2. FileTypes
  BY SMT, WorkloadsAssumption DEF Init, FileTypes, Workload
<1>3. ViewTypes
  <2>1. [mem |-> 1, imm |-> {}, files |-> {}, refs |-> 1, freed |-> FALSE] \in SuperVersions
    <3>1. 1 \in Nat /\ 1 \in Int
      BY SMT
    <3> QED BY <3>1 DEF SuperVersions
  <2> QED BY SMT, <2>1 DEF Init, ViewTypes
<1>4. ThreadTypes
  <2>1. NewReader \in ReaderState
    BY SMT DEF NewReader, ReaderState, kSVObsolete
  <2>2. rd \in [Reader -> ReaderState] /\ \A r \in Reader : rd[r].purge = {}
    BY <2>1 DEF Init, NewReader
  <2>3. local_sv \in [Reader -> {kSVObsolete, kSVInUse} \cup DOMAIN sv]
    BY DEF Init
  <2>4. install \in [old : Nat, todo : SUBSET Reader, scraped : SUBSET (Reader \X Nat)]
        /\ IsFiniteSet(install.scraped)
    BY EmptyIsFinite DEF Init, NoInstall
  <2> QED BY <2>2, <2>3, <2>4 DEF Init, ThreadTypes
<1>5. JobTypes
  <2>1. NewJob \in JobState
    BY DEF NewJob, JobState
  <2>2. job \in [Job -> JobState]
    BY <2>1 DEF Init
  <2>3. \A k \in Job : job[k] = NewJob
    BY DEF Init
  <2>4. "flush" \in Job /\ "compaction" \in Job
    BY DEF Job
  <2> QED BY SMT, <2>2, <2>3, <2>4 DEF JobTypes, NewJob
<1> QED BY <1>1, <1>2, <1>3, <1>4, <1>5, Types

(***************************************************************************)
(* What a step does not touch keeps its type, as memtables and tables are  *)
(* only added.                                                             *)
(***************************************************************************)
LEMMA Frame ==
    ASSUME TInv, DOMAIN memtables \subseteq DOMAIN memtables',
           DOMAIN tables \subseteq DOMAIN tables'
    PROVE  /\ sv' = sv => ViewTypes'
           /\ UNCHANGED <<mutex, sv, local_sv, install, rd>> => ThreadTypes'
           /\ job' = job => JobTypes'
           /\ UNCHANGED <<last_sequence, snapshots, memtables, mem, imm, todo>> => DataTypes'
           /\ UNCHANGED <<tables, current, disk, obsolete_files, grabbed, todo>> => FileTypes'
<1>1. SuperVersions' = SuperVersions /\ ReaderState' = ReaderState /\ JobState' = JobState /\
          Workload' = Workload
      /\ Job' = Job /\ kSVInUse' = kSVInUse /\ kSVObsolete' = kSVObsolete
  BY DEF SuperVersions, ReaderState, JobState, Workload, Operation, Job, kSVInUse, kSVObsolete
<1> HIDE DEF SuperVersions, ReaderState, JobState, Workload, Job
<1>2. sv' = sv => ViewTypes'
  BY <1>1, Types DEF ViewTypes
<1>3. UNCHANGED <<mutex, sv, local_sv, install, rd>> => ThreadTypes'
  BY <1>1, Types DEF ThreadTypes
<1>4. job' = job => JobTypes'
  <2>1. "flush" \in Job /\ "compaction" \in Job
    BY DEF Job
  <2> QED BY <1>1, <2>1, Types DEF JobTypes
<1>5. UNCHANGED <<last_sequence, snapshots, memtables, mem, imm, todo>> => DataTypes'
  BY <1>1, Types DEF DataTypes
<1>6. UNCHANGED <<tables, current, disk, obsolete_files, grabbed, todo>> => FileTypes'
  BY <1>1, Types DEF FileTypes
<1> QED BY <1>2, <1>3, <1>4, <1>5, <1>6

(***************************************************************************)
(* A write keeps the types.                                                *)
(***************************************************************************)
LEMMA WriteTypes == TInv /\ Write => TInv'
<1> SUFFICES ASSUME TInv, Write PROVE TInv'
  OBVIOUS
<1>1. /\ last_sequence' = last_sequence + 1 /\ last_sequence < todo.maxSequence
      /\ memtables' = [memtables EXCEPT ![mem] = @ \cup {last_sequence'}]
      /\ UNCHANGED <<snapshots, mem, imm, todo>>
      /\ UNCHANGED <<tables, current, disk, obsolete_files, grabbed, todo>>
      /\ UNCHANGED <<mutex, sv, local_sv, install, rd>> /\ job' = job /\ sv' = sv
  BY DEF Write, data, files
<1>2. /\ memtables \in Seq(SUBSET Nat) /\ mem \in 1 .. Len(memtables) /\ mem = Len(memtables)
      /\ mem \in Nat \ {0} /\ last_sequence \in Nat /\ todo \in Workload
      /\ snapshots \subseteq 0..last_sequence /\ imm \subseteq 1..(mem - 1)
  BY SMT, Types DEF DataTypes
<1>3. todo.maxSequence \in Nat
  BY <1>2 DEF Workload
<1>4. memtables' \in Seq(SUBSET Nat) /\ Len(memtables') = Len(memtables)
  <2>1. memtables[mem] \cup {last_sequence'} \in SUBSET Nat
    BY SMT, <1>1, <1>2
  <2> QED BY SMT, <2>1, <1>1, <1>2
<1>5. DataTypes'
  <2>1. Workload' = Workload
    BY DEF Workload, Operation
  <2>2. snapshots' \subseteq 0..last_sequence'
    BY SMT, <1>1, <1>2
  <2> QED BY SMT, <2>1, <2>2, <1>1, <1>2, <1>3, <1>4 DEF DataTypes
<1>6. DOMAIN memtables' = DOMAIN memtables
  BY SMT, <1>2, <1>4
<1> QED BY <1>1, <1>5, <1>6, Frame, Types

(***************************************************************************)
(* GetSnapshot and ReleaseSnapshot keep the types.                         *)
(***************************************************************************)
LEMMA SnapshotTypes == TInv /\ (GetSnapshot \/ ReleaseSnapshot) => TInv'
<1> SUFFICES ASSUME TInv, GetSnapshot \/ ReleaseSnapshot PROVE TInv'
  OBVIOUS
<1>1. /\ UNCHANGED <<last_sequence, memtables, mem, imm>>
      /\ UNCHANGED <<tables, current, disk, obsolete_files, grabbed>>
      /\ UNCHANGED <<mutex, sv, local_sv, install, rd>> /\ job' = job /\ sv' = sv
      /\ snapshots' \subseteq snapshots \cup {last_sequence}
  BY DEF GetSnapshot, ReleaseSnapshot, files
<1>2. todo' = todo \/ (todo.maxSnapshots > 0 /\ todo' = [todo EXCEPT !.maxSnapshots = @ - 1])
  BY DEF GetSnapshot, ReleaseSnapshot
<1>3. todo' \in Workload /\ todo'.maxSequence = todo.maxSequence /\ todo'.maxFiles = todo.maxFiles
  BY SMT, <1>2, Types DEF DataTypes, Workload
<1>4. Workload' = Workload
  BY DEF Workload, Operation
<1>5. DataTypes'
  BY SMT, <1>1, <1>3, <1>4, Types DEF DataTypes
<1>6. FileTypes'
  BY <1>1, <1>3, Types DEF FileTypes
<1> QED BY <1>1, <1>5, <1>6, Frame, Types

(***************************************************************************)
(* SwitchMemtable keeps the types.                                         *)
(***************************************************************************)
LEMMA SwitchTypes == TInv /\ SwitchMemtable => TInv'
<1> SUFFICES ASSUME TInv, SwitchMemtable PROVE TInv'
  OBVIOUS
<1>1. /\ imm' = imm \cup {mem} /\ mem' = Len(memtables) + 1
      /\ memtables' = Append(memtables, {})
      /\ InstallSuperVersion("writer")
      /\ UNCHANGED <<last_sequence, snapshots, todo>>
      /\ UNCHANGED <<tables, current, disk, obsolete_files, grabbed, todo>>
      /\ UNCHANGED <<local_sv, rd, tables>> /\ job' = job
  BY DEF SwitchMemtable
<1>2. /\ memtables \in Seq(SUBSET Nat) /\ mem = Len(memtables)
      /\ mem \in Nat \ {0} /\ imm \subseteq 1..(mem - 1)
  BY Types DEF DataTypes
<1>3. memtables' \in Seq(SUBSET Nat) /\ Len(memtables') = Len(memtables) + 1
      /\ DOMAIN memtables = 1 .. mem /\ DOMAIN memtables' = 1 .. mem + 1 /\ mem' = mem + 1
  <2>1. {} \in SUBSET Nat
    OBVIOUS
  <2> QED BY SMT, <2>1, <1>1, <1>2
<1>4. imm' \subseteq 1 .. (mem' - 1) /\ imm' \subseteq Nat /\
          imm' \subseteq DOMAIN memtables' /\ mem' \in DOMAIN memtables'
      /\ mem' \in Nat \ {0} /\ DOMAIN memtables \subseteq DOMAIN memtables'
  <2>1. imm' \subseteq 1 .. mem
    <3> SUFFICES ASSUME NEW m \in imm \cup {mem} PROVE m \in 1 .. mem
      BY <1>1
    <3> QED BY SMT, <1>2
  <2>2. mem' - 1 = mem /\ mem' \in Nat \ {0} /\ mem' \in 1 .. mem + 1
        /\ 1 .. mem \subseteq 1 .. mem + 1 /\ 1 .. mem \subseteq Nat
    BY SMT, <1>2, <1>3
  <2> QED BY <2>1, <2>2, <1>3
<1>5. DataTypes'
  <2>1. Workload' = Workload
    BY DEF Workload, Operation
  <2> QED BY <2>1, <1>1, <1>2, <1>3, <1>4, Types DEF DataTypes
<1>6. current' \subseteq DOMAIN tables'
  BY <1>1, Types DEF FileTypes
<1>7. ViewTypes' /\ ThreadTypes'
  BY <1>1, <1>4, <1>6, NewViewTypes
<1> QED BY <1>1, <1>4, <1>5, <1>7, Frame, Types

(***************************************************************************)
(* What Ref and Unref do to the super versions.                            *)
(***************************************************************************)
LEMMA RefEffect ==
    ASSUME sv \in Seq(SuperVersions), NEW n \in DOMAIN sv, NEW svs, svs = Ref(n) \/ svs = Unref(n)
    PROVE  /\ svs \in Seq(SuperVersions) /\ Len(svs) = Len(sv) /\ DOMAIN svs = DOMAIN sv
           /\ \A m \in DOMAIN sv :
                /\ svs[m].mem = sv[m].mem /\ svs[m].imm = sv[m].imm /\ svs[m].files = sv[m].files
                /\ svs[m].freed = sv[m].freed
                /\ m # n => svs[m].refs = sv[m].refs
           /\ svs = Ref(n) => svs[n].refs = sv[n].refs + 1
           /\ svs = Unref(n) => svs[n].refs = sv[n].refs - 1
<1> DEFINE up == [sv[n] EXCEPT !.refs = @ + 1]
           down == [sv[n] EXCEPT !.refs = @ - 1]
<1>1. sv[n] \in SuperVersions
  BY SMT
<1>2. sv[n].refs \in Int /\ sv[n].refs + 1 \in Int /\ sv[n].refs - 1 \in Int
  BY SMT, <1>1 DEF SuperVersions
<1>3. up \in SuperVersions /\ down \in SuperVersions
  BY <1>1, <1>2 DEF SuperVersions
<1>4. /\ up.mem = sv[n].mem /\ up.imm = sv[n].imm /\ up.files = sv[n].files /\
             up.freed = sv[n].freed
      /\ down.mem = sv[n].mem /\ down.imm = sv[n].imm /\ down.files = sv[n].files
      /\ down.freed = sv[n].freed /\ up.refs = sv[n].refs + 1 /\ down.refs = sv[n].refs - 1
  BY <1>1 DEF SuperVersions
<1>5. svs = Ref(n) => svs = [sv EXCEPT ![n] = up]
  BY DEF Ref
<1>6. svs = Unref(n) => svs = [sv EXCEPT ![n] = down]
  BY DEF Unref
<1> HIDE DEF up, down, SuperVersions
<1>7. CASE svs = Ref(n)
  <2>1. svs # Unref(n)
    <3> SUFFICES ASSUME svs = Unref(n) PROVE FALSE
      OBVIOUS
    <3>1. up = down
      BY <1>5, <1>6, <1>7
    <3> QED BY SMT, <3>1, <1>2, <1>4
  <2> QED BY SMT, <1>3, <1>4, <1>5, <1>7, <2>1
<1>8. CASE svs = Unref(n)
  <2>1. svs # Ref(n)
    <3> SUFFICES ASSUME svs = Ref(n) PROVE FALSE
      OBVIOUS
    <3>1. up = down
      BY <1>5, <1>6, <1>8
    <3> QED BY SMT, <3>1, <1>2, <1>4
  <2> QED BY SMT, <1>3, <1>4, <1>6, <1>8, <2>1
<1> QED BY <1>7, <1>8

\* t has super version n deleted, and is svs otherwise.
CleanedUp(t, svs, n) ==
    /\ t \in Seq(SuperVersions) /\ Len(t) = Len(svs) /\ DOMAIN t = DOMAIN svs
    /\ \A m \in DOMAIN svs :
        /\ t[m].mem = svs[m].mem /\ t[m].imm = svs[m].imm /\ t[m].files = svs[m].files
        /\ m # n => t[m].freed = svs[m].freed
        /\ t[m].refs = svs[m].refs
    /\ t[n].freed

(***************************************************************************)
(* What Cleanup does to the super versions.                                *)
(***************************************************************************)
LEMMA CleanupEffect ==
    ASSUME NEW svs \in Seq(SuperVersions), NEW n \in DOMAIN svs, NEW t, t = Cleanup(svs, n)
    PROVE  CleanedUp(t, svs, n)
<1> DEFINE new == [svs[n] EXCEPT !.freed = TRUE]
<1>1. svs[n] \in SuperVersions
  BY SMT
<1>2. new \in SuperVersions
  BY <1>1 DEF SuperVersions
<1>3. /\ new.mem = svs[n].mem /\ new.imm = svs[n].imm /\ new.files = svs[n].files
      /\ new.refs = svs[n].refs /\ new.freed = TRUE
  BY <1>1 DEF SuperVersions
<1>4. t = [svs EXCEPT ![n] = new]
  BY DEF Cleanup
<1> HIDE DEF new, SuperVersions
<1> QED BY SMT, <1>2, <1>3, <1>4 DEF CleanedUp

(***************************************************************************)
(* The empty set is the one with cardinality 0.                            *)
(***************************************************************************)
LEMMA EmptyCount ==
    ASSUME SetFacts
    PROVE  /\ IsFiniteSet({}) /\ Cardinality({}) = 0
           /\ \A S : IsFiniteSet(S) => (Cardinality(S) = 0 <=> S = {})
  BY EmptyIsFinite DEF SetFacts

(***************************************************************************)
(* Cardinalities of finite sets are natural numbers.                       *)
(***************************************************************************)
LEMMA CountType == ASSUME SetFacts, NEW S, IsFiniteSet(S) PROVE Cardinality(S) \in Nat
  BY DEF SetFacts

(***************************************************************************)
(* Subsets of finite sets are finite.                                      *)
(***************************************************************************)
LEMMA SubsetFinite ==
    ASSUME SetFacts, NEW S, IsFiniteSet(S), NEW T \in SUBSET S PROVE IsFiniteSet(T)
  BY DEF SetFacts

(***************************************************************************)
(* The cardinality of a set with one element more,                         *)
(***************************************************************************)
LEMMA CountAdded ==
    ASSUME SetFacts, NEW S, NEW x, IsFiniteSet(S)
    PROVE  /\ IsFiniteSet(S \cup {x})
           /\ Cardinality(S \cup {x}) = IF x \in S THEN Cardinality(S) ELSE Cardinality(S) + 1
  BY DEF SetFacts

(***************************************************************************)
(* and with one less.                                                      *)
(***************************************************************************)
LEMMA CountRemoved ==
    ASSUME SetFacts, NEW S, NEW x, IsFiniteSet(S)
    PROVE  /\ IsFiniteSet(S \ {x})
           /\ Cardinality(S \ {x}) = IF x \in S THEN Cardinality(S) - 1 ELSE Cardinality(S)
  BY DEF SetFacts

(***************************************************************************)
(* A set with one element has cardinality 1.                               *)
(***************************************************************************)
LEMMA SingletonCount == ASSUME SetFacts, NEW x PROVE Cardinality({x}) = 1
<1>1. IsFiniteSet({}) /\ Cardinality({}) = 0 /\ {} \cup {x} = {x} /\ x \notin {}
  BY EmptyCount
<1>2. Cardinality({} \cup {x}) = Cardinality({}) + 1
  BY <1>1, CountAdded
<1> QED BY SMT, <1>1, <1>2

(***************************************************************************)
(* The cardinality of a set after one element came or went.                *)
(***************************************************************************)
LEMMA Recount ==
    ASSUME SetFacts, NEW A, NEW B, NEW x, IsFiniteSet(A), A \ {x} = B \ {x}
    PROVE  /\ IsFiniteSet(B) /\ Cardinality(A) \in Nat /\ Cardinality(B) \in Nat
           /\ Cardinality(B) = Cardinality(A) + (One(x \in B) - One(x \in A))
<1>1. /\ IsFiniteSet(A \ {x}) /\ Cardinality(A) \in Nat
      /\ Cardinality(A \ {x}) = IF x \in A THEN Cardinality(A)-1 ELSE Cardinality(A)
  BY CountRemoved, CountType
<1>2. IsFiniteSet(B) /\ Cardinality(B) = IF x \in B THEN Cardinality(A \ {x}) + 1
          ELSE Cardinality(A \ {x})
  <2>1. CASE x \in B
    <3>1. B = (A \ {x}) \cup {x}
      BY <2>1
    <3>2. x \notin A \ {x}
      OBVIOUS
    <3> QED BY <1>1, <2>1, <3>1, <3>2, CountAdded
  <2>2. CASE x \notin B
    <3>1. B = A \ {x}
      BY <2>2
    <3> QED BY <1>1, <2>2, <3>1
  <2> QED BY <2>1, <2>2
<1>3. Cardinality(B) \in Nat
  BY <1>2, CountType
<1> QED BY SMT, <1>1, <1>2, <1>3 DEF One

(***************************************************************************)
(* The arithmetic of a reference count: its parts change by what it        *)
(* changes by.                                                             *)
(***************************************************************************)
LEMMA SumFollows ==
    ASSUME NEW o \in Int, NEW c \in Int, NEW s \in Int, NEW h \in Int, NEW dc \in Int,
           NEW dh \in Int, NEW old, NEW new, old = o + c + s + h, new = old + dh + dc
    PROVE  new = o + (c + dc) + s + (h + dh)
BY SMT

(***************************************************************************)
(* The count of super version n is right after a step of reader r if it    *)
(* changed by what the reader and its cache took or gave.                  *)
(***************************************************************************)
LEMMA RefsFollow ==
    ASSUME SetFacts, TInv, NEW n \in DOMAIN sv, Counted(n), NEW r \in Reader, NEW d, NEW v,
           rd' = [rd EXCEPT ![r] = d], local_sv' = [local_sv EXCEPT ![r] = v],
           install' = install, Len(sv') = Len(sv),
           sv'[n].refs = sv[n].refs + (One(Holding(d, n)) - One(Holding(rd[r], n)))
                                    + (One(v = n) - One(local_sv[r] = n))
    PROVE  Counted(n)'
<1>1. rd \in [Reader -> ReaderState] /\ local_sv \in [Reader -> {kSVObsolete,
          kSVInUse} \cup DOMAIN sv]
      /\ sv[n].refs \in Int
  <2>1. sv[n] \in SuperVersions
    BY SMT, Types DEF ViewTypes
  <2> QED BY <2>1, Types DEF ThreadTypes, SuperVersions
<1>2. /\ \A q \in Reader \ {r} : rd'[q] = rd[q] /\ local_sv'[q] = local_sv[q]
      /\ rd'[r] = d /\ local_sv'[r] = v
  BY <1>1
<1>3. IsFiniteSet(CacheOf(n)) /\ IsFiniteSet(HoldersOf(n))
  <2>1. CacheOf(n) \in SUBSET Reader /\ HoldersOf(n) \in SUBSET Reader
    BY DEF CacheOf, HoldersOf
  <2> QED BY <2>1, ReaderAssumption, SubsetFinite
<1> DEFINE C == {q \in Reader : local_sv'[q] = n}
           H == {q \in Reader : Holding(rd'[q], n)}
<1>4. CacheOf(n)' = C /\ HoldersOf(n)' = H /\ ScrapedOf(n)' = ScrapedOf(n)
      /\ One(Owned(n))' = One(Owned(n))
  BY DEF CacheOf, HoldersOf, Holding, ScrapedOf, Owned, One
<1>5. CacheOf(n) \ {r} = C \ {r} /\ HoldersOf(n) \ {r} = H \ {r}
  BY <1>2 DEF CacheOf, HoldersOf
<1>6. /\ r \in C <=> v = n
      /\ r \in CacheOf(n) <=> local_sv[r] = n
      /\ r \in H <=> Holding(d, n)
      /\ r \in HoldersOf(n) <=> Holding(rd[r], n)
  BY <1>2 DEF CacheOf, HoldersOf
<1> HIDE DEF C, H
<1>7. /\ Cardinality(C) = Cardinality(CacheOf(n)) + (One(v = n) - One(local_sv[r] = n))
      /\ Cardinality(CacheOf(n)) \in Nat /\ Cardinality(C) \in Nat
  BY SMT, <1>3, <1>5, <1>6, Recount DEF One
<1>8. /\ Cardinality(H) = Cardinality(HoldersOf(n))
                            + (One(Holding(d, n)) - One(Holding(rd[r], n)))
      /\ Cardinality(HoldersOf(n)) \in Nat /\ Cardinality(H) \in Nat
  BY SMT, <1>3, <1>5, <1>6, Recount DEF One
<1> DEFINE s == Cardinality(ScrapedOf(n))
           o == One(Owned(n))
           dh == One(Holding(d, n)) - One(Holding(rd[r], n))
           dc == One(v = n) - One(local_sv[r] = n)
<1>9. sv[n].refs = o + Cardinality(CacheOf(n)) + s + Cardinality(HoldersOf(n))
  BY DEF Counted
<1>10. o \in Int /\ dh \in Int /\ dc \in Int
  BY SMT DEF One
<1>11. s \in Int
  <2>1. ScrapedOf(n) \in SUBSET install.scraped /\ IsFiniteSet(install.scraped)
    BY Types DEF ScrapedOf, ThreadTypes
  <2>2. Cardinality(ScrapedOf(n)) \in Nat
    BY <2>1, SubsetFinite, CountType
  <2> QED BY SMT, <2>2
<1>12. /\ Cardinality(C) = Cardinality(CacheOf(n)) + dc
       /\ Cardinality(H) = Cardinality(HoldersOf(n)) + dh
       /\ sv'[n].refs = sv[n].refs + dh + dc
       /\ Cardinality(CacheOf(n)) \in Int /\ Cardinality(HoldersOf(n)) \in Int
  BY SMT, <1>7, <1>8
<1> HIDE DEF s, o, dh, dc
<1>13. sv'[n].refs = o + Cardinality(C) + s + Cardinality(H)
  BY SMTT(30), <1>9, <1>10, <1>11, <1>12, SumFollows
<1> QED BY <1>4, <1>13 DEF Counted, s, o

\* The super versions are the same but for counts and flags.
SameViews ==
    /\ sv' \in Seq(SuperVersions) /\ Len(sv') = Len(sv) /\ DOMAIN sv' = DOMAIN sv
    /\ \A n \in DOMAIN sv : /\ sv'[n].mem = sv[n].mem /\ sv'[n].imm = sv[n].imm
                            /\ sv'[n].files = sv[n].files

(***************************************************************************)
(* Super versions whose counts and flags alone change keep their types.    *)
(***************************************************************************)
LEMMA SameViewTypes ==
    ASSUME TInv, SameViews, UNCHANGED <<memtables, tables>>
    PROVE  ViewTypes'
BY Constants, Types DEF ViewTypes, SameViews

\* What a step of reader r to state d, with v in its cache, has to do to n.
RefStep(n, r, d, v) ==
    /\ sv'[n].refs = sv[n].refs + (One(Holding(d, n)) - One(Holding(rd[r], n)))
                                + (One(v = n) - One(local_sv[r] = n))
    /\ \A q \in Reader \ {r} : CleaningUp(rd[q], n) => sv'[n].refs = 0 /\ ~CleaningUp(d, n)
    /\ CleaningUp(d, n) => sv'[n].refs = 0
    /\ sv'[n].freed <=> /\ sv'[n].refs = 0 /\ ~CleaningUp(d, n)
                        /\ \A q \in Reader \ {r} : ~CleaningUp(rd[q], n)

(***************************************************************************)
(* A step of reader r from rd[r] to d, with v in its cache afterwards,     *)
(* keeps the invariant if the new state of the reader is right, and the    *)
(* counts follow.                                                          *)
(***************************************************************************)
LEMMA ReaderStep ==
    ASSUME SetFacts, TInv, RInv, NEW r \in Reader, NEW d, NEW v,
           rd' = [rd EXCEPT ![r] = d], local_sv' = [local_sv EXCEPT ![r] = v],
           UNCHANGED <<install, mutex>>, UNCHANGED <<memtables, tables>>, SameViews,
           d \in ReaderState, d.purge \subseteq DOMAIN tables,
           v \in {kSVObsolete, kSVInUse} \cup DOMAIN sv,
           ReaderInv(r, d, v),
           \A n \in DOMAIN sv : RefStep(n, r, d, v)
    PROVE  ViewTypes' /\ ThreadTypes' /\ RInv'
<1>1. rd \in [Reader -> ReaderState] /\ local_sv \in [Reader -> {kSVObsolete,
          kSVInUse} \cup DOMAIN sv]
  BY Types DEF ThreadTypes
<1>2. /\ \A q \in Reader \ {r} : rd'[q] = rd[q] /\ local_sv'[q] = local_sv[q]
      /\ rd'[r] = d /\ local_sv'[r] = v
  BY <1>1
<1>3. Len(sv') = Len(sv) /\ DOMAIN sv' = DOMAIN sv
  BY DEF SameViews
<1>4. ViewTypes'
  BY SameViewTypes
<1>5. ThreadTypes'
  <2>1. rd' \in [Reader -> ReaderState] /\ local_sv' \in [Reader -> {kSVObsolete,
            kSVInUse} \cup DOMAIN sv']
    BY <1>1, <1>3
  <2>2. \A q \in Reader : rd'[q].purge \subseteq DOMAIN tables'
    BY <1>2, Types DEF ThreadTypes
  <2>3. mutex' \in {Null, "writer"} \cup Job
    BY Types DEF ThreadTypes
  <2> QED BY <2>1, <2>2, <2>3, Constants, Types DEF ThreadTypes
<1>6. InstallInv'
  BY <1>3, Refs DEF InstallInv, Owned, NoInstall
<1>7. \A q \in Reader : ReaderInv(q, rd[q], local_sv[q])' <=> ReaderInv(q, rd'[q], local_sv'[q])
  BY SMT, <1>3 DEF ReaderInv, Fresh, kSVInUse
<1>8. \A q \in Reader : ReaderInv(q, rd[q], local_sv[q])'
  BY <1>2, <1>7, Refs
<1>9. ASSUME NEW n \in DOMAIN sv' PROVE Counted(n)' /\ Cleaned(n)'
  <2>1. n \in DOMAIN sv /\ Counted(n) /\ Cleaned(n) /\ RefStep(n, r, d, v)
    BY <1>3, Refs
  <2>2. Counted(n)'
    BY <2>1, <1>3, RefsFollow DEF RefStep
  <2>3. /\ \A q \in Reader : CleaningUp(rd'[q], n) => sv'[n].refs = 0
        /\ \A q, p \in Reader : CleaningUp(rd'[q], n) /\ CleaningUp(rd'[p], n) => q = p
        /\ sv'[n].freed <=> (sv'[n].refs = 0 /\ \A q \in Reader : ~CleaningUp(rd'[q], n))
    <3>1. \A q \in Reader \ {r} : CleaningUp(rd'[q], n) <=> CleaningUp(rd[q], n)
      BY <1>2
    <3>2. CleaningUp(rd'[r], n) <=> CleaningUp(d, n)
      BY <1>2
    <3>3. \A q, p \in Reader : CleaningUp(rd[q], n) /\ CleaningUp(rd[p], n) => q = p
      BY <2>1 DEF Cleaned
    <3> QED BY <2>1, <3>1, <3>2, <3>3 DEF RefStep
  <2>4. \A q \in Reader : CleaningUp(rd[q], n)' <=> CleaningUp(rd'[q], n)
    BY DEF CleaningUp
  <2> QED BY <2>2, <2>3, <2>4 DEF Cleaned
<1> QED BY <1>4, <1>5, <1>6, <1>8, <1>9, Refs

(***************************************************************************)
(* The super versions stay as they are.                                    *)
(***************************************************************************)
LEMMA ViewsUnchanged == ASSUME TInv, sv' = sv PROVE SameViews
BY Types DEF ViewTypes, SameViews

(***************************************************************************)
(* A reader that takes or gives no reference, or passes one to or from its *)
(* cache.                                                                  *)
(***************************************************************************)
LEMMA ReaderKeeps ==
    ASSUME TInv, RInv, NEW r \in Reader, NEW d, NEW v, sv' = sv,
           \A n \in DOMAIN sv :
              /\ \/ (Holding(d, n) <=> Holding(rd[r], n)) /\ (v = n <=> local_sv[r] = n)
                 \/ (Holding(d, n) <=> local_sv[r] = n) /\ (v = n <=> Holding(rd[r], n))
              /\ CleaningUp(d, n) <=> CleaningUp(rd[r], n)
    PROVE  SameViews /\ \A n \in DOMAIN sv : RefStep(n, r, d, v)
<1>1. SameViews
  BY ViewsUnchanged
<1>2. ASSUME NEW n \in DOMAIN sv PROVE RefStep(n, r, d, v)
  <2>1. sv[n].refs \in Int
    BY ViewFields
  <2>2. Cleaned(n) /\ (CleaningUp(d, n) <=> CleaningUp(rd[r], n))
    BY Refs
  <2>3. sv'[n].refs = sv[n].refs + (One(Holding(d, n)) - One(Holding(rd[r], n)))
                                + (One(v = n) - One(local_sv[r] = n))
    BY SMT, <2>1 DEF One
  <2>4. sv'[n].refs = sv[n].refs /\ sv'[n].freed = sv[n].freed
    OBVIOUS
  <2> QED BY <2>2, <2>3, <2>4 DEF Cleaned, RefStep
<1> QED BY <1>1, <1>2

(***************************************************************************)
(* A call takes the next operation of the workload.                        *)
(***************************************************************************)
LEMMA CallTypes ==
    ASSUME TInv, NEW r \in Reader, NEW kind, Call(r, kind),
           UNCHANGED <<last_sequence, snapshots, memtables, mem, imm>>,
           UNCHANGED <<tables, current, disk, obsolete_files, grabbed>>
    PROVE  DataTypes' /\ FileTypes' /\ todo.reads[r] # <<>> /\ rd[r].pc = "Idle"
           /\ Head(todo.reads[r]).kind = kind
<1>1. /\ rd[r].pc = "Idle" /\ todo.reads[r] # <<>> /\ Head(todo.reads[r]).kind = kind
      /\ todo' = [todo EXCEPT !.reads[r] = Tail(@)]
  BY DEF Call
<1>2. todo \in Workload
  BY Types DEF DataTypes
<1>3. todo' \in Workload /\ todo'.maxSequence = todo.maxSequence /\ todo'.maxFiles = todo.maxFiles
  <2>1. todo.reads \in [Reader -> Seq(Operation)]
    BY <1>2 DEF Workload
  <2>2. Tail(todo.reads[r]) \in Seq(Operation)
    BY SMT, <2>1, <1>1
  <2> DEFINE rds == [todo.reads EXCEPT ![r] = Tail(@)]
  <2>3. rds \in [Reader -> Seq(Operation)]
    BY <2>1, <2>2
  <2>4. todo' = [todo EXCEPT !.reads = rds]
    BY <1>1
  <2> HIDE DEF rds
  <2> QED BY <1>2, <2>3, <2>4 DEF Workload
<1>4. DataTypes'
  BY <1>3, Constants, Types DEF DataTypes
<1>5. FileTypes'
  BY <1>3, Types DEF FileTypes
<1> QED BY <1>1, <1>4, <1>5

(***************************************************************************)
(* NewIterator: the reader holds nothing yet.                              *)
(***************************************************************************)
LEMMA NewIteratorStep ==
    ASSUME SetFacts, TInv, RInv, NEW r \in Reader, NewIterator(r)
    PROVE  TInv' /\ RInv'
<1>1. PICK e \in Requests(r) : rd' = [rd EXCEPT ![r] = [e EXCEPT !.pc = "Swap"]]
  BY DEF NewIterator
<1>2. /\ Call(r, "NewIterator") /\ UNCHANGED <<last_sequence, snapshots, memtables, mem, imm>>
      /\ UNCHANGED <<tables, current, disk, obsolete_files, grabbed>>
      /\ UNCHANGED <<install, mutex>> /\ UNCHANGED <<memtables, tables>>
      /\ sv' = sv /\ local_sv' = local_sv /\ job' = job
  BY DEF NewIterator, data, files
<1>3. DataTypes' /\ FileTypes' /\ todo.reads[r] # <<>> /\ rd[r].pc = "Idle"
  BY <1>2, CallTypes
<1>4. /\ e \in ReaderState /\ e.purge = {} /\ e.sv = 0 /\ e.op \in Operation
  BY <1>3, RequestTypes
<1> DEFINE d == [e EXCEPT !.pc = "Swap"]
           v == local_sv[r]
<1>5. d \in ReaderState /\ d.purge = {} /\ d.sv = 0 /\ d.op \in Operation /\ d.pc = "Swap"
  BY <1>4 DEF ReaderState
<1>6. rd' = [rd EXCEPT ![r] = d] /\ local_sv' = [local_sv EXCEPT ![r] = v]
  BY <1>1, <1>2, Types DEF ThreadTypes
<1>7. v \in {kSVObsolete, kSVInUse} \cup DOMAIN sv
  BY ReaderFields
<1>8. ReaderInv(r, rd[r], local_sv[r])
  BY Refs
<1> HIDE DEF d
<1>9. ReaderInv(r, d, v)
  BY <1>3, <1>5, <1>8 DEF ReaderInv
<1>10. \A n : ~Holding(d, n) /\ ~Holding(rd[r], n) /\ ~CleaningUp(d, n) /\ ~CleaningUp(rd[r], n)
  BY <1>3, <1>5 DEF Holding, CleaningUp
<1>11. SameViews /\ \A n \in DOMAIN sv : RefStep(n, r, d, v)
  BY <1>2, <1>10, ReaderKeeps
<1>12. ViewTypes' /\ ThreadTypes' /\ RInv'
  BY <1>2, <1>5, <1>6, <1>7, <1>9, <1>11, ReaderStep
<1>13. JobTypes'
  BY <1>2, Frame
<1> QED BY <1>3, <1>12, <1>13, Types

(***************************************************************************)
(* What reads leave alone.                                                 *)
(***************************************************************************)
LEMMA SameData ==
    ASSUME TInv, UNCHANGED <<last_sequence, snapshots, memtables, mem, imm, todo>>,
           UNCHANGED <<tables, current, disk>>, obsolete_files' \subseteq DOMAIN tables,
           grabbed' \subseteq DOMAIN tables
    PROVE  DataTypes' /\ FileTypes'
<1>1. DataTypes'
  BY Frame
<1> QED BY <1>1, Types DEF FileTypes

(***************************************************************************)
(* ReaderStep, with the types of what the reader leaves alone.             *)
(***************************************************************************)
LEMMA ReaderDone ==
    ASSUME SetFacts, TInv, RInv, NEW r \in Reader, NEW d, NEW v,
           rd' = [rd EXCEPT ![r] = d], local_sv' = [local_sv EXCEPT ![r] = v],
           install' = install, mutex' = mutex, memtables' = memtables, tables' = tables, job' = job,
           DataTypes', FileTypes', SameViews,
           d \in ReaderState, d.purge \subseteq DOMAIN tables,
           v \in {kSVObsolete, kSVInUse} \cup DOMAIN sv,
           ReaderInv(r, d, v),
           \A n \in DOMAIN sv : RefStep(n, r, d, v)
    PROVE  TInv' /\ RInv'
<1>1. ViewTypes' /\ ThreadTypes' /\ RInv'
  BY ReaderStep
<1>2. JobTypes'
  BY Frame
<1> QED BY <1>1, <1>2, Types

(***************************************************************************)
(* The reference of the cached pointer passes from the cache to the        *)
(* reader.                                                                 *)
(***************************************************************************)
LEMMA SwapStep ==
    ASSUME SetFacts, TInv, RInv, NEW r \in Reader, NEW e \in ReaderState, SwapLocal(r, e),
           e.purge \subseteq DOMAIN tables, e.op \in Operation, rd[r].pc \in {"Idle", "Swap"},
           install' = install, mutex' = mutex, memtables' = memtables, tables' = tables, job' = job,
           sv' = sv, DataTypes', FileTypes'
    PROVE  TInv' /\ RInv'
<1> DEFINE d == [e EXCEPT !.pc = "Check", !.sv = local_sv[r]]
<1>1. rd' = [rd EXCEPT ![r] = d] /\ local_sv' = [local_sv EXCEPT ![r] = kSVInUse]
  BY DEF SwapLocal
<1>2. local_sv[r] \in {kSVObsolete, kSVInUse} \cup DOMAIN sv /\ local_sv[r] \in Int
  BY ReaderFields
<1>3. d \in ReaderState /\ d.purge = e.purge /\ d.sv = local_sv[r] /\ d.op = e.op /\ d.pc = "Check"
  BY <1>2 DEF ReaderState
<1> HIDE DEF d
<1>4. ReaderInv(r, rd[r], local_sv[r])
  BY Refs
<1>5. local_sv[r] # kSVInUse /\ local_sv[r] \in {0} \cup DOMAIN sv
      /\ (local_sv[r] # 0 => Fresh(r, local_sv[r]))
  BY SMT, <1>2, <1>4, ViewFields DEF ReaderInv, kSVObsolete
<1>6. ReaderInv(r, d, kSVInUse)
  BY SMT, <1>3, <1>5 DEF ReaderInv, kSVInUse
<1>7. \A n \in DOMAIN sv : /\ Holding(d, n) <=> local_sv[r] = n
                           /\ kSVInUse = n <=> Holding(rd[r], n)
                           /\ ~CleaningUp(d, n) /\ ~CleaningUp(rd[r], n)
  BY SMT, <1>3, ViewFields DEF Holding, CleaningUp, kSVInUse
<1>8. SameViews /\ \A n \in DOMAIN sv : RefStep(n, r, d, kSVInUse)
  BY <1>7, ReaderKeeps
<1> QED BY <1>1, <1>3, <1>6, <1>8, ReaderDone

(***************************************************************************)
(* Get takes the pointer out of the cache.                                 *)
(***************************************************************************)
LEMMA GetStep == ASSUME SetFacts, TInv, RInv, NEW r \in Reader, Get(r) PROVE TInv' /\ RInv'
<1>1. /\ Call(r, "Get") /\ UNCHANGED <<last_sequence, snapshots, memtables, mem, imm>>
      /\ UNCHANGED <<tables, current, disk, obsolete_files, grabbed>>
      /\ install' = install /\ mutex' = mutex /\ memtables' = memtables /\ tables' = tables
      /\ job' = job /\ sv' = sv
  BY DEF Get, data, files
<1>2. DataTypes' /\ FileTypes' /\ todo.reads[r] # <<>> /\ rd[r].pc = "Idle"
  BY <1>1, CallTypes
<1>3. PICK e \in Requests(r) : SwapLocal(r, e)
  BY DEF Get
<1>4. e \in ReaderState /\ e.purge = {} /\ e.op \in Operation
  BY <1>2, RequestTypes
<1> QED BY <1>1, <1>2, <1>3, <1>4, SwapStep

(***************************************************************************)
(* So does NewIterator, one step later.                                    *)
(***************************************************************************)
LEMMA SwapForIteratorStep ==
    ASSUME SetFacts, TInv, RInv, NEW r \in Reader, SwapForIterator(r) PROVE TInv' /\ RInv'
<1>1. /\ rd[r].pc = "Swap" /\ SwapLocal(r, rd[r])
      /\ UNCHANGED <<last_sequence, snapshots, memtables, mem, imm, todo>>
      /\ UNCHANGED <<tables, current, disk>> /\ obsolete_files' = obsolete_files /\
           grabbed' = grabbed
      /\ install' = install /\ mutex' = mutex /\ memtables' = memtables /\ tables' = tables
      /\ job' = job /\ sv' = sv
  BY DEF SwapForIterator, data, files
<1>2. DataTypes' /\ FileTypes'
  BY <1>1, SameData, Types DEF FileTypes
<1>3. rd[r] \in ReaderState /\ rd[r].op \in Operation
  BY <1>1, ReaderFields, Refs DEF ReaderInv
<1>4. rd[r].purge \subseteq DOMAIN tables
  BY ReaderFields
<1> QED BY <1>1, <1>2, <1>3, <1>4, SwapStep

(***************************************************************************)
(* The steps of reader r that change its record only.                      *)
(***************************************************************************)
LEMMA ReaderMoves ==
    ASSUME SetFacts, TInv, RInv, NEW r \in Reader, NEW d \in ReaderState, rd'
      = [rd EXCEPT ![r] = d],
           UNCHANGED <<last_sequence, snapshots, memtables, mem, imm, todo>>,
           UNCHANGED <<tables, current>>, obsolete_files' \subseteq DOMAIN tables,
           grabbed' \subseteq DOMAIN tables, disk' \subseteq DOMAIN tables,
           install' = install, mutex' = mutex, job' = job, sv' = sv, local_sv' = local_sv,
           d.purge \subseteq DOMAIN tables, ReaderInv(r, d, local_sv[r]),
           \A n \in DOMAIN sv : /\ Holding(d, n) <=> Holding(rd[r], n)
                                /\ CleaningUp(d, n) <=> CleaningUp(rd[r], n)
    PROVE  TInv' /\ RInv'
<1>1. DataTypes'
  BY Frame
<1>2. FileTypes'
  BY Types DEF FileTypes
<1>3. local_sv' = [local_sv EXCEPT ![r] = local_sv[r]]
  BY Types DEF ThreadTypes
<1>4. local_sv[r] \in {kSVObsolete, kSVInUse} \cup DOMAIN sv
  BY ReaderFields
<1>5. SameViews /\ \A n \in DOMAIN sv : RefStep(n, r, d, local_sv[r])
  BY ReaderKeeps
<1> QED BY <1>1, <1>2, <1>3, <1>4, <1>5, ReaderDone

(***************************************************************************)
(* GetImpl changes no reference.                                           *)
(***************************************************************************)
LEMMA GetImplStep ==
    ASSUME SetFacts, TInv, RInv, NEW r \in Reader, GetImpl(r) PROVE TInv' /\ RInv'
<1> DEFINE s == IF rd[r].op.snapshot THEN rd[r].snapshot ELSE last_sequence
           d == [rd[r] EXCEPT !.pc = "Return", !.snapshot = s, !.value = Lookup(rd[r].sv, s)]
<1>1. /\ rd[r].pc = "Snapshot" /\ rd' = [rd EXCEPT ![r] = d]
      /\ UNCHANGED <<last_sequence, snapshots, memtables, mem, imm, todo>>
      /\ UNCHANGED <<tables, current>> /\ obsolete_files' = obsolete_files /\ grabbed' = grabbed
      /\ disk' = disk
      /\ install' = install /\ mutex' = mutex
      /\ job' = job /\ sv' = sv /\ local_sv' = local_sv
  BY DEF GetImpl, data, files
<1>2. rd[r] \in ReaderState /\ rd[r].purge \subseteq DOMAIN tables /\ rd[r].snapshot \in Nat
      /\ last_sequence \in Nat
  BY ReaderFields, Types DEF ReaderState, DataTypes
<1>3. ReaderInv(r, rd[r], local_sv[r])
  BY Refs
<1>4. s \in Nat /\ rd[r].sv \in DOMAIN sv
  BY <1>1, <1>2, <1>3 DEF ReaderInv
<1> HIDE DEF s
<1>5. Lookup(rd[r].sv, s) \in Nat
  BY <1>4, LookupProperty
<1>6. d \in ReaderState /\ d.purge = rd[r].purge /\ d.pc = "Return" /\ d.sv = rd[r].sv
      /\ d.op = rd[r].op
  BY <1>2, <1>4, <1>5 DEF ReaderState
<1> HIDE DEF d
<1>7. ReaderInv(r, d, local_sv[r])
  BY <1>1, <1>3, <1>6 DEF ReaderInv
<1>8. \A n \in DOMAIN sv : /\ Holding(d, n) <=> Holding(rd[r], n)
                           /\ CleaningUp(d, n) <=> CleaningUp(rd[r], n)
  BY <1>1, <1>6 DEF Holding, CleaningUp
<1>9. obsolete_files \subseteq DOMAIN tables /\ grabbed \subseteq DOMAIN tables /\
          disk \subseteq DOMAIN tables
  BY Types DEF FileTypes
<1> QED BY <1>1, <1>2, <1>6, <1>7, <1>8, <1>9, ReaderMoves

(***************************************************************************)
(* Deleting files changes no reference.                                    *)
(***************************************************************************)
LEMMA PurgeIteratorStep ==
    ASSUME SetFacts, TInv, RInv, NEW r \in Reader, PurgeAfterIterator(r) PROVE TInv' /\ RInv'
<1>1. /\ rd[r].pc = "Purge" /\ rd' = [rd EXCEPT ![r] = NewReader]
      /\ UNCHANGED <<last_sequence, snapshots, memtables, mem, imm, todo>>
      /\ UNCHANGED <<tables, current>> /\ obsolete_files' = obsolete_files
      /\ grabbed' \subseteq grabbed /\ disk' \subseteq disk
      /\ install' = install /\ mutex' = mutex
      /\ job' = job /\ sv' = sv /\ local_sv' = local_sv
  BY DEF PurgeAfterIterator, Purge, data
<1>2. ReaderInv(r, rd[r], local_sv[r])
  BY Refs
<1>3. ReaderInv(r, NewReader, local_sv[r])
  BY <1>1, <1>2, NewReaderType DEF ReaderInv
<1>4. \A n \in DOMAIN sv : ~Holding(rd[r], n) /\ ~CleaningUp(rd[r], n)
  BY <1>1 DEF Holding, CleaningUp
<1>5. obsolete_files' \subseteq DOMAIN tables /\ grabbed' \subseteq DOMAIN tables /\
          disk' \subseteq DOMAIN tables
  BY <1>1, Types DEF FileTypes
<1> QED BY <1>1, <1>3, <1>4, <1>5, NewReaderType, ReaderMoves

(***************************************************************************)
(* What the counts say: a super version that is owned, cached or held has  *)
(* a reference, so it is not freed and nobody is about to free it.         *)
(***************************************************************************)
LEMMA CountFacts ==
    ASSUME SetFacts, TInv, RInv, NEW n \in DOMAIN sv
    PROVE  /\ sv[n].refs \in Nat
           /\ IsFiniteSet(CacheOf(n)) /\ IsFiniteSet(ScrapedOf(n)) /\ IsFiniteSet(HoldersOf(n))
           /\ Cardinality(CacheOf(n)) \in Nat /\ Cardinality(ScrapedOf(n)) \in Nat
           /\ Cardinality(HoldersOf(n)) \in Nat
           /\ Owned(n) => sv[n].refs = 1 + Cardinality(CacheOf(n)) + Cardinality(ScrapedOf(n))
                                           + Cardinality(HoldersOf(n))
           /\ ~Owned(n) => sv[n].refs = Cardinality(CacheOf(n)) + Cardinality(ScrapedOf(n))
                                           + Cardinality(HoldersOf(n))
           /\ \A r \in Reader : Holding(rd[r], n) => Cardinality(HoldersOf(n)) >= 1
           /\ \A r \in Reader : local_sv[r] = n => Cardinality(CacheOf(n)) >= 1
           /\ sv[n].refs # 0 => ~sv[n].freed /\ \A r \in Reader : ~CleaningUp(rd[r], n)
<1>1. CacheOf(n) \in SUBSET Reader /\ HoldersOf(n) \in SUBSET Reader
      /\ ScrapedOf(n) \in SUBSET install.scraped /\ IsFiniteSet(install.scraped)
  BY Types DEF CacheOf, HoldersOf, ScrapedOf, ThreadTypes
<1>2. IsFiniteSet(CacheOf(n)) /\ IsFiniteSet(ScrapedOf(n)) /\ IsFiniteSet(HoldersOf(n))
  BY <1>1, ReaderAssumption, SubsetFinite
<1>3. Cardinality(CacheOf(n)) \in Nat /\ Cardinality(ScrapedOf(n)) \in Nat
      /\ Cardinality(HoldersOf(n)) \in Nat
  BY <1>2, CountType
<1>4. Counted(n) /\ Cleaned(n)
  BY Refs
<1>5. /\ Owned(n) => sv[n].refs = 1 + Cardinality(CacheOf(n)) + Cardinality(ScrapedOf(n))
                                           + Cardinality(HoldersOf(n))
      /\ ~Owned(n) => sv[n].refs = Cardinality(CacheOf(n)) + Cardinality(ScrapedOf(n))
                                           + Cardinality(HoldersOf(n))
  BY SMT, <1>3, <1>4 DEF Counted, One
<1>6. sv[n].refs \in Nat
  BY SMT, <1>3, <1>5
<1>7. ASSUME NEW r \in Reader, Holding(rd[r], n) PROVE Cardinality(HoldersOf(n)) >= 1
  <2>1. HoldersOf(n) # {}
    BY <1>7 DEF HoldersOf
  <2>2. Cardinality(HoldersOf(n)) # 0
    BY <2>1, <1>2, EmptyCount
  <2> QED BY SMT, <2>2, <1>3
<1>8. ASSUME NEW r \in Reader, local_sv[r] = n PROVE Cardinality(CacheOf(n)) >= 1
  <2>1. CacheOf(n) # {}
    BY <1>8 DEF CacheOf
  <2>2. Cardinality(CacheOf(n)) # 0
    BY <2>1, <1>2, EmptyCount
  <2> QED BY SMT, <2>2, <1>3
<1>9. sv[n].refs # 0 => ~sv[n].freed /\ \A r \in Reader : ~CleaningUp(rd[r], n)
  BY <1>4 DEF Cleaned
<1> QED BY <1>2, <1>3, <1>5, <1>6, <1>7, <1>8, <1>9

(***************************************************************************)
(* A reader drops its reference, and has to clean up if it was the last.   *)
(***************************************************************************)
LEMMA ReaderDrops ==
    ASSUME SetFacts, TInv, RInv, NEW r \in Reader, NEW d, NEW n \in DOMAIN sv, sv' = Unref(n),
           Holding(rd[r], n), \A m : ~Holding(d, m),
           \A m : CleaningUp(d, m) <=> m = n /\ IsLast(n)
    PROVE  SameViews /\ \A m \in DOMAIN sv : RefStep(m, r, d, local_sv[r])
<1>1. /\ sv' \in Seq(SuperVersions) /\ Len(sv') = Len(sv) /\ DOMAIN sv' = DOMAIN sv
      /\ \A m \in DOMAIN sv :
            /\ sv'[m].mem = sv[m].mem /\ sv'[m].imm = sv[m].imm /\ sv'[m].files = sv[m].files
            /\ sv'[m].freed = sv[m].freed
            /\ m # n => sv'[m].refs = sv[m].refs
      /\ sv'[n].refs = sv[n].refs - 1
  <2>1. sv \in Seq(SuperVersions)
    BY Types DEF ViewTypes
  <2> QED BY SMT, <2>1, RefEffect
<1>2. SameViews
  BY <1>1 DEF SameViews
<1>3. \A m : /\ m # n => ~Holding(rd[r], m)
             /\ ~CleaningUp(rd[r], m)
  BY DEF Holding, CleaningUp
<1>4. ASSUME NEW m \in DOMAIN sv, m # n PROVE RefStep(m, r, d, local_sv[r])
  <2>1. Cleaned(m) /\ sv[m].refs \in Int
    BY ViewFields, Refs
  <2>2. sv'[m].refs = sv[m].refs + (One(Holding(d, m)) - One(Holding(rd[r], m)))
                                 + (One(local_sv[r] = m) - One(local_sv[r] = m))
    BY SMT, <1>1, <1>3, <1>4, <2>1 DEF One
  <2>3. sv'[m].refs = sv[m].refs /\ sv'[m].freed = sv[m].freed /\ ~CleaningUp(d, m)
    BY <1>1, <1>4
  <2> QED BY <1>3, <2>1, <2>2, <2>3 DEF Cleaned, RefStep
<1>5. RefStep(n, r, d, local_sv[r])
  <2>1. /\ sv[n].refs \in Nat /\ sv[n].refs >= 1
        /\ ~sv[n].freed /\ \A q \in Reader : ~CleaningUp(rd[q], n)
    <3>1. sv[n].refs \in Nat /\ sv[n].refs # 0
      BY SMT, CountFacts
    <3> QED BY SMT, <3>1, CountFacts
  <2>2. sv'[n].refs = sv[n].refs + (One(Holding(d, n)) - One(Holding(rd[r], n)))
                                 + (One(local_sv[r] = n) - One(local_sv[r] = n))
    BY SMT, <1>1, <2>1 DEF One
  <2>3. IsLast(n) <=> sv'[n].refs = 0
    BY SMT, <1>1, <2>1 DEF IsLast
  <2>4. ~sv'[n].freed
    BY <1>1, <2>1
  <2>5. CleaningUp(d, n) <=> sv'[n].refs = 0
    BY <2>3
  <2> QED BY <2>1, <2>2, <2>4, <2>5 DEF RefStep
<1> QED BY <1>2, <1>4, <1>5

(***************************************************************************)
(* A reader, or its cache, gets one more reference to n.                   *)
(***************************************************************************)
LEMMA ReaderTakes ==
    ASSUME SetFacts, TInv, RInv, NEW r \in Reader, NEW d, NEW v, NEW n \in DOMAIN sv, sv' = Ref(n),
           sv[n].refs # 0,
           \A m \in DOMAIN sv :
             /\ ~CleaningUp(d, m) /\ ~CleaningUp(rd[r], m)
             /\ \/ (v = m <=> local_sv[r] = m) /\ ~Holding(rd[r], m) /\ (Holding(d, m) <=> m = n)
                \/ (Holding(d, m) <=> Holding(rd[r], m)) /\ local_sv[r] # m /\ (v = m <=> m = n)
    PROVE  SameViews /\ \A m \in DOMAIN sv : RefStep(m, r, d, v)
<1>1. /\ sv' \in Seq(SuperVersions) /\ Len(sv') = Len(sv) /\ DOMAIN sv' = DOMAIN sv
      /\ \A m \in DOMAIN sv :
            /\ sv'[m].mem = sv[m].mem /\ sv'[m].imm = sv[m].imm /\ sv'[m].files = sv[m].files
            /\ sv'[m].freed = sv[m].freed
            /\ m # n => sv'[m].refs = sv[m].refs
      /\ sv'[n].refs = sv[n].refs + 1
  <2>1. sv \in Seq(SuperVersions)
    BY Types DEF ViewTypes
  <2> QED BY SMT, <2>1, RefEffect
<1>2. SameViews
  BY <1>1 DEF SameViews
<1>3. ASSUME NEW m \in DOMAIN sv
      PROVE  sv'[m].refs = sv[m].refs + (One(Holding(d, m)) - One(Holding(rd[r], m)))
                                 + (One(v = m) - One(local_sv[r] = m))
  <2>1. sv[m].refs \in Int
    BY ViewFields
  <2> QED BY SMTT(30), <1>1, <2>1 DEF One
<1>4. ASSUME NEW m \in DOMAIN sv, m # n PROVE RefStep(m, r, d, v)
  <2>1. Cleaned(m)
    BY Refs
  <2>2. sv'[m].refs = sv[m].refs /\ sv'[m].freed = sv[m].freed
    BY <1>1, <1>4
  <2> QED BY <1>3, <2>1, <2>2 DEF Cleaned, RefStep
<1>5. RefStep(n, r, d, v)
  <2>1. sv[n].refs \in Nat /\ ~sv[n].freed /\ \A q \in Reader : ~CleaningUp(rd[q], n)
    BY CountFacts
  <2>2. sv'[n].refs # 0 /\ ~sv'[n].freed
    BY SMT, <1>1, <2>1
  <2> QED BY <1>3, <2>1, <2>2 DEF RefStep
<1> QED BY <1>2, <1>4, <1>5

(***************************************************************************)
(* The reader that dropped the last reference deletes the super version.   *)
(***************************************************************************)
LEMMA ReaderCleans ==
    ASSUME TInv, RInv, NEW r \in Reader, NEW d, NEW n \in DOMAIN sv, sv' = Cleanup(sv, n),
           CleaningUp(rd[r], n), \A m : ~Holding(d, m) /\ ~CleaningUp(d, m)
    PROVE  SameViews /\ \A m \in DOMAIN sv : RefStep(m, r, d, local_sv[r])
<1>1. /\ sv' \in Seq(SuperVersions) /\ Len(sv') = Len(sv) /\ DOMAIN sv' = DOMAIN sv
      /\ \A m \in DOMAIN sv :
            /\ sv'[m].mem = sv[m].mem /\ sv'[m].imm = sv[m].imm /\ sv'[m].files = sv[m].files
            /\ m # n => sv'[m].freed = sv[m].freed
            /\ sv'[m].refs = sv[m].refs
      /\ sv'[n].freed
  <2>1. sv \in Seq(SuperVersions)
    BY Types DEF ViewTypes
  <2>2. CleanedUp(sv', sv, n)
    BY <2>1, CleanupEffect
  <2> QED BY SMT, <2>2 DEF CleanedUp
<1>2. SameViews
  BY <1>1 DEF SameViews
<1>3. \A m : /\ ~Holding(rd[r], m)
             /\ m # n => ~CleaningUp(rd[r], m)
  BY DEF Holding, CleaningUp
<1>4. ASSUME NEW m \in DOMAIN sv
      PROVE  sv'[m].refs = sv[m].refs + (One(Holding(d, m)) - One(Holding(rd[r], m)))
                                 + (One(local_sv[r] = m) - One(local_sv[r] = m))
  <2>1. sv[m].refs \in Int
    BY ViewFields
  <2> QED BY SMT, <1>1, <1>3, <2>1 DEF One
<1>5. ASSUME NEW m \in DOMAIN sv, m # n PROVE RefStep(m, r, d, local_sv[r])
  <2>1. Cleaned(m)
    BY Refs
  <2>2. sv'[m].refs = sv[m].refs /\ sv'[m].freed = sv[m].freed /\ ~CleaningUp(d, m)
    BY <1>1, <1>5
  <2> QED BY <1>3, <1>4, <1>5, <2>1, <2>2 DEF Cleaned, RefStep
<1>6. RefStep(n, r, d, local_sv[r])
  <2>1. /\ sv[n].refs = 0 /\ \A q \in Reader \ {r} : ~CleaningUp(rd[q], n)
    BY Refs DEF Cleaned
  <2>2. sv'[n].refs = 0 /\ sv'[n].freed /\ ~CleaningUp(d, n)
    BY <1>1, <2>1
  <2> QED BY <1>4, <2>1, <2>2 DEF RefStep
<1> QED BY <1>2, <1>5, <1>6

(***************************************************************************)
(* A reader drops the last reference under mutex_ and deletes the super    *)
(* version.                                                                *)
(***************************************************************************)
LEMMA ReaderDeletes ==
    ASSUME SetFacts, TInv, RInv, NEW r \in Reader, NEW d, NEW n \in DOMAIN sv, sv'
      = Cleanup(Unref(n), n),
           Holding(rd[r], n), IsLast(n), \A m : ~Holding(d, m) /\ ~CleaningUp(d, m)
    PROVE  SameViews /\ \A m \in DOMAIN sv : RefStep(m, r, d, local_sv[r])
<1>1. /\ sv' \in Seq(SuperVersions) /\ Len(sv') = Len(sv) /\ DOMAIN sv' = DOMAIN sv
      /\ \A m \in DOMAIN sv :
            /\ sv'[m].mem = sv[m].mem /\ sv'[m].imm = sv[m].imm /\ sv'[m].files = sv[m].files
            /\ m # n => sv'[m].freed = sv[m].freed
            /\ m # n => sv'[m].refs = sv[m].refs
      /\ sv'[n].freed /\ sv'[n].refs = sv[n].refs - 1
  <2>1. sv \in Seq(SuperVersions)
    BY Types DEF ViewTypes
  <2>2. PICK svs : svs = Unref(n)
    OBVIOUS
  <2>3. /\ svs \in Seq(SuperVersions) /\ Len(svs) = Len(sv) /\ DOMAIN svs = DOMAIN sv
        /\ \A m \in DOMAIN sv :
            /\ svs[m].mem = sv[m].mem /\ svs[m].imm = sv[m].imm /\ svs[m].files = sv[m].files
            /\ svs[m].freed = sv[m].freed
            /\ m # n => svs[m].refs = sv[m].refs
        /\ svs[n].refs = sv[n].refs - 1
    BY SMT, <2>1, <2>2, RefEffect
  <2>4. sv' = Cleanup(svs, n)
    BY <2>2
  <2>5. /\ sv' \in Seq(SuperVersions) /\ Len(sv') = Len(svs) /\ DOMAIN sv' = DOMAIN svs
        /\ \A m \in DOMAIN svs :
            /\ sv'[m].mem = svs[m].mem /\ sv'[m].imm = svs[m].imm /\ sv'[m].files = svs[m].files
            /\ m # n => sv'[m].freed = svs[m].freed
            /\ sv'[m].refs = svs[m].refs
        /\ sv'[n].freed
    BY <2>3, <2>4, CleanupEffect DEF CleanedUp
  <2> QED BY SMT, <2>3, <2>5
<1>2. SameViews
  BY <1>1 DEF SameViews
<1>3. \A m : /\ m # n => ~Holding(rd[r], m)
             /\ ~CleaningUp(rd[r], m)
  BY DEF Holding, CleaningUp
<1>4. ASSUME NEW m \in DOMAIN sv
      PROVE  sv'[m].refs = sv[m].refs + (One(Holding(d, m)) - One(Holding(rd[r], m)))
                                 + (One(local_sv[r] = m) - One(local_sv[r] = m))
  <2>1. sv[m].refs \in Int
    BY ViewFields
  <2> QED BY SMT, <1>1, <1>3, <2>1 DEF One
<1>5. ASSUME NEW m \in DOMAIN sv, m # n PROVE RefStep(m, r, d, local_sv[r])
  <2>1. Cleaned(m)
    BY Refs
  <2>2. sv'[m].refs = sv[m].refs /\ sv'[m].freed = sv[m].freed /\ ~CleaningUp(d, m)
    BY <1>1, <1>5
  <2> QED BY <1>3, <1>4, <1>5, <2>1, <2>2 DEF Cleaned, RefStep
<1>6. RefStep(n, r, d, local_sv[r])
  <2>1. sv[n].refs = 1 /\ \A q \in Reader : ~CleaningUp(rd[q], n)
    BY SMT, CountFacts DEF IsLast
  <2>2. sv'[n].refs = 0 /\ sv'[n].freed /\ ~CleaningUp(d, n)
    BY SMT, <1>1, <2>1
  <2> QED BY <1>4, <2>1, <2>2 DEF RefStep
<1> QED BY <1>2, <1>5, <1>6

(***************************************************************************)
(* super_version_ has a reference of its own.                              *)
(***************************************************************************)
LEMMA NewestOwned ==
    ASSUME SetFacts, TInv, RInv
    PROVE  Len(sv) \in DOMAIN sv /\ Owned(Len(sv)) /\ sv[Len(sv)].refs # 0
<1>1. Len(sv) \in DOMAIN sv /\ Owned(Len(sv))
  BY SMT, Types DEF ViewTypes, Owned
<1> QED BY SMT, <1>1, CountFacts

(***************************************************************************)
(* A reader deletes c, to which it had the last reference, and takes n.    *)
(***************************************************************************)
LEMMA ReaderSwaps ==
    ASSUME SetFacts, TInv, RInv, NEW r \in Reader, NEW d, NEW n \in DOMAIN sv, NEW c \in DOMAIN sv,
           sv' = Cleanup(Ref(n), c), CleaningUp(rd[r], c), sv[n].refs # 0,
           \A m : ~CleaningUp(d, m) /\ (Holding(d, m) <=> m = n)
    PROVE  SameViews /\ \A m \in DOMAIN sv : RefStep(m, r, d, local_sv[r])
<1>0. c # n /\ sv[c].refs = 0
  BY CountFacts
<1>1. /\ sv' \in Seq(SuperVersions) /\ Len(sv') = Len(sv) /\ DOMAIN sv' = DOMAIN sv
      /\ \A m \in DOMAIN sv :
            /\ sv'[m].mem = sv[m].mem /\ sv'[m].imm = sv[m].imm /\ sv'[m].files = sv[m].files
            /\ m # c => sv'[m].freed = sv[m].freed
            /\ m # n => sv'[m].refs = sv[m].refs
      /\ sv'[c].freed /\ sv'[n].refs = sv[n].refs + 1
  <2>1. sv \in Seq(SuperVersions)
    BY Types DEF ViewTypes
  <2>2. PICK svs : svs = Ref(n)
    OBVIOUS
  <2>3. /\ svs \in Seq(SuperVersions) /\ Len(svs) = Len(sv) /\ DOMAIN svs = DOMAIN sv
        /\ \A m \in DOMAIN sv :
            /\ svs[m].mem = sv[m].mem /\ svs[m].imm = sv[m].imm /\ svs[m].files = sv[m].files
            /\ svs[m].freed = sv[m].freed
            /\ m # n => svs[m].refs = sv[m].refs
        /\ svs[n].refs = sv[n].refs + 1
    BY SMT, <2>1, <2>2, RefEffect
  <2>4. sv' = Cleanup(svs, c)
    BY <2>2
  <2>5. /\ sv' \in Seq(SuperVersions) /\ Len(sv') = Len(svs) /\ DOMAIN sv' = DOMAIN svs
        /\ \A m \in DOMAIN svs :
            /\ sv'[m].mem = svs[m].mem /\ sv'[m].imm = svs[m].imm /\ sv'[m].files = svs[m].files
            /\ m # c => sv'[m].freed = svs[m].freed
            /\ sv'[m].refs = svs[m].refs
        /\ sv'[c].freed
    BY <2>3, <2>4, CleanupEffect DEF CleanedUp
  <2> QED BY SMT, <2>3, <2>5
<1>2. SameViews
  BY <1>1 DEF SameViews
<1>3. \A m : /\ ~Holding(rd[r], m)
             /\ m # c => ~CleaningUp(rd[r], m)
  BY DEF Holding, CleaningUp
<1>4. ASSUME NEW m \in DOMAIN sv
      PROVE  sv'[m].refs = sv[m].refs + (One(Holding(d, m)) - One(Holding(rd[r], m)))
                                 + (One(local_sv[r] = m) - One(local_sv[r] = m))
  <2>1. sv[m].refs \in Int
    BY ViewFields
  <2> QED BY SMT, <1>1, <1>3, <2>1 DEF One
<1>5. ASSUME NEW m \in DOMAIN sv, m # n, m # c PROVE RefStep(m, r, d, local_sv[r])
  <2>1. Cleaned(m)
    BY Refs
  <2>2. sv'[m].refs = sv[m].refs /\ sv'[m].freed = sv[m].freed
    BY <1>1, <1>5
  <2> QED BY <1>3, <1>4, <1>5, <2>1, <2>2 DEF Cleaned, RefStep
<1>6. RefStep(n, r, d, local_sv[r])
  <2>1. sv[n].refs \in Nat /\ ~sv[n].freed /\ \A q \in Reader : ~CleaningUp(rd[q], n)
    BY CountFacts
  <2>2. sv'[n].refs # 0 /\ ~sv'[n].freed
    BY SMT, <1>0, <1>1, <2>1
  <2> QED BY <1>4, <2>1, <2>2 DEF RefStep
<1>7. RefStep(c, r, d, local_sv[r])
  <2>1. \A q \in Reader \ {r} : ~CleaningUp(rd[q], c)
    BY Refs DEF Cleaned
  <2>2. sv'[c].refs = 0 /\ sv'[c].freed
    BY <1>0, <1>1
  <2> QED BY <1>4, <2>1, <2>2 DEF RefStep
<1> QED BY <1>2, <1>5, <1>6, <1>7

(***************************************************************************)
(* A stale pointer is given up; if its reference was the last, the reader  *)
(* remembers that it has to clean up.                                      *)
(***************************************************************************)
LEMMA CheckStep ==
    ASSUME SetFacts, TInv, RInv, NEW r \in Reader, CheckVersionNumber(r) PROVE TInv' /\ RInv'
<1> DEFINE n == rd[r].sv
<1>1. /\ rd[r].pc = "Check"
      /\ UNCHANGED <<last_sequence, snapshots, memtables, mem, imm, todo>>
      /\ UNCHANGED <<tables, current, disk>> /\ obsolete_files' = obsolete_files /\
           grabbed' = grabbed
      /\ install' = install /\ mutex' = mutex /\ memtables' = memtables /\ tables' = tables
      /\ job' = job /\ local_sv' = local_sv
      /\ \/ n = Len(sv) /\ rd' = [rd EXCEPT ![r].pc = AfterAcquire(r)] /\ sv' = sv
         \/ /\ n # Len(sv)
            /\ rd' = [rd EXCEPT ![r].pc = "Acquire", ![r].last = n # kSVObsolete /\ IsLast(n)]
            /\ sv' = IF n = kSVObsolete THEN sv ELSE Unref(n)
  BY DEF CheckVersionNumber, data, files
<1>2. DataTypes' /\ FileTypes'
  BY <1>1, SameData, Types DEF FileTypes
<1>3. rd[r] \in ReaderState /\ rd[r].purge \subseteq DOMAIN tables /\ n \in Int
      /\ local_sv[r] \in {kSVObsolete, kSVInUse} \cup DOMAIN sv
  BY ReaderFields
<1>4. local_sv' = [local_sv EXCEPT ![r] = local_sv[r]]
  BY <1>1, Types DEF ThreadTypes
<1>5. ReaderInv(r, rd[r], local_sv[r])
  BY Refs
<1>6. CASE n = Len(sv) /\ rd' = [rd EXCEPT ![r].pc = AfterAcquire(r)] /\ sv' = sv
  <2> DEFINE d == [rd[r] EXCEPT !.pc = AfterAcquire(r)]
  <2>1. AfterAcquire(r) \in {"Snapshot", "Return"}
    BY DEF AfterAcquire
  <2>2. rd' = [rd EXCEPT ![r] = d]
    BY <1>6
  <2>3. d \in ReaderState /\ d.purge = rd[r].purge /\ d.sv = n /\ d.op = rd[r].op
        /\ d.pc \in {"Snapshot", "Return"}
    BY <1>3, <2>1 DEF ReaderState
  <2> HIDE DEF d
  <2>4. ReaderInv(r, d, local_sv[r])
    BY <1>1, <1>5, <1>6, <2>3, NewestOwned DEF ReaderInv, Fresh
  <2>5. SameViews /\ \A m \in DOMAIN sv : RefStep(m, r, d, local_sv[r])
    <3>1. \A m : (Holding(d, m) <=> Holding(rd[r], m)) /\
              (CleaningUp(d, m) <=> CleaningUp(rd[r], m))
      BY <1>1, <2>3 DEF Holding, CleaningUp
    <3> QED BY <3>1, <1>6, ReaderKeeps
  <2> QED BY <1>1, <1>2, <1>3, <1>4, <2>2, <2>3, <2>4, <2>5, ReaderDone
<1>7. CASE /\ n # Len(sv)
           /\ rd' = [rd EXCEPT ![r].pc = "Acquire", ![r].last = n # kSVObsolete /\ IsLast(n)]
           /\ sv' = IF n = kSVObsolete THEN sv ELSE Unref(n)
  <2> DEFINE d == [rd[r] EXCEPT !.pc = "Acquire", !.last = n # kSVObsolete /\ IsLast(n)]
  <2>1. rd' = [rd EXCEPT ![r] = d]
    BY <1>7
  <2>2. d \in ReaderState
    <3>1. (n # kSVObsolete /\ IsLast(n)) \in BOOLEAN
      OBVIOUS
    <3> QED BY <1>3, <3>1 DEF ReaderState
  <2>3. d.purge = rd[r].purge /\ d.sv = n /\ d.op = rd[r].op /\ d.pc = "Acquire"
    BY <1>3 DEF ReaderState
  <2>4. d.last <=> n # kSVObsolete /\ IsLast(n)
    BY <1>3 DEF ReaderState
  <2> HIDE DEF d
  <2>5. n \in {0} \cup DOMAIN sv
    BY <1>1, <1>5 DEF ReaderInv
  <2>6. ReaderInv(r, d, local_sv[r])
    BY <1>1, <1>5, <2>3, <2>4, <2>5 DEF ReaderInv, kSVObsolete
  <2>7. SameViews /\ \A m \in DOMAIN sv : RefStep(m, r, d, local_sv[r])
    <3>1. CASE n = kSVObsolete
      <4>1. \A m \in DOMAIN sv : ~Holding(d, m) /\ ~Holding(rd[r], m) /\ ~CleaningUp(d, m) /\
                ~CleaningUp(rd[r], m)
        BY <3>1, <1>1, <2>3, ViewFields DEF Holding, CleaningUp, kSVObsolete
      <4> QED BY <4>1, <3>1, <1>7, ReaderKeeps
    <3>2. CASE n # kSVObsolete
      <4>1. n \in DOMAIN sv /\ sv' = Unref(n) /\ Holding(rd[r], n)
        BY <3>2, <2>5, <1>1, <1>7 DEF kSVObsolete, Holding
      <4>2. \A m : ~Holding(d, m) /\ (CleaningUp(d, m) <=> m = n /\ IsLast(n))
        BY <3>2, <2>3, <2>4 DEF Holding, CleaningUp
      <4> QED BY <4>1, <4>2, ReaderDrops
    <3> QED BY <3>1, <3>2
  <2> QED BY <1>1, <1>2, <1>3, <1>4, <2>1, <2>2, <2>3, <2>6, <2>7, ReaderDone
<1> QED BY <1>1, <1>6, <1>7

(***************************************************************************)
(* The reader takes a reference to the newest super version, and cleans up *)
(* the one it gave up.                                                     *)
(***************************************************************************)
LEMMA AcquireStep ==
    ASSUME SetFacts, TInv, RInv, NEW r \in Reader, Acquire(r) PROVE TInv' /\ RInv'
<1> DEFINE n == Len(sv)
           d == [rd[r] EXCEPT !.pc = AfterAcquire(r), !.sv = n, !.last = FALSE]
<1>1. /\ rd[r].pc = "Acquire" /\ rd' = [rd EXCEPT ![r] = d]
      /\ sv' = IF rd[r].last THEN Cleanup(Ref(n), rd[r].sv) ELSE Ref(n)
      /\ UNCHANGED <<last_sequence, snapshots, memtables, mem, imm, todo>>
      /\ UNCHANGED <<tables, current, disk>> /\ DropVersions /\ grabbed' = grabbed
      /\ install' = install /\ mutex' = mutex /\ memtables' = memtables /\ tables' = tables
      /\ job' = job /\ local_sv' = local_sv
  BY DEF Acquire, data
<1>2. DataTypes' /\ FileTypes'
  BY <1>1, SameData, DropTypes, Types DEF FileTypes
<1>3. rd[r] \in ReaderState /\ rd[r].purge \subseteq DOMAIN tables
      /\ local_sv[r] \in {kSVObsolete, kSVInUse} \cup DOMAIN sv
  BY ReaderFields
<1>4. local_sv' = [local_sv EXCEPT ![r] = local_sv[r]]
  BY <1>1, Types DEF ThreadTypes
<1>5. ReaderInv(r, rd[r], local_sv[r])
  BY Refs
<1>6. n \in DOMAIN sv /\ sv[n].refs # 0 /\ n \in Int
  BY SMT, NewestOwned, ViewFields
<1>7. d \in ReaderState /\ d.purge = rd[r].purge /\ d.sv = n /\ d.op = rd[r].op
      /\ d.pc \in {"Snapshot", "Return"}
  BY <1>3, <1>6 DEF ReaderState, AfterAcquire
<1>8. \A m : ~CleaningUp(d, m) /\ (Holding(d, m) <=> m = n)
  BY <1>7 DEF CleaningUp, Holding
<1> HIDE DEF d
<1>9. ReaderInv(r, d, local_sv[r])
  BY <1>1, <1>5, <1>6, <1>7 DEF ReaderInv, Fresh
<1>10. SameViews /\ \A m \in DOMAIN sv : RefStep(m, r, d, local_sv[r])
  <2>1. CASE rd[r].last
    <3>1. rd[r].sv \in DOMAIN sv /\ CleaningUp(rd[r], rd[r].sv)
      BY <1>1, <1>5, <2>1 DEF ReaderInv, CleaningUp
    <3> QED BY <3>1, <2>1, <1>1, <1>6, <1>8, ReaderSwaps
  <2>2. CASE ~rd[r].last
    <3>1. \A m : ~Holding(rd[r], m) /\ ~CleaningUp(rd[r], m)
      BY <1>1, <2>2 DEF Holding, CleaningUp
    <3> QED BY <3>1, <2>2, <1>1, <1>6, <1>8, ReaderTakes
  <2> QED BY <2>1, <2>2
<1> QED BY <1>1, <1>2, <1>3, <1>4, <1>7, <1>9, <1>10, ReaderDone

(***************************************************************************)
(* The pointer goes back to the cache with its reference, or, if the cache *)
(* was scraped meanwhile, the reference is dropped.                        *)
(***************************************************************************)
LEMMA ReturnGetStep ==
    ASSUME SetFacts, TInv, RInv, NEW r \in Reader, ReturnFromGet(r) PROVE TInv' /\ RInv'
<1> DEFINE n == rd[r].sv
           back == local_sv[r] = kSVInUse
           d == IF ~back /\ IsLast(n) THEN [rd[r] EXCEPT !.pc = "Cleanup"] ELSE NewReader
           v == IF back THEN n ELSE local_sv[r]
<1>1. /\ rd[r].pc = "Return" /\ rd[r].op.kind = "Get" /\ rd' = [rd EXCEPT ![r] = d]
      /\ sv' = IF back THEN sv ELSE Unref(n)
      /\ local_sv' = IF back THEN [local_sv EXCEPT ![r] = n] ELSE local_sv
      /\ UNCHANGED <<last_sequence, snapshots, memtables, mem, imm, todo>>
      /\ UNCHANGED <<tables, current, disk>> /\ obsolete_files' = obsolete_files /\
           grabbed' = grabbed
      /\ install' = install /\ mutex' = mutex /\ memtables' = memtables /\ tables' = tables
      /\ job' = job
  BY DEF ReturnFromGet, data, files
<1>2. DataTypes' /\ FileTypes'
  BY <1>1, SameData, Types DEF FileTypes
<1>3. rd[r] \in ReaderState /\ rd[r].purge \subseteq DOMAIN tables
      /\ local_sv[r] \in {kSVObsolete, kSVInUse} \cup DOMAIN sv
  BY ReaderFields
<1>4. local_sv' = [local_sv EXCEPT ![r] = v]
  BY <1>1, Types DEF ThreadTypes
<1>5. ReaderInv(r, rd[r], local_sv[r])
  BY Refs
<1>6. n \in DOMAIN sv /\ n \in Nat /\ n # 0 /\ Holding(rd[r], n)
      /\ \A m : (Holding(rd[r], m) => m = n) /\ ~CleaningUp(rd[r], m)
  BY <1>1, <1>5, ViewFields DEF ReaderInv, Holding, CleaningUp
<1>7. CASE back
  <2>1. d = NewReader /\ v = n
    BY <1>7
  <2>2. ReaderInv(r, d, v)
    BY SMT, <1>1, <1>5, <1>6, <1>7, <2>1, NewReaderType DEF ReaderInv, kSVInUse
  <2>3. SameViews /\ \A m \in DOMAIN sv : RefStep(m, r, d, v)
    <3>1. \A m \in DOMAIN sv : local_sv[r] # m
      BY SMT, <1>7, ViewFields DEF kSVInUse
    <3> QED BY <3>1, <2>1, <1>1, <1>6, <1>7, NewReaderType, ReaderKeeps
  <2>4. v \in {kSVObsolete, kSVInUse} \cup DOMAIN sv
    BY <2>1, <1>6
  <2>5. d \in ReaderState /\ d.purge \subseteq DOMAIN tables
    BY <2>1, NewReaderType
  <2> HIDE DEF d, v
  <2> QED BY <1>1, <1>2, <1>4, <2>2, <2>3, <2>4, <2>5, ReaderDone
<1>8. CASE ~back
  <2>1. v = local_sv[r] /\ sv' = Unref(n)
    BY <1>1, <1>8
  <2>2. /\ d \in ReaderState /\ d.purge \subseteq DOMAIN tables
        /\ d.pc \in {"Cleanup", "Idle"} /\ (d.pc = "Cleanup" => d.sv = n /\ d.op = rd[r].op)
        /\ (d.pc = "Cleanup") <=> IsLast(n)
    BY <1>3, <1>8, NewReaderType DEF ReaderState
  <2> HIDE DEF d
  <2>3. \A m : ~Holding(d, m) /\ (CleaningUp(d, m) <=> m = n /\ IsLast(n))
    BY <2>2 DEF Holding, CleaningUp
  <2>4. ReaderInv(r, d, v)
    BY <1>1, <1>5, <1>6, <1>8, <2>1, <2>2 DEF ReaderInv
  <2>5. SameViews /\ \A m \in DOMAIN sv : RefStep(m, r, d, v)
    <3> HIDE DEF v
    <3> QED BY <1>6, <2>1, <2>3, ReaderDrops
  <2>6. v \in {kSVObsolete, kSVInUse} \cup DOMAIN sv
    BY <2>1, <1>3
  <2> HIDE DEF v
  <2> QED BY <1>1, <1>2, <1>4, <2>2, <2>4, <2>5, <2>6, ReaderDone
<1> QED BY <1>7, <1>8

(***************************************************************************)
(* The iterator has its own reference. The one of the cache goes back, or  *)
(* passes to the iterator if the cache was scraped.                        *)
(***************************************************************************)
LEMMA ReturnIteratorStep ==
    ASSUME SetFacts, TInv, RInv, NEW r \in Reader, ReturnFromNewIterator(r) PROVE TInv' /\ RInv'
<1> DEFINE n == rd[r].sv
           back == local_sv[r] = kSVInUse
           d == [rd[r] EXCEPT !.pc = "Release", !.value = Lookup(n, rd[r].snapshot)]
           v == IF back THEN n ELSE local_sv[r]
<1>1. /\ rd[r].pc = "Return" /\ rd' = [rd EXCEPT ![r] = d]
      /\ sv' = IF back THEN Ref(n) ELSE sv
      /\ local_sv' = IF back THEN [local_sv EXCEPT ![r] = n] ELSE local_sv
      /\ UNCHANGED <<last_sequence, snapshots, memtables, mem, imm, todo>>
      /\ UNCHANGED <<tables, current, disk>> /\ obsolete_files' = obsolete_files /\
           grabbed' = grabbed
      /\ install' = install /\ mutex' = mutex /\ memtables' = memtables /\ tables' = tables
      /\ job' = job
  BY DEF ReturnFromNewIterator, data, files
<1>2. DataTypes' /\ FileTypes'
  BY <1>1, SameData, Types DEF FileTypes
<1>3. rd[r] \in ReaderState /\ rd[r].purge \subseteq DOMAIN tables
      /\ local_sv[r] \in {kSVObsolete, kSVInUse} \cup DOMAIN sv
  BY ReaderFields
<1>4. local_sv' = [local_sv EXCEPT ![r] = v]
  BY <1>1, Types DEF ThreadTypes
<1>5. ReaderInv(r, rd[r], local_sv[r])
  BY Refs
<1>6. n \in DOMAIN sv /\ n \in Nat /\ n # 0 /\ Holding(rd[r], n)
      /\ \A m : (Holding(rd[r], m) <=> m = n) /\ ~CleaningUp(rd[r], m)
  BY <1>1, <1>5, ViewFields DEF ReaderInv, Holding, CleaningUp
<1>7. Lookup(n, rd[r].snapshot) \in Nat
  <2>1. rd[r].snapshot \in Nat
    BY <1>3 DEF ReaderState
  <2> QED BY <2>1, <1>6, LookupProperty
<1>8. d \in ReaderState /\ d.purge = rd[r].purge /\ d.sv = n /\ d.op = rd[r].op /\ d.pc = "Release"
  BY <1>3, <1>7 DEF ReaderState
<1> HIDE DEF d
<1>9. \A m : (Holding(d, m) <=> Holding(rd[r], m)) /\ ~CleaningUp(d, m)
  BY <1>1, <1>8 DEF Holding, CleaningUp
<1>10. ReaderInv(r, d, v) /\ v \in {kSVObsolete, kSVInUse} \cup DOMAIN sv
  BY SMT, <1>1, <1>3, <1>5, <1>6, <1>8 DEF ReaderInv, kSVInUse
<1>11. SameViews /\ \A m \in DOMAIN sv : RefStep(m, r, d, v)
  <2>1. CASE back
    <3>1. \A m \in DOMAIN sv : local_sv[r] # m
      BY SMT, <2>1, ViewFields DEF kSVInUse
    <3>2. sv' = Ref(n) /\ v = n
      BY <1>1, <2>1
    <3>3. sv[n].refs # 0
      BY SMT, <1>6, CountFacts
    <3> HIDE DEF v
    <3> QED BY SMT, <3>1, <3>2, <3>3, <1>6, <1>9, ReaderTakes
  <2>2. CASE ~back
    <3>1. sv' = sv /\ v = local_sv[r]
      BY <1>1, <2>2
    <3> HIDE DEF v
    <3> QED BY <3>1, <1>6, <1>9, ReaderKeeps
  <2> QED BY <2>1, <2>2
<1> HIDE DEF v
<1> QED BY <1>1, <1>2, <1>3, <1>4, <1>8, <1>10, <1>11, ReaderDone

(***************************************************************************)
(* MultiGet takes its own reference.                                       *)
(***************************************************************************)
LEMMA MultiGetStep ==
    ASSUME SetFacts, TInv, RInv, NEW r \in Reader, MultiGet(r) PROVE TInv' /\ RInv'
<1> DEFINE n == Len(sv)
<1>1. /\ mutex = Null /\ Call(r, "MultiGet") /\ sv' = Ref(n)
      /\ UNCHANGED <<last_sequence, snapshots, memtables, mem, imm>>
      /\ UNCHANGED <<tables, current, disk, obsolete_files, grabbed>>
      /\ install' = install /\ mutex' = mutex /\ memtables' = memtables /\ tables' = tables
      /\ job' = job /\ local_sv' = local_sv
  BY DEF MultiGet, data, files
<1>2. PICK e \in Requests(r) :
          rd' = [rd EXCEPT ![r] = [e EXCEPT !.pc = "Release", !.sv = n,
                                            !.value = Lookup(n, e.snapshot)]]
  BY DEF MultiGet
<1>3. DataTypes' /\ FileTypes' /\ todo.reads[r] # <<>> /\ rd[r].pc = "Idle"
  BY <1>1, CallTypes
<1>4. e \in ReaderState /\ e.purge = {} /\ e.op \in Operation
  BY <1>3, RequestTypes
<1>5. local_sv' = [local_sv EXCEPT ![r] = local_sv[r]]
      /\ local_sv[r] \in {kSVObsolete, kSVInUse} \cup DOMAIN sv
  BY <1>1, ReaderFields, Types DEF ThreadTypes
<1>6. n \in DOMAIN sv /\ sv[n].refs # 0 /\ n \in Int
  BY SMT, NewestOwned, ViewFields
<1>7. Lookup(n, e.snapshot) \in Nat
  <2>1. e.snapshot \in Nat
    BY <1>4 DEF ReaderState
  <2> QED BY <2>1, <1>6, LookupProperty
<1> DEFINE d == [e EXCEPT !.pc = "Release", !.sv = n, !.value = Lookup(n, e.snapshot)]
<1>8. d \in ReaderState /\ d.purge = {} /\ d.sv = n /\ d.op \in Operation /\ d.pc = "Release"
  BY <1>4, <1>6, <1>7 DEF ReaderState
<1>9. rd' = [rd EXCEPT ![r] = d]
  BY <1>2
<1> HIDE DEF d
<1>10. ReaderInv(r, d, local_sv[r])
  <2>1. ReaderInv(r, rd[r], local_sv[r])
    BY Refs
  <2> QED BY <2>1, <1>3, <1>6, <1>8 DEF ReaderInv
<1>11. SameViews /\ \A m \in DOMAIN sv : RefStep(m, r, d, local_sv[r])
  <2>1. \A m : ~Holding(rd[r], m) /\ ~CleaningUp(rd[r], m) /\ ~CleaningUp(d, m)
               /\ (Holding(d, m) <=> m = n)
    BY <1>3, <1>8 DEF Holding, CleaningUp
  <2> QED BY <2>1, <1>1, <1>6, ReaderTakes
<1>12. d.purge \subseteq DOMAIN tables
  BY <1>8
<1> QED BY <1>1, <1>3, <1>5, <1>8, <1>9, <1>10, <1>11, <1>12, ReaderDone

(***************************************************************************)
(* MultiGet drops its reference, and deletes the super version if it was   *)
(* the last.                                                               *)
(***************************************************************************)
LEMMA EndMultiGetStep ==
    ASSUME SetFacts, TInv, RInv, NEW r \in Reader, EndMultiGet(r) PROVE TInv' /\ RInv'
<1> DEFINE n == rd[r].sv
<1>1. /\ rd[r].pc = "Release" /\ rd' = [rd EXCEPT ![r] = NewReader]
      /\ sv' = IF IsLast(n) THEN Cleanup(Unref(n), n) ELSE Unref(n)
      /\ UNCHANGED <<last_sequence, snapshots, memtables, mem, imm, todo>>
      /\ UNCHANGED <<tables, current, disk>> /\ DropVersions /\ grabbed' = grabbed
      /\ install' = install /\ mutex' = mutex /\ memtables' = memtables /\ tables' = tables
      /\ job' = job /\ local_sv' = local_sv
  BY DEF EndMultiGet, data
<1>2. DataTypes' /\ FileTypes'
  BY <1>1, SameData, DropTypes, Types DEF FileTypes
<1>3. local_sv' = [local_sv EXCEPT ![r] = local_sv[r]]
      /\ local_sv[r] \in {kSVObsolete, kSVInUse} \cup DOMAIN sv
  BY <1>1, ReaderFields, Types DEF ThreadTypes
<1>4. ReaderInv(r, rd[r], local_sv[r])
  BY Refs
<1>5. ReaderInv(r, NewReader, local_sv[r])
  BY <1>1, <1>4, NewReaderType DEF ReaderInv
<1>6. n \in DOMAIN sv /\ Holding(rd[r], n)
  BY <1>1, <1>4 DEF ReaderInv, Holding
<1>7. SameViews /\ \A m \in DOMAIN sv : RefStep(m, r, NewReader, local_sv[r])
  <2>1. CASE IsLast(n)
    BY <2>1, <1>1, <1>6, NewReaderType, ReaderDeletes
  <2>2. CASE ~IsLast(n)
    BY <2>2, <1>1, <1>6, NewReaderType, ReaderDrops
  <2> QED BY <2>1, <2>2
<1>8. NewReader \in ReaderState /\ NewReader.purge \subseteq DOMAIN tables
  BY NewReaderType
<1> QED BY <1>1, <1>2, <1>3, <1>5, <1>7, <1>8, ReaderDone

(***************************************************************************)
(* CleanupSuperVersion after the last reference was dropped.               *)
(***************************************************************************)
LEMMA CleanupStep ==
    ASSUME SetFacts, TInv, RInv, NEW r \in Reader, CleanupSuperVersion(r) PROVE TInv' /\ RInv'
<1> DEFINE n == rd[r].sv
<1>1. /\ rd[r].pc = "Cleanup" /\ rd' = [rd EXCEPT ![r] = NewReader] /\ sv' = Cleanup(sv, n)
      /\ UNCHANGED <<last_sequence, snapshots, memtables, mem, imm, todo>>
      /\ UNCHANGED <<tables, current, disk>> /\ DropVersions /\ grabbed' = grabbed
      /\ install' = install /\ mutex' = mutex /\ memtables' = memtables /\ tables' = tables
      /\ job' = job /\ local_sv' = local_sv
  BY DEF CleanupSuperVersion, data
<1>2. DataTypes' /\ FileTypes'
  BY <1>1, SameData, DropTypes, Types DEF FileTypes
<1>3. local_sv' = [local_sv EXCEPT ![r] = local_sv[r]]
      /\ local_sv[r] \in {kSVObsolete, kSVInUse} \cup DOMAIN sv
  BY <1>1, ReaderFields, Types DEF ThreadTypes
<1>4. ReaderInv(r, rd[r], local_sv[r])
  BY Refs
<1>5. ReaderInv(r, NewReader, local_sv[r])
  BY <1>1, <1>4, NewReaderType DEF ReaderInv
<1>6. n \in DOMAIN sv /\ CleaningUp(rd[r], n)
  BY <1>1, <1>4 DEF ReaderInv, CleaningUp
<1>7. SameViews /\ \A m \in DOMAIN sv : RefStep(m, r, NewReader, local_sv[r])
  BY <1>1, <1>6, NewReaderType, ReaderCleans
<1>8. NewReader \in ReaderState /\ NewReader.purge \subseteq DOMAIN tables
  BY NewReaderType
<1> QED BY <1>1, <1>2, <1>3, <1>5, <1>7, <1>8, ReaderDone

(***************************************************************************)
(* The reference of an iterator is dropped.                                *)
(***************************************************************************)
LEMMA UnrefIteratorStep ==
    ASSUME SetFacts, TInv, RInv, NEW r \in Reader, UnrefIterator(r) PROVE TInv' /\ RInv'
<1> DEFINE n == rd[r].sv
           d == IF IsLast(n) THEN [rd[r] EXCEPT !.pc = "IterCleanup"] ELSE NewReader
<1>1. /\ rd[r].pc = "Release" /\ rd' = [rd EXCEPT ![r] = d] /\ sv' = Unref(n)
      /\ UNCHANGED <<last_sequence, snapshots, memtables, mem, imm, todo>>
      /\ UNCHANGED <<tables, current, disk>> /\ obsolete_files' = obsolete_files /\
           grabbed' = grabbed
      /\ install' = install /\ mutex' = mutex /\ memtables' = memtables /\ tables' = tables
      /\ job' = job /\ local_sv' = local_sv
  BY DEF UnrefIterator, data, files
<1>2. DataTypes' /\ FileTypes'
  BY <1>1, SameData, Types DEF FileTypes
<1>3. local_sv' = [local_sv EXCEPT ![r] = local_sv[r]]
      /\ local_sv[r] \in {kSVObsolete, kSVInUse} \cup DOMAIN sv
      /\ rd[r] \in ReaderState /\ rd[r].purge \subseteq DOMAIN tables
  BY <1>1, ReaderFields, Types DEF ThreadTypes
<1>4. ReaderInv(r, rd[r], local_sv[r])
  BY Refs
<1>5. n \in DOMAIN sv /\ Holding(rd[r], n)
  BY <1>1, <1>4 DEF ReaderInv, Holding
<1>6. /\ d \in ReaderState /\ d.purge \subseteq DOMAIN tables
      /\ d.pc \in {"IterCleanup", "Idle"} /\ (d.pc = "IterCleanup" => d.sv = n /\ d.op = rd[r].op)
      /\ (d.pc = "IterCleanup") <=> IsLast(n)
  BY <1>3, NewReaderType DEF ReaderState
<1> HIDE DEF d
<1>7. ReaderInv(r, d, local_sv[r])
  BY <1>1, <1>4, <1>5, <1>6 DEF ReaderInv
<1>8. \A m : ~Holding(d, m) /\ (CleaningUp(d, m) <=> m = n /\ IsLast(n))
  BY <1>6 DEF Holding, CleaningUp
<1>9. SameViews /\ \A m \in DOMAIN sv : RefStep(m, r, d, local_sv[r])
  BY <1>1, <1>5, <1>8, ReaderDrops
<1> QED BY <1>1, <1>2, <1>3, <1>6, <1>7, <1>9, ReaderDone

(***************************************************************************)
(* Files found obsolete have been numbered.                                *)
(***************************************************************************)
LEMMA FoundTypes ==
    ASSUME TInv, NEW svs, NEW pending, NEW full
    PROVE  LET live == LiveFiles(current, svs, job)
               obsolete == obsolete_files \cup (LiveFiles(current, sv, job) \ live)
           IN  /\ obsolete \subseteq DOMAIN tables
               /\ FindObsoleteFiles(obsolete, live, pending, full) \subseteq DOMAIN tables
               /\ KeepPending(obsolete, pending) \subseteq DOMAIN tables
<1>1. LiveFiles(current, sv, job) \subseteq DOMAIN tables
  BY LiveType
<1>2. obsolete_files \subseteq DOMAIN tables /\ disk \subseteq DOMAIN tables
  BY Types DEF FileTypes
<1> QED BY <1>1, <1>2 DEF FindObsoleteFiles, KeepPending

(***************************************************************************)
(* CleanupIteratorState after the last reference was dropped.              *)
(***************************************************************************)
LEMMA CleanupIteratorStep ==
    ASSUME SetFacts, TInv, RInv, NEW r \in Reader, CleanupIteratorState(r) PROVE TInv' /\ RInv'
<1> DEFINE n == rd[r].sv
<1>1. PICK svs : svs = sv'
  OBVIOUS
<1> DEFINE live == LiveFiles(current, svs, job)
           obsolete == obsolete_files \cup (LiveFiles(current, sv, job) \ live)
           found == FindObsoleteFiles(obsolete, live, Pending, FALSE)
           d == IF found = {} THEN NewReader ELSE [rd[r] EXCEPT !.pc = "Purge", !.purge = found]
<1>2. /\ rd[r].pc = "IterCleanup" /\ rd' = [rd EXCEPT ![r] = d] /\ sv' = Cleanup(sv, n)
      /\ UNCHANGED <<last_sequence, snapshots, memtables, mem, imm, todo>>
      /\ UNCHANGED <<tables, current, disk>>
      /\ obsolete_files' = KeepPending(obsolete, Pending) /\ grabbed' = grabbed \cup found
      /\ install' = install /\ mutex' = mutex /\ memtables' = memtables /\ tables' = tables
      /\ job' = job /\ local_sv' = local_sv
  BY <1>1 DEF CleanupIteratorState, data
<1>3. found \subseteq DOMAIN tables /\ KeepPending(obsolete, Pending) \subseteq DOMAIN tables
  BY FoundTypes
<1>4. DataTypes' /\ FileTypes'
  <2>1. grabbed \subseteq DOMAIN tables
    BY Types DEF FileTypes
  <2> HIDE DEF found, obsolete
  <2> QED BY <1>2, <1>3, <2>1, SameData
<1>5. local_sv' = [local_sv EXCEPT ![r] = local_sv[r]]
      /\ local_sv[r] \in {kSVObsolete, kSVInUse} \cup DOMAIN sv /\ rd[r] \in ReaderState
  BY <1>2, ReaderFields, Types DEF ThreadTypes
<1>6. ReaderInv(r, rd[r], local_sv[r])
  BY Refs
<1>7. n \in DOMAIN sv /\ CleaningUp(rd[r], n)
  BY <1>2, <1>6 DEF ReaderInv, CleaningUp
<1>8. d \in ReaderState /\ d.purge \subseteq DOMAIN tables /\ d.pc \in {"Idle", "Purge"}
      /\ (d.pc = "Purge" => d.op = rd[r].op)
  <2>1. DOMAIN tables \subseteq Nat
    BY SMT, Types DEF FileTypes
  <2> HIDE DEF found
  <2> QED BY <1>3, <1>5, <2>1, NewReaderType DEF ReaderState
<1> HIDE DEF d
<1>9. ReaderInv(r, d, local_sv[r]) /\ \A m : ~Holding(d, m) /\ ~CleaningUp(d, m)
  BY <1>2, <1>6, <1>8 DEF ReaderInv, Holding, CleaningUp
<1>10. SameViews /\ \A m \in DOMAIN sv : RefStep(m, r, d, local_sv[r])
  BY <1>2, <1>7, <1>9, ReaderCleans
<1> QED BY <1>2, <1>4, <1>5, <1>8, <1>9, <1>10, ReaderDone

(***************************************************************************)
(* A thread that exits drops the reference of its cache, which is never    *)
(* the last: the pointer is that of the newest super version, or the old   *)
(* one while InstallSuperVersion still holds it.                           *)
(***************************************************************************)
LEMMA ThreadExitStep ==
    ASSUME SetFacts, TInv, RInv, NEW r \in Reader, ThreadExit(r) PROVE TInv' /\ RInv'
<1> DEFINE n == local_sv[r]
           d == rd[r]
<1>1. /\ d.pc = "Idle" /\ n > 0 /\ sv' = Unref(n) /\
             local_sv' = [local_sv EXCEPT ![r] = kSVObsolete]
      /\ UNCHANGED <<last_sequence, snapshots, memtables, mem, imm, todo>>
      /\ UNCHANGED <<tables, current, disk>> /\ obsolete_files' = obsolete_files /\
           grabbed' = grabbed
      /\ install' = install /\ mutex' = mutex /\ memtables' = memtables /\ tables' = tables
      /\ job' = job /\ rd' = rd
  BY DEF ThreadExit, data, files
<1>2. DataTypes' /\ FileTypes'
  BY <1>1, SameData, Types DEF FileTypes
<1>3. rd' = [rd EXCEPT ![r] = d] /\ d \in ReaderState /\ d.purge \subseteq DOMAIN tables
      /\ n \in {kSVObsolete, kSVInUse} \cup DOMAIN sv
  BY <1>1, ReaderFields, Types DEF ThreadTypes
<1>4. n \in DOMAIN sv
  BY SMT, <1>1, <1>3 DEF kSVObsolete, kSVInUse
<1>5. ReaderInv(r, d, n)
  BY Refs
<1>6. ReaderInv(r, d, kSVObsolete) /\ Owned(n)
  BY SMTT(30), <1>1, <1>5 DEF ReaderInv, kSVInUse, kSVObsolete, Fresh, Owned
<1>7. /\ sv' \in Seq(SuperVersions) /\ Len(sv') = Len(sv) /\ DOMAIN sv' = DOMAIN sv
      /\ \A m \in DOMAIN sv :
            /\ sv'[m].mem = sv[m].mem /\ sv'[m].imm = sv[m].imm /\ sv'[m].files = sv[m].files
            /\ sv'[m].freed = sv[m].freed
            /\ m # n => sv'[m].refs = sv[m].refs
      /\ sv'[n].refs = sv[n].refs - 1
  <2>1. sv \in Seq(SuperVersions)
    BY Types DEF ViewTypes
  <2> HIDE DEF n
  <2> QED BY SMT, <2>1, <1>1, <1>4, RefEffect
<1>8. SameViews
  BY <1>7 DEF SameViews
<1>9. sv[n].refs \in Nat /\ sv[n].refs >= 2
  BY SMT, <1>4, <1>6, CountFacts
<1>10. ASSUME NEW m \in DOMAIN sv PROVE RefStep(m, r, d, kSVObsolete)
  <2>1. sv[m].refs \in Int /\ m # kSVObsolete /\ Cleaned(m)
    BY ViewFields, Refs DEF kSVObsolete
  <2>2. sv'[m].refs = sv[m].refs + (One(Holding(d, m)) - One(Holding(rd[r], m)))
                                 + (One(kSVObsolete = m) - One(local_sv[r] = m))
    BY SMT, <1>7, <2>1 DEF One
  <2>3. sv'[m].refs = 0 <=> sv[m].refs = 0
    BY SMT, <1>7, <1>9
  <2>4. sv'[m].freed = sv[m].freed
    BY <1>7
  <2> QED BY <2>1, <2>2, <2>3, <2>4 DEF RefStep, Cleaned
<1>11. kSVObsolete \in {kSVObsolete, kSVInUse} \cup DOMAIN sv
  OBVIOUS
<1> QED BY <1>1, <1>2, <1>3, <1>6, <1>8, <1>10, <1>11, ReaderDone

(***************************************************************************)
(* A step that touches no super version.                                   *)
(***************************************************************************)
LEMMA QuietStep ==
    ASSUME TInv, RInv, UNCHANGED <<sv, local_sv, install, rd>>, mutex' = Null => install.old = 0
    PROVE  RInv'
<1>1. InstallInv'
  BY Refs DEF InstallInv, Owned, NoInstall
<1>2. ASSUME NEW r \in Reader PROVE ReaderInv(r, rd[r], local_sv[r])'
  <2>1. ReaderInv(r, rd[r], local_sv[r])
    BY Refs
  <2> QED BY <2>1 DEF ReaderInv, Fresh, kSVInUse, Operation
<1>3. ASSUME NEW n \in DOMAIN sv' PROVE Counted(n)' /\ Cleaned(n)'
  <2>1. n \in DOMAIN sv /\ Counted(n) /\ Cleaned(n)
    BY Refs
  <2> QED BY <2>1 DEF Counted, Cleaned, Owned, CacheOf, ScrapedOf, HoldersOf, Holding, CleaningUp,
                             One
<1> QED BY <1>1, <1>2, <1>3, Refs

(***************************************************************************)
(* StartFlush touches no super version.                                    *)
(***************************************************************************)
LEMMA StartFlushStep == ASSUME TInv, RInv, StartFlush PROVE TInv' /\ RInv'
<1> DEFINE j == [NewJob EXCEPT !.pc = "Write", !.input = imm, !.version = current,
                               !.snapshots = snapshots, !.file = Len(tables) + 1,
                               !.pending = Len(tables) + 1]
<1>1. /\ mutex = Null /\ Len(tables) < todo.maxFiles
      /\ tables' = Append(tables, {}) /\ job' = [job EXCEPT !["flush"] = j]
      /\ UNCHANGED <<last_sequence, snapshots, memtables, mem, imm, todo>>
      /\ UNCHANGED <<current, disk, obsolete_files, grabbed>>
      /\ UNCHANGED <<mutex, sv, local_sv, install, rd>> /\ sv' = sv
  BY DEF StartFlush, data
<1>2. tables \in Seq(SUBSET Nat) /\ todo.maxFiles \in Nat /\ DOMAIN memtables = 1 .. mem
      /\ imm \subseteq DOMAIN memtables /\ current \subseteq DOMAIN tables /\
           snapshots \subseteq Nat
      /\ imm \subseteq Nat /\ current \subseteq Nat
  BY SMT, Types DEF DataTypes, FileTypes, Workload
<1>3. tables' \in Seq(SUBSET Nat) /\ Len(tables') = Len(tables) + 1
      /\ DOMAIN tables' = DOMAIN tables \cup {Len(tables) + 1} /\ Len(tables) + 1 \in Nat
      /\ Len(tables) + 1 # 0 /\ Len(tables') <= todo.maxFiles
  <2>1. {} \in SUBSET Nat
    OBVIOUS
  <2> QED BY SMT, <2>1, <1>1, <1>2
<1>4. j \in JobState /\ j.version = current /\ j.purge = {} /\ j.file = Len(tables) + 1 /\
          j.input = imm
  BY <1>2, <1>3 DEF JobState, NewJob
<1> HIDE DEF j
<1>5. JobTypes'
  <2>1. "flush" \in Job
    BY DEF Job
  <2>2. DOMAIN memtables \subseteq DOMAIN memtables' /\ DOMAIN tables \subseteq DOMAIN tables'
        /\ j.version \subseteq DOMAIN tables' /\ j.purge \subseteq DOMAIN tables'
        /\ j.file \in DOMAIN tables' /\ j.input \subseteq DOMAIN memtables' /\ j.file # 0
    BY <1>1, <1>2, <1>3, <1>4
  <2> QED BY <1>1, <1>4, <2>1, <2>2, JobDone
<1>6. FileTypes'
  BY <1>1, <1>3, Types DEF FileTypes
<1>7. DataTypes' /\ ViewTypes' /\ ThreadTypes'
  BY <1>1, <1>3, Frame
<1>8. RInv'
  <2>1. install.old = 0
    BY <1>1, Refs DEF InstallInv
  <2> QED BY <1>1, <2>1, QuietStep
<1> QED BY <1>5, <1>6, <1>7, <1>8, Types

(***************************************************************************)
(* StartCompaction touches no super version.                               *)
(***************************************************************************)
LEMMA StartCompactionStep == ASSUME TInv, RInv, StartCompaction PROVE TInv' /\ RInv'
<1> DEFINE j == [NewJob EXCEPT !.pc = "Write", !.input = current, !.version = current,
                               !.snapshots = snapshots, !.pending = Len(tables) + 1]
<1>1. /\ mutex = Null /\ job' = [job EXCEPT !["compaction"] = j]
      /\ UNCHANGED <<last_sequence, snapshots, memtables, mem, imm, todo>>
      /\ UNCHANGED <<tables, current, disk, obsolete_files, grabbed, todo>>
      /\ UNCHANGED <<mutex, sv, local_sv, install, rd>> /\ sv' = sv
  BY DEF StartCompaction, data, files
<1>2. tables \in Seq(SUBSET Nat) /\ current \subseteq DOMAIN tables /\ snapshots \subseteq Nat
      /\ current \subseteq Nat /\ Len(tables) + 1 \in Nat
  BY SMT, Types DEF DataTypes, FileTypes
<1>3. j \in JobState /\ j.version = current /\ j.purge = {} /\ j.file = 0 /\ j.input = current
      /\ j.pc = "Write"
  BY <1>2 DEF JobState, NewJob
<1> HIDE DEF j
<1>4. JobTypes'
  <2>1. "compaction" \in Job
    BY DEF Job
  <2>2. DOMAIN memtables \subseteq DOMAIN memtables' /\ DOMAIN tables \subseteq DOMAIN tables'
        /\ j.version \subseteq DOMAIN tables' /\ j.purge \subseteq DOMAIN tables'
        /\ j.input \subseteq DOMAIN tables'
    BY <1>1, <1>2, <1>3
  <2> QED BY <1>1, <1>3, <2>1, <2>2, JobDone
<1>5. DataTypes' /\ FileTypes' /\ ViewTypes' /\ ThreadTypes'
  BY <1>1, Frame
<1>6. RInv'
  <2>1. install.old = 0
    BY <1>1, Refs DEF InstallInv
  <2> QED BY <1>1, <2>1, QuietStep
<1> QED BY <1>4, <1>5, <1>6, Types

(***************************************************************************)
(* WriteTable touches no super version.                                    *)
(***************************************************************************)
LEMMA WriteTableStep == ASSUME TInv, RInv, NEW k \in Job, WriteTable(k) PROVE TInv' /\ RInv'
<1> DEFINE file == IF k = "flush" THEN job[k].file ELSE Len(tables) + 1
           j == [job[k] EXCEPT !.pc = "Commit", !.file = file]
<1>1. /\ job' = [job EXCEPT ![k] = j] /\ disk' = disk \cup {file}
      /\ UNCHANGED <<last_sequence, snapshots, memtables, mem, imm, todo>>
      /\ UNCHANGED <<current, obsolete_files, grabbed>>
      /\ UNCHANGED <<mutex, sv, local_sv, install, rd>> /\ sv' = sv
  BY DEF WriteTable, data
<1>2. /\ file \in Nat /\ file # 0
      /\ tables' \in Seq(SUBSET Nat) /\ DOMAIN tables' = DOMAIN tables \cup {file}
      /\ Len(tables') <= todo.maxFiles
  BY WriteTableFile
<1> HIDE DEF file
<1>3. j \in JobState /\ j.version = job[k].version /\ j.purge = job[k].purge /\ j.file = file
      /\ j.input = job[k].input
  BY <1>2, JobFields DEF JobState
<1> HIDE DEF j
<1>4. JobTypes'
  <2>1. DOMAIN memtables \subseteq DOMAIN memtables' /\ DOMAIN tables \subseteq DOMAIN tables'
        /\ j.version \subseteq DOMAIN tables' /\ j.purge \subseteq DOMAIN tables'
        /\ j.file \in DOMAIN tables' /\ j.file # 0
        /\ (k = "flush" => j.input \subseteq DOMAIN memtables')
        /\ (k = "compaction" => j.input \subseteq DOMAIN tables')
    BY <1>1, <1>2, <1>3, JobFields
  <2> QED BY <1>1, <1>3, <2>1, JobDone
<1>5. FileTypes'
  BY <1>1, <1>2, Types DEF FileTypes
<1>6. DataTypes' /\ ViewTypes' /\ ThreadTypes'
  BY <1>1, <1>2, Frame
<1>7. RInv'
  <2>1. mutex' = Null => install.old = 0
    BY <1>1, Refs DEF InstallInv
  <2> QED BY <1>1, <2>1, QuietStep
<1> QED BY <1>4, <1>5, <1>6, <1>7, Types

(***************************************************************************)
(* Fail touches no super version.                                          *)
(***************************************************************************)
LEMMA FailStep == ASSUME TInv, RInv, NEW k \in Job, Fail(k) PROVE TInv' /\ RInv'
<1> DEFINE j == [job[k] EXCEPT !.pc = "Finish", !.version = {}, !.ok = FALSE]
<1>1. /\ job' = [job EXCEPT ![k] = j] /\ disk' \subseteq disk /\ DropVersions
      /\ todo' = [todo EXCEPT !.maxFailures = @ - 1] /\ todo.maxFailures > 0
      /\ UNCHANGED <<last_sequence, snapshots, memtables, mem, imm>>
      /\ UNCHANGED <<tables, current, grabbed>>
      /\ UNCHANGED <<mutex, sv, local_sv, install, rd>> /\ sv' = sv
  BY DEF Fail, data
<1>2. todo' \in Workload /\ todo'.maxSequence = todo.maxSequence /\ todo'.maxFiles = todo.maxFiles
  <2>1. todo \in Workload /\ todo.maxFailures > 0 /\ todo' = [todo EXCEPT !.maxFailures = @ - 1]
    BY Types DEF DataTypes, Fail
  <2> QED BY SMT, <2>1 DEF Workload
<1>3. j \in JobState
  <2>1. job[k] \in JobState /\ "Finish" \in {"Idle", "Write", "Commit", "Finish", "Purge"}
        /\ {} \in SUBSET Nat /\ FALSE \in BOOLEAN
    BY JobFields
  <2> QED BY <2>1 DEF JobState
<1>4. j.version = {} /\ j.purge = job[k].purge /\ j.file = job[k].file /\ j.pc = "Finish"
      /\ j.input = job[k].input
  BY JobFields DEF JobState
<1> HIDE DEF j
<1>5. JobTypes'
  <2>1. DOMAIN memtables \subseteq DOMAIN memtables' /\ DOMAIN tables \subseteq DOMAIN tables'
        /\ j.version \subseteq DOMAIN tables' /\ j.purge \subseteq DOMAIN tables'
        /\ (j.file = 0 \/ j.file \in DOMAIN tables')
        /\ (k = "flush" => j.input \subseteq DOMAIN memtables')
        /\ (k = "compaction" => j.input \subseteq DOMAIN tables')
    BY <1>1, <1>4, JobFields
  <2> QED BY <1>1, <1>3, <1>4, <2>1, JobDone
<1>6. DataTypes' /\ FileTypes'
  <2>1. obsolete_files' \subseteq DOMAIN tables
    BY <1>1, DropTypes
  <2> QED BY <1>1, <1>2, <2>1, Constants, Types DEF DataTypes, FileTypes
<1>7. ViewTypes' /\ ThreadTypes'
  BY <1>1, Frame
<1>8. RInv'
  <2>1. mutex' = Null => install.old = 0
    BY <1>1, Refs DEF InstallInv
  <2> QED BY <1>1, <2>1, QuietStep
<1> QED BY <1>5, <1>6, <1>7, <1>8, Types

(***************************************************************************)
(* PurgeAfterJob touches no super version.                                 *)
(***************************************************************************)
LEMMA PurgeJobStep == ASSUME TInv, RInv, NEW k \in Job, PurgeAfterJob(k) PROVE TInv' /\ RInv'
<1>1. /\ job' = [job EXCEPT ![k] = NewJob] /\ disk' \subseteq disk /\ grabbed' \subseteq grabbed
      /\ UNCHANGED <<last_sequence, snapshots, memtables, mem, imm, todo>>
      /\ UNCHANGED <<tables, current, obsolete_files>>
      /\ UNCHANGED <<mutex, sv, local_sv, install, rd>> /\ sv' = sv
  BY DEF PurgeAfterJob, Purge, data
<1>2. JobTypes'
  BY <1>1, NewJobType, JobDone
<1>3. FileTypes'
  BY <1>1, Types DEF FileTypes
<1>4. DataTypes' /\ ViewTypes' /\ ThreadTypes'
  BY <1>1, Frame
<1>5. RInv'
  <2>1. mutex' = Null => install.old = 0
    BY <1>1, Refs DEF InstallInv
  <2> QED BY <1>1, <2>1, QuietStep
<1> QED BY <1>2, <1>3, <1>4, <1>5, Types

(***************************************************************************)
(* Finish gives mutex_ back, and there is no install under way.            *)
(***************************************************************************)
LEMMA FinishStep == ASSUME TInv, RInv, NEW k \in Job, Finish(k) PROVE TInv' /\ RInv'
<1> DEFINE live == LiveFiles(current, sv, [job EXCEPT ![k].version = {}])
           obsolete == obsolete_files \cup (LiveFiles(current, sv, job) \ live)
           pending == {job[o].pending : o \in Job \ {k}} \ {0}
           found(full) == FindObsoleteFiles(obsolete, live, pending, full)
           j(full) == IF found(full) = {} THEN NewJob
             ELSE [NewJob EXCEPT !.pc = "Purge", !.purge = found(full)]
<1>1. /\ install = NoInstall /\ mutex' = Null
      /\ obsolete_files' = KeepPending(obsolete, pending)
      /\ grabbed' = grabbed \cup (obsolete \ KeepPending(obsolete, pending))
      /\ UNCHANGED <<last_sequence, snapshots, memtables, mem, imm, todo>>
      /\ UNCHANGED <<tables, current, disk>>
      /\ UNCHANGED <<sv, local_sv, install, rd>> /\ sv' = sv
  BY DEF Finish, data
<1>2. PICK full : job' = [job EXCEPT ![k] = j(full)]
  BY DEF Finish
<1>3. obsolete \subseteq DOMAIN tables /\ found(full) \subseteq DOMAIN tables
      /\ KeepPending(obsolete, pending) \subseteq DOMAIN tables
  <2>1. LiveFiles(current, sv, job) \subseteq DOMAIN tables
    BY LiveType
  <2>2. obsolete_files \subseteq DOMAIN tables /\ disk \subseteq DOMAIN tables
    BY Types DEF FileTypes
  <2>3. obsolete \subseteq DOMAIN tables
    BY <2>1, <2>2
  <2> HIDE DEF obsolete, live, pending
  <2> QED BY <2>2, <2>3 DEF FindObsoleteFiles, KeepPending
<1>4. DOMAIN tables \subseteq Nat
  BY SMT, Types DEF FileTypes
<1> HIDE DEF found, obsolete, pending
<1>5. j(full) \in JobState /\ j(full).version = {} /\ j(full).purge \subseteq DOMAIN tables
      /\ j(full).file = 0 /\ j(full).input = {} /\ j(full).pc \in {"Idle", "Purge"}
  BY <1>3, <1>4, NewJobType DEF JobState
<1>6. JobTypes'
  <2> HIDE DEF j
  <2> QED BY <1>1, <1>2, <1>5, JobDone
<1>7. FileTypes'
  BY <1>1, <1>3, Types DEF FileTypes
<1>8. DataTypes' /\ ViewTypes'
  BY <1>1, Frame
<1>9. ThreadTypes'
  BY <1>1, Constants, Types DEF ThreadTypes
<1>10. RInv'
  BY <1>1, QuietStep DEF NoInstall
<1> QED BY <1>6, <1>7, <1>8, <1>9, <1>10, Types

(***************************************************************************)
(* A reader refers to super versions that exist.                           *)
(***************************************************************************)
LEMMA KnownViews ==
    ASSUME TInv, RInv, NEW r \in Reader, NEW n, Holding(rd[r], n) \/ CleaningUp(rd[r], n)
    PROVE  n = 0 \/ n \in DOMAIN sv
<1>1. ReaderInv(r, rd[r], local_sv[r])
  BY Refs
<1> QED BY <1>1 DEF ReaderInv, Holding, CleaningUp

(***************************************************************************)
(* InstallSuperVersion: the new super version starts with one reference,   *)
(* and the old one becomes install.old, which keeps its reference until    *)
(* UnrefOld. All caches are to be scraped.                                 *)
(***************************************************************************)
LEMMA InstallStep ==
    ASSUME SetFacts, TInv, RInv, TInv', mutex = Null, NEW k \in {"writer"} \cup Job,
           install' = [old |-> Len(sv), todo |-> Reader, scraped |-> {}], mutex' = k,
           UNCHANGED <<local_sv, rd>>, Len(sv') = Len(sv) + 1, \A n \in DOMAIN sv : sv'[n] = sv[n],
           sv'[Len(sv) + 1].refs = 1, ~sv'[Len(sv) + 1].freed
    PROVE  RInv'
<1> DEFINE L == Len(sv)
<1>1. /\ install = NoInstall /\ L \in Nat /\ L # 0 /\ DOMAIN sv = 1 .. L /\ DOMAIN sv' = 1 .. L + 1
      /\ install'.old = L /\ install'.todo = Reader /\ install'.scraped = {} /\ Len(sv') = L + 1
      /\ install.old = 0 /\ install.todo = {} /\ install.scraped = {}
  <2>1. L \in Nat /\ DOMAIN sv = 1 .. L /\ L # 0
    BY SMT, Types DEF ViewTypes
  <2>2. install = NoInstall
    BY Refs DEF InstallInv
  <2>3. DOMAIN sv' = 1 .. L + 1
    BY SMT, Types DEF ViewTypes
  <2> QED BY <2>1, <2>2, <2>3 DEF NoInstall
<1>2. InstallInv'
  <2>1. k # Null
    BY ReaderAssumption
  <2> QED BY SMT, <1>1, <2>1 DEF InstallInv
<1>3. ASSUME NEW r \in Reader PROVE ReaderInv(r, rd[r], local_sv[r])'
  <2>1. ReaderInv(r, rd[r], local_sv[r])
    BY Refs
  <2>2. \A n : Fresh(r, n) => Fresh(r, n)'
    BY <1>1 DEF Fresh
  <2>3. DOMAIN sv \subseteq DOMAIN sv'
    BY SMT, <1>1
  <2> QED BY <2>1, <2>2, <2>3 DEF ReaderInv, kSVInUse, Operation
<1>4. ASSUME NEW n \in DOMAIN sv PROVE Counted(n)' /\ Cleaned(n)'
  <2>1. Counted(n) /\ Cleaned(n) /\ sv'[n] = sv[n]
    BY Refs
  <2>2. Owned(n)' <=> Owned(n)
    BY SMT, <1>1 DEF Owned
  <2>3. CacheOf(n)' = CacheOf(n) /\ ScrapedOf(n)' = ScrapedOf(n) /\ HoldersOf(n)' = HoldersOf(n)
    BY <1>1 DEF CacheOf, ScrapedOf, HoldersOf, Holding
  <2>4. One(Owned(n))' = One(Owned(n))
    BY <2>2 DEF One
  <2>5. Counted(n)'
    BY <2>1, <2>3, <2>4 DEF Counted
  <2>6. Cleaned(n)'
    BY <2>1 DEF Cleaned, CleaningUp
  <2> QED BY <2>5, <2>6
<1>n. PICK N : N = L + 1
  OBVIOUS
<1>5. Counted(N)' /\ Cleaned(N)'
  <2>1. \A r \in Reader : ~Holding(rd[r], N) /\ ~CleaningUp(rd[r], N) /\ local_sv[r] # N
    BY SMT, <1>n, <1>1, KnownViews, ReaderFields DEF kSVObsolete, kSVInUse
  <2>2. Owned(N)'
    BY <1>n, <1>1 DEF Owned
  <2>3. CacheOf(N)' = {} /\ ScrapedOf(N)' = {} /\ HoldersOf(N)' = {}
    BY <1>n, <1>1, <2>1 DEF CacheOf, ScrapedOf, HoldersOf, Holding
  <2>4. One(Owned(N))' = 1
    BY <2>2 DEF One
  <2>5. Counted(N)'
    <3>1. /\ Cardinality(CacheOf(N))' = 0 /\ Cardinality(ScrapedOf(N))' = 0
          /\ Cardinality(HoldersOf(N))' = 0 /\ sv'[N].refs = 1
      BY <1>n, <2>3, EmptyCount
    <3> QED BY SMT, <3>1, <2>4 DEF Counted
  <2>6. Cleaned(N)'
    BY SMT, <1>n, <2>1 DEF Cleaned, CleaningUp
  <2> QED BY <2>5, <2>6
<1>6. \A n \in DOMAIN sv' : Counted(n)' /\ Cleaned(n)'
  <2>1. \A n \in DOMAIN sv' : n \in DOMAIN sv \/ n = N
    BY SMT, <1>n, <1>1
  <2> QED BY <1>4, <1>5, <2>1
<1> QED BY <1>2, <1>3, <1>6, Refs

(***************************************************************************)
(* SwitchMemtable installs a super version.                                *)
(***************************************************************************)
LEMMA SwitchStep == ASSUME SetFacts, TInv, RInv, SwitchMemtable PROVE TInv' /\ RInv'
<1>1. TInv'
  BY SwitchTypes
<1> DEFINE new == [mem |-> mem', imm |-> imm', files |-> current', refs |-> 1, freed |-> FALSE]
<1>2. /\ mutex = Null /\ sv' = Append(sv, new) /\ UNCHANGED <<local_sv, rd>>
      /\ install' = [old |-> Len(sv), todo |-> Reader, scraped |-> {}] /\ mutex' = "writer"
  BY DEF SwitchMemtable, InstallSuperVersion
<1>3. new.refs = 1 /\ ~new.freed
  OBVIOUS
<1> HIDE DEF new
<1>4. sv \in Seq(SuperVersions)
  BY Types DEF ViewTypes
<1>5. Len(sv') = Len(sv) + 1 /\ (\A n \in DOMAIN sv : sv'[n] = sv[n]) /\ sv'[Len(sv) + 1] = new
  BY SMT, <1>2, <1>4
<1> QED BY <1>1, <1>2, <1>3, <1>5, InstallStep

(***************************************************************************)
(* Commit installs a super version.                                        *)
(***************************************************************************)
LEMMA CommitStep == ASSUME SetFacts, TInv, RInv, NEW k \in Job, Commit(k) PROVE TInv' /\ RInv'
<1>1. /\ TInv' /\ Len(sv') = Len(sv) + 1 /\ \A n \in DOMAIN sv : sv'[n] = sv[n]
      /\ sv'[Len(sv) + 1] = [mem |-> mem', imm |-> imm', files |-> current', refs |-> 1,
                             freed |-> FALSE]
  BY CommitTypes
<1>2. /\ mutex = Null /\ UNCHANGED <<local_sv, rd>>
      /\ install' = [old |-> Len(sv), todo |-> Reader, scraped |-> {}] /\ mutex' = k
  BY DEF Commit, InstallSuperVersion
<1>3. sv'[Len(sv) + 1].refs = 1 /\ ~sv'[Len(sv) + 1].freed
  BY SMT, <1>1
<1> QED BY <1>1, <1>2, <1>3, InstallStep

(***************************************************************************)
(* The fields of install.                                                  *)
(***************************************************************************)
LEMMA InstallFields ==
    ASSUME TInv
    PROVE  /\ install \in [old : Nat, todo : SUBSET Reader, scraped : SUBSET (Reader \X Nat)]
           /\ install.old \in Nat /\ install.todo \subseteq Reader
           /\ install.scraped \subseteq Reader \X Nat /\ IsFiniteSet(install.scraped)
BY Types DEF ThreadTypes

(***************************************************************************)
(* The reference of a scraped pointer passes from the cache to install. A  *)
(* thread scraped while it reads keeps its own.                            *)
(***************************************************************************)
LEMMA ScrapeStep == ASSUME SetFacts, TInv, RInv, NEW r \in Reader, Scrape(r) PROVE TInv' /\ RInv'
<1> DEFINE n == local_sv[r]
           S == IF n > 0 THEN install.scraped \cup {<<r, n>>} ELSE install.scraped
<1>1. /\ r \in install.todo /\ install' = [install EXCEPT !.todo = @ \ {r}, !.scraped = S]
      /\ local_sv' = [local_sv EXCEPT ![r] = kSVObsolete]
      /\ UNCHANGED <<last_sequence, snapshots, memtables, mem, imm, todo>>
      /\ UNCHANGED <<tables, current, disk, obsolete_files, grabbed, todo>>
      /\ mutex' = mutex /\ sv' = sv /\ rd' = rd /\ job' = job
  BY DEF Scrape, data, files
<1>2. /\ n \in {kSVObsolete, kSVInUse} \cup DOMAIN sv
      /\ n > 0 <=> n \in DOMAIN sv
      /\ n \in Int
      /\ n > 0 => n \in Nat /\ Owned(n)
  <2>1. ReaderInv(r, rd[r], n)
    BY Refs
  <2> QED BY SMT, <2>1, ReaderFields, ViewFields DEF kSVObsolete, kSVInUse, ReaderInv, Fresh, Owned
<1>3. S \subseteq Reader \X Nat /\ IsFiniteSet(S)
  <2>1. IsFiniteSet(install.scraped \cup {<<r, n>>})
    BY InstallFields, CountAdded
  <2> QED BY SMT, <1>2, <2>1, InstallFields
<1>4. /\ install'.old = install.old /\ install'.todo = install.todo \ {r} /\ install'.scraped = S
      /\ install' \in [old : Nat, todo : SUBSET Reader, scraped : SUBSET (Reader \X Nat)]
  <2> HIDE DEF S
  <2> QED BY <1>1, <1>3, InstallFields
<1>5. /\ local_sv \in [Reader -> {kSVObsolete, kSVInUse} \cup DOMAIN sv]
      /\ local_sv' \in [Reader -> {kSVObsolete, kSVInUse} \cup DOMAIN sv]
      /\ local_sv'[r] = kSVObsolete /\ \A q \in Reader \ {r} : local_sv'[q] = local_sv[q]
  BY <1>1, Types DEF ThreadTypes
<1>6. TInv'
  <2>1. ThreadTypes'
    BY <1>1, <1>3, <1>4, <1>5, Constants, Types DEF ThreadTypes
  <2>2. DataTypes' /\ FileTypes' /\ ViewTypes' /\ JobTypes'
    BY <1>1, Frame
  <2> QED BY <2>1, <2>2, Types
<1>7. InstallInv'
  <2>1. InstallInv /\ install.old # 0
    BY SMT, <1>1, Refs DEF InstallInv, NoInstall
  <2>2. \A p \in S : Owned(p[2]) /\ p[2] # 0 /\ p[1] \notin install.todo \ {r}
    BY SMT, <1>2, <2>1 DEF InstallInv
  <2>3. \A m : Owned(m)' <=> Owned(m)
    BY <1>1, <1>4 DEF Owned
  <2> HIDE DEF S
  <2> QED BY <1>1, <1>4, <2>1, <2>2, <2>3 DEF InstallInv
<1>8. ASSUME NEW q \in Reader PROVE ReaderInv(q, rd[q], local_sv[q])'
  <2>1. ReaderInv(q, rd[q], local_sv[q])
    BY Refs
  <2>2. q # r => \A m : Fresh(q, m)' <=> Fresh(q, m)
    BY <1>1, <1>4 DEF Fresh
  <2>3. CASE q = r
    BY SMT, <2>1, <2>3, <1>1, <1>5 DEF ReaderInv, kSVInUse, kSVObsolete, Operation
  <2>4. CASE q # r
    BY <2>1, <2>2, <2>4, <1>1, <1>5 DEF ReaderInv, kSVInUse, kSVObsolete, Operation
  <2> QED BY <2>3, <2>4
<1>9. ASSUME NEW m \in DOMAIN sv PROVE Counted(m)' /\ Cleaned(m)'
  <2>1. Counted(m) /\ Cleaned(m) /\ m # 0
    BY ViewFields, Refs
  <2>2. One(Owned(m))' = One(Owned(m)) /\ HoldersOf(m)' = HoldersOf(m) /\ sv'[m].refs = sv[m].refs
    BY <1>1, <1>4 DEF One, Owned, HoldersOf, Holding
  <2>3. Cleaned(m)'
    BY <1>1, <2>1 DEF Cleaned, CleaningUp
  <2> DEFINE C == {q \in Reader : local_sv'[q] = m}
             D == {p \in S : p[2] = m}
  <2>4. CacheOf(m)' = C /\ ScrapedOf(m)' = D
    BY <1>4 DEF CacheOf, ScrapedOf
  <2>5. Cardinality(C) + Cardinality(D) = Cardinality(CacheOf(m)) + Cardinality(ScrapedOf(m))
        /\ Cardinality(C) \in Nat /\ Cardinality(D) \in Nat
    <3>1. CASE m # n
      <4>1. C = CacheOf(m)
        BY <1>5, <2>1, <3>1 DEF CacheOf, kSVObsolete
      <4>2. D = ScrapedOf(m)
        BY SMT, <3>1 DEF ScrapedOf
      <4> QED BY <4>1, <4>2, CountFacts
    <3>2. CASE m = n
      <4>1. C \ {r} = CacheOf(m) \ {r} /\ r \notin C /\ r \in CacheOf(m)
        BY <1>5, <2>1, <3>2 DEF CacheOf, kSVObsolete
      <4>2. <<r, m>> \notin install.scraped
        <5>1. \A p \in install.scraped : p[1] \notin install.todo
          BY Refs DEF InstallInv
        <5> QED BY <5>1, <1>1
      <4>3. S = install.scraped \cup {<<r, m>>}
        BY <1>2, <3>2
      <4>4. D \ {<<r, m>>} = ScrapedOf(m) \ {<<r, m>>} /\ <<r, m>> \in D /\
                <<r, m>> \notin ScrapedOf(m)
        <5> HIDE DEF S
        <5> QED BY <4>2, <4>3 DEF ScrapedOf
      <4> HIDE DEF C, D
      <4>5. Cardinality(C) = Cardinality(CacheOf(m)) - 1 /\ Cardinality(C) \in Nat
            /\ Cardinality(CacheOf(m)) \in Nat
        BY SMTT(30), <4>1, CountFacts, Recount DEF One
      <4>6. Cardinality(D) = Cardinality(ScrapedOf(m)) + 1 /\ Cardinality(D) \in Nat
            /\ Cardinality(ScrapedOf(m)) \in Nat
        BY SMTT(30), <4>4, CountFacts, Recount DEF One
      <4> QED BY SMT, <4>5, <4>6
    <3> QED BY <3>1, <3>2
  <2> HIDE DEF C, D
  <2>6. Counted(m)'
    <3>1. Cardinality(CacheOf(m)) \in Nat /\ Cardinality(ScrapedOf(m)) \in Nat
          /\ Cardinality(HoldersOf(m)) \in Nat /\ One(Owned(m)) \in Nat
      BY CountFacts DEF One
    <3> QED BY SMTT(30), <3>1, <2>1, <2>2, <2>4, <2>5 DEF Counted
  <2> QED BY <2>3, <2>6
<1> QED BY <1>1, <1>6, <1>7, <1>8, <1>9, Refs

(***************************************************************************)
(* The references of the scraped pointers are dropped, and the one of      *)
(* install.old is still there.                                             *)
(***************************************************************************)
LEMMA UnrefScrapedStep == ASSUME SetFacts, TInv, RInv, UnrefScraped PROVE TInv' /\ RInv'
<1>1. /\ install.old # 0 /\ install' = [install EXCEPT !.scraped = {}]
      /\ sv' = [n \in DOMAIN sv |-> [sv[n] EXCEPT !.refs = @ - Cardinality(ScrapedOf(n))]]
      /\ UNCHANGED <<last_sequence, snapshots, memtables, mem, imm, todo>>
      /\ UNCHANGED <<tables, current, disk, obsolete_files, grabbed, todo>>
      /\ mutex' = mutex /\ local_sv' = local_sv /\ rd' = rd /\ job' = job
  BY DEF UnrefScraped, ScrapedOf, data, files
<1>2. /\ install'.old = install.old /\ install'.todo = install.todo /\ install'.scraped = {}
      /\ install' \in [old : Nat, todo : SUBSET Reader, scraped : SUBSET (Reader \X Nat)]
      /\ IsFiniteSet(install'.scraped)
  BY <1>1, InstallFields, EmptyCount
<1>3. ASSUME NEW n \in DOMAIN sv
      PROVE  /\ sv'[n] \in SuperVersions /\ sv'[n].mem = sv[n].mem /\ sv'[n].imm = sv[n].imm
             /\ sv'[n].files = sv[n].files /\ sv'[n].freed = sv[n].freed
             /\ sv'[n].refs = sv[n].refs - Cardinality(ScrapedOf(n))
  <2>1. sv[n] \in SuperVersions /\ sv[n].refs - Cardinality(ScrapedOf(n)) \in Int
    BY SMT, ViewFields, CountFacts
  <2>2. sv'[n] = [sv[n] EXCEPT !.refs = sv[n].refs - Cardinality(ScrapedOf(n))]
    BY <1>1
  <2> QED BY <2>1, <2>2 DEF SuperVersions
<1>4. sv' \in Seq(SuperVersions) /\ Len(sv') = Len(sv) /\ DOMAIN sv' = DOMAIN sv
  <2>1. Len(sv) \in Nat /\ DOMAIN sv = 1 .. Len(sv)
    BY SMT, Types DEF ViewTypes
  <2>2. sv' \in [1 .. Len(sv) -> SuperVersions]
    BY <1>1, <1>3, <2>1
  <2> QED BY <2>1, <2>2, FunctionIsSeq
<1>5. SameViews
  BY <1>3, <1>4 DEF SameViews
<1>6. TInv'
  <2>1. ThreadTypes'
    BY <1>1, <1>2, <1>4, Constants, Types DEF ThreadTypes
  <2>2. ViewTypes'
    BY <1>1, <1>5, SameViewTypes
  <2>3. DataTypes' /\ FileTypes' /\ JobTypes'
    BY <1>1, Frame
  <2> QED BY <2>1, <2>2, <2>3, Types
<1>7. InstallInv'
  BY <1>1, <1>2, <1>4, Refs DEF InstallInv
<1>8. ASSUME NEW q \in Reader PROVE ReaderInv(q, rd[q], local_sv[q])'
  <2>1. ReaderInv(q, rd[q], local_sv[q])
    BY Refs
  <2>2. \A m : Fresh(q, m)' <=> Fresh(q, m)
    BY <1>2, <1>4 DEF Fresh
  <2> QED BY <2>1, <2>2, <1>1, <1>4 DEF ReaderInv, kSVInUse, kSVObsolete, Operation
<1>9. ASSUME NEW m \in DOMAIN sv PROVE Counted(m)' /\ Cleaned(m)'
  <2>1. Counted(m) /\ Cleaned(m)
    BY Refs
  <2>2. One(Owned(m))' = One(Owned(m)) /\ HoldersOf(m)' = HoldersOf(m) /\ CacheOf(m)' = CacheOf(m)
        /\ ScrapedOf(m)' = {}
    BY <1>1, <1>2, <1>4 DEF One, Owned, HoldersOf, Holding, CacheOf, ScrapedOf
  <2>3. /\ Cardinality(CacheOf(m)) \in Nat /\ Cardinality(ScrapedOf(m)) \in Nat
        /\ Cardinality(HoldersOf(m)) \in Nat /\ One(Owned(m)) \in Nat /\ Cardinality({}) = 0
    BY CountFacts, EmptyCount DEF One
  <2>4. Counted(m)'
    BY SMTT(30), <1>3, <2>1, <2>2, <2>3 DEF Counted
  <2>5. sv'[m].refs = 0 <=> sv[m].refs = 0
    <3>1. CASE ScrapedOf(m) = {}
      <4>1. Cardinality(ScrapedOf(m)) = 0 /\ sv[m].refs \in Int
        BY <3>1, <2>3, ViewFields
      <4>2. sv'[m].refs = sv[m].refs - Cardinality(ScrapedOf(m))
        BY <1>3
      <4> QED BY SMTT(30), <4>1, <4>2
    <3>2. CASE ScrapedOf(m) # {}
      <4>1. Owned(m)
        BY <3>2, Refs DEF ScrapedOf, InstallInv
      <4>2. sv[m].refs = 1 + Cardinality(CacheOf(m)) + Cardinality(ScrapedOf(m))
                + Cardinality(HoldersOf(m))
        BY <4>1, CountFacts
      <4> QED BY SMTT(30), <4>2, <1>3, <2>3
    <3> QED BY <3>1, <3>2
  <2>6. Cleaned(m)'
    <3>1. sv'[m].freed = sv[m].freed
      BY <1>3
    <3> QED BY <3>1, <1>1, <2>1, <2>5 DEF Cleaned, CleaningUp
  <2> QED BY <2>4, <2>6
<1> QED BY <1>4, <1>6, <1>7, <1>8, <1>9, Refs

(***************************************************************************)
(* InstallSuperVersion drops the last reference it has, when every cache   *)
(* is scraped.                                                             *)
(***************************************************************************)
LEMMA UnrefOldStep == ASSUME SetFacts, TInv, RInv, UnrefOld PROVE TInv' /\ RInv'
<1> DEFINE n == install.old
<1>1. /\ n # 0 /\ install.todo = {} /\ install.scraped = {} /\ install' = NoInstall
      /\ sv' = IF IsLast(n) THEN Cleanup(Unref(n), n) ELSE Unref(n)
      /\ DropVersions /\ mutex' = IF mutex = "writer" THEN Null ELSE mutex
      /\ UNCHANGED <<last_sequence, snapshots, memtables, mem, imm, todo>>
      /\ UNCHANGED <<tables, current, disk>> /\ UNCHANGED <<memtables, tables>>
      /\ grabbed' = grabbed /\ local_sv' = local_sv /\ rd' = rd /\ job' = job
  BY DEF UnrefOld, data
<1>2. /\ install'.old = 0 /\ install'.todo = {} /\ install'.scraped = {}
      /\ install' \in [old : Nat, todo : SUBSET Reader, scraped : SUBSET (Reader \X Nat)]
      /\ IsFiniteSet(install'.scraped)
  BY <1>1, EmptyCount DEF NoInstall
<1>3. n \in DOMAIN sv /\ n < Len(sv) /\ Owned(n)
  <2>1. n \in Nat /\ Len(sv) \in Nat /\ DOMAIN sv = 1 .. Len(sv)
    BY SMT, InstallFields, Types DEF ViewTypes
  <2>2. n < Len(sv)
    BY Refs DEF InstallInv
  <2> QED BY SMT, <1>1, <2>1, <2>2 DEF Owned
<1>4. /\ sv' \in Seq(SuperVersions) /\ Len(sv') = Len(sv) /\ DOMAIN sv' = DOMAIN sv
      /\ \A m \in DOMAIN sv :
            /\ sv'[m].mem = sv[m].mem /\ sv'[m].imm = sv[m].imm /\ sv'[m].files = sv[m].files
            /\ m # n => sv'[m].freed = sv[m].freed /\ sv'[m].refs = sv[m].refs
      /\ sv'[n].refs = sv[n].refs - 1
      /\ IsLast(n) => sv'[n].freed
      /\ ~IsLast(n) => sv'[n].freed = sv[n].freed
  <2>1. sv \in Seq(SuperVersions)
    BY Types DEF ViewTypes
  <2>2. PICK svs : svs = Unref(n)
    OBVIOUS
  <2>3. /\ svs \in Seq(SuperVersions) /\ Len(svs) = Len(sv) /\ DOMAIN svs = DOMAIN sv
        /\ \A m \in DOMAIN sv :
            /\ svs[m].mem = sv[m].mem /\ svs[m].imm = sv[m].imm /\ svs[m].files = sv[m].files
            /\ svs[m].freed = sv[m].freed
            /\ m # n => svs[m].refs = sv[m].refs
        /\ svs[n].refs = sv[n].refs - 1
    BY SMT, <1>3, <2>1, <2>2, RefEffect
  <2>4. CASE ~IsLast(n)
    <3>1. sv' = svs
      BY <1>1, <2>2, <2>4
    <3>2. \A m \in DOMAIN sv :
            /\ sv'[m].mem = sv[m].mem /\ sv'[m].imm = sv[m].imm /\ sv'[m].files = sv[m].files
            /\ m # n => sv'[m].freed = sv[m].freed /\ sv'[m].refs = sv[m].refs
      BY <2>3, <3>1
    <3>3. sv'[n].freed = sv[n].freed /\ sv'[n].refs = sv[n].refs - 1
      BY <1>3, <2>3, <3>1
    <3> QED BY <2>3, <2>4, <3>1, <3>2, <3>3
  <2>5. CASE IsLast(n)
    <3>1. sv' = Cleanup(svs, n)
      BY <1>1, <2>2, <2>5
    <3>2. /\ sv' \in Seq(SuperVersions) /\ Len(sv') = Len(svs) /\ DOMAIN sv' = DOMAIN svs
          /\ \A m \in DOMAIN svs :
            /\ sv'[m].mem = svs[m].mem /\ sv'[m].imm = svs[m].imm /\ sv'[m].files = svs[m].files
            /\ m # n => sv'[m].freed = svs[m].freed
            /\ sv'[m].refs = svs[m].refs
          /\ sv'[n].freed
      <4>1. svs \in Seq(SuperVersions) /\ n \in DOMAIN svs
        BY <1>3, <2>3
      <4>2. CleanedUp(sv', svs, n)
        BY <3>1, <4>1, CleanupEffect
      <4> QED BY SMT, <4>2 DEF CleanedUp
    <3> QED BY <1>3, <2>3, <2>5, <3>2
  <2> QED BY <2>4, <2>5
<1>5. SameViews
  BY <1>4 DEF SameViews
<1>6. TInv'
  <2>1. ThreadTypes'
    BY <1>1, <1>2, <1>4, Constants, Types DEF ThreadTypes
  <2>2. ViewTypes'
    BY <1>1, <1>5, SameViewTypes
  <2>3. DataTypes' /\ FileTypes'
    BY <1>1, DropTypes, SameData, Types DEF FileTypes
  <2>4. JobTypes'
    BY <1>1, Frame
  <2> QED BY <2>1, <2>2, <2>3, <2>4, Types
<1>7. InstallInv'
  <2>1. 0 < Len(sv')
    BY <1>4, InstallFields, Types DEF ViewTypes
  <2> QED BY <1>1, <1>2, <2>1 DEF InstallInv, NoInstall
<1>8. ASSUME NEW q \in Reader PROVE ReaderInv(q, rd[q], local_sv[q])'
  <2>1. ReaderInv(q, rd[q], local_sv[q])
    BY Refs
  <2>2. \A m : Fresh(q, m)' <=> Fresh(q, m)
    BY <1>1, <1>2, <1>4 DEF Fresh
  <2> QED BY <2>1, <2>2, <1>1, <1>4 DEF ReaderInv, kSVInUse, kSVObsolete, Operation
<1>9. ASSUME NEW m \in DOMAIN sv PROVE Counted(m)' /\ Cleaned(m)'
  <2>1. Counted(m) /\ Cleaned(m) /\ m # 0
    BY ViewFields, Refs
  <2>2. HoldersOf(m)' = HoldersOf(m) /\ CacheOf(m)' = CacheOf(m) /\ ScrapedOf(m)' = ScrapedOf(m)
    BY <1>1, <1>2 DEF HoldersOf, Holding, CacheOf, ScrapedOf
  <2>3. /\ Cardinality(CacheOf(m)) \in Nat /\ Cardinality(ScrapedOf(m)) \in Nat
        /\ Cardinality(HoldersOf(m)) \in Nat /\ sv[m].refs \in Nat
    BY CountFacts
  <2>4. CASE m # n
    <3>1. One(Owned(m))' = One(Owned(m)) /\ sv'[m].refs = sv[m].refs /\ sv'[m].freed = sv[m].freed
      BY <1>2, <1>4, <2>1, <2>4 DEF One, Owned
    <3>2. Counted(m)'
      BY <2>1, <2>2, <3>1 DEF Counted
    <3>3. Cleaned(m)'
      BY <1>1, <2>1, <3>1 DEF Cleaned, CleaningUp
    <3> QED BY <3>2, <3>3
  <2>5. CASE m = n
    <3>1. One(Owned(m))' = 0 /\ One(Owned(m)) = 1
      BY SMT, <1>2, <1>3, <1>4, <2>1, <2>5 DEF One, Owned
    <3>2. sv'[m].refs = sv[m].refs - 1
      BY <1>4, <2>5
    <3>3. Counted(m)'
      BY SMTT(30), <2>1, <2>2, <2>3, <3>1, <3>2 DEF Counted
    <3>4. sv[m].refs # 0
      BY SMT, <2>1, <2>3, <3>1 DEF Counted
    <3>5. ~sv[m].freed /\ \A q \in Reader : ~CleaningUp(rd[q], m)
      BY <3>4, CountFacts
    <3>6. sv'[m].freed <=> sv'[m].refs = 0
      BY SMT, <1>4, <2>3, <2>5, <3>2, <3>5 DEF IsLast
    <3>7. Cleaned(m)'
      BY <1>1, <3>5, <3>6 DEF Cleaned, CleaningUp
    <3> QED BY <3>3, <3>7
  <2> QED BY <2>4, <2>5
<1> QED BY <1>4, <1>6, <1>7, <1>8, <1>9, Refs

(***************************************************************************)
(* At the start there is one super version, with one reference.            *)
(***************************************************************************)
LEMMA InitRefs == ASSUME SetFacts, Init PROVE RInv
<1>1. TInv
  BY InitTypes
<1> DEFINE v == [mem |-> 1, imm |-> {}, files |-> {}, refs |-> 1, freed |-> FALSE]
<1>2. sv = <<v>> /\ v.refs = 1 /\ ~v.freed
  BY DEF Init
<1> HIDE DEF v
<1>3. /\ Len(sv) = 1 /\ DOMAIN sv = {1} /\ sv[1].refs = 1 /\ ~sv[1].freed
      /\ install = NoInstall /\ install.old = 0 /\ install.todo = {} /\ install.scraped = {}
      /\ \A r \in Reader : local_sv[r] = 0 /\ rd[r] = NewReader
  BY SMT, <1>2 DEF Init, NoInstall, kSVObsolete
<1>4. InstallInv
  BY SMTT(30), <1>3 DEF InstallInv
<1>5. ASSUME NEW r \in Reader PROVE ReaderInv(r, rd[r], local_sv[r])
  BY SMT, <1>3, NewReaderType DEF ReaderInv, kSVInUse
<1>6. Counted(1)
  <2>1. CacheOf(1) = {} /\ ScrapedOf(1) = {} /\ HoldersOf(1) = {}
    BY SMT, <1>3, NewReaderType DEF CacheOf, ScrapedOf, HoldersOf
  <2>2. One(Owned(1)) = 1
    BY <1>3 DEF One, Owned
  <2>3. Cardinality(CacheOf(1)) = 0 /\ Cardinality(ScrapedOf(1)) = 0 /\
            Cardinality(HoldersOf(1)) = 0
    BY <2>1, EmptyCount
  <2> QED BY SMTT(30), <1>3, <2>2, <2>3 DEF Counted
<1>7. Cleaned(1)
  BY SMT, <1>3, NewReaderType DEF Cleaned
<1> QED BY <1>3, <1>4, <1>5, <1>6, <1>7, Refs

(***************************************************************************)
(* Writes and snapshots touch no super version.                            *)
(***************************************************************************)
LEMMA QuietSteps ==
    ASSUME TInv, RInv, Write \/ GetSnapshot \/ ReleaseSnapshot PROVE TInv' /\ RInv'
<1>1. TInv'
  BY WriteTypes, SnapshotTypes
<1>2. UNCHANGED <<sv, local_sv, install, rd>> /\ mutex' = mutex
  BY DEF Write, GetSnapshot, ReleaseSnapshot
<1>3. mutex' = Null => install.old = 0
  BY <1>2, Refs DEF InstallInv
<1> QED BY <1>1, <1>2, <1>3, QuietStep

(***************************************************************************)
(* Nor does a step in which nothing happens.                               *)
(***************************************************************************)
LEMMA StutterStep == ASSUME TInv, RInv, UNCHANGED vars PROVE TInv' /\ RInv'
<1>1. /\ UNCHANGED <<last_sequence, snapshots, memtables, mem, imm, todo>>
      /\ UNCHANGED <<tables, current, disk, obsolete_files, grabbed, todo>>
      /\ UNCHANGED <<mutex, sv, local_sv, install, rd>> /\ sv' = sv /\ job' = job
  BY DEF vars, data, files
<1>2. TInv'
  BY <1>1, Frame, Types
<1>3. mutex' = Null => install.old = 0
  BY <1>1, Refs DEF InstallInv
<1> QED BY <1>1, <1>2, <1>3, QuietStep

(***************************************************************************)
(* Every step keeps the types and the reference counts.                    *)
(***************************************************************************)
LEMMA RefsNext == ASSUME SetFacts, TInv, RInv, [Next]_vars PROVE TInv' /\ RInv'
<1>1. CASE Write \/ GetSnapshot \/ ReleaseSnapshot
  BY <1>1, QuietSteps
<1>2. CASE SwitchMemtable
  BY <1>2, SwitchStep
<1>3. ASSUME NEW r \in Reader, Scrape(r) PROVE TInv' /\ RInv'
  BY <1>3, ScrapeStep
<1>4. CASE UnrefScraped \/ UnrefOld
  BY <1>4, UnrefScrapedStep, UnrefOldStep
<1>5. ASSUME NEW r \in Reader,
             \/ NewIterator(r) \/ Get(r) \/ SwapForIterator(r) \/ CheckVersionNumber(r)
             \/ Acquire(r) \/ GetImpl(r) \/ ReturnFromGet(r) \/ ReturnFromNewIterator(r)
      PROVE  TInv' /\ RInv'
  BY <1>5, NewIteratorStep, GetStep, SwapForIteratorStep, CheckStep, AcquireStep, GetImplStep,
     ReturnGetStep, ReturnIteratorStep
<1>6. ASSUME NEW r \in Reader,
             \/ MultiGet(r) \/ EndMultiGet(r) \/ CleanupSuperVersion(r) \/ UnrefIterator(r)
             \/ CleanupIteratorState(r) \/ PurgeAfterIterator(r) \/ ThreadExit(r)
      PROVE  TInv' /\ RInv'
  BY <1>6, MultiGetStep, EndMultiGetStep, CleanupStep, UnrefIteratorStep, CleanupIteratorStep,
     PurgeIteratorStep, ThreadExitStep
<1>7. CASE StartFlush \/ StartCompaction
  BY <1>7, StartFlushStep, StartCompactionStep
<1>8. ASSUME NEW k \in Job, WriteTable(k) \/ Commit(k) \/ Fail(k) \/ Finish(k) \/ PurgeAfterJob(k)
      PROVE  TInv' /\ RInv'
  BY <1>8, WriteTableStep, CommitStep, FailStep, FinishStep, PurgeJobStep
<1>9. CASE UNCHANGED vars
  BY <1>9, StutterStep
<1> QED BY <1>1, <1>2, <1>3, <1>4, <1>5, <1>6, <1>7, <1>8, <1>9 DEF Next

(***************************************************************************)
(* TypeOK follows from the invariant.                                      *)
(***************************************************************************)
LEMMA TypesHold == ASSUME SetFacts, TInv, RInv PROVE TypeOK
<1>1. \A n \in DOMAIN sv : sv[n].refs \in Nat
  BY CountFacts
<1>2. todo \in Workload /\ todo.maxSequence \in Nat /\ last_sequence \in 0 .. todo.maxSequence
      /\ snapshots \subseteq 0 .. todo.maxSequence
      /\ mem = Len(memtables) /\ imm \subseteq 1 .. (mem - 1)
  <2>1. todo \in Workload
    BY Types DEF DataTypes
  <2>2. todo.maxSequence \in Nat
    BY <2>1 DEF Workload
  <2> QED BY SMT, <2>1, <2>2, Types DEF DataTypes
<1>3. Len(tables) <= todo.maxFiles
      /\ current \cup disk \cup obsolete_files \cup grabbed \subseteq DOMAIN tables
  BY Types DEF FileTypes
<1>4. mutex \in {Null, "writer"} \cup Job
      /\ local_sv \in [Reader -> {kSVObsolete, kSVInUse} \cup DOMAIN sv]
  BY Types DEF ThreadTypes
<1> QED BY <1>1, <1>2, <1>3, <1>4 DEF TypeOK

(***************************************************************************)
(* RefsCountHolders follows from the invariant.                            *)
(***************************************************************************)
LEMMA RefsHold == ASSUME SetFacts, TInv, RInv PROVE RefsCountHolders
<1> SUFFICES ASSUME NEW n \in DOMAIN sv
             PROVE  LET owner == IF n \in {Len(sv), install.old} THEN 1 ELSE 0
                        cleaners == {r \in Reader : Cleaning(r, n)}
                    IN  /\ sv[n].refs = owner + Cached(n)
                             + Cardinality({r \in Reader : Holds(r, n)})
                        /\ Cardinality(cleaners) <= 1
                        /\ sv[n].freed <=> (sv[n].refs = 0 /\ cleaners = {})
  BY DEF RefsCountHolders
<1> DEFINE owner == IF n \in {Len(sv), install.old} THEN 1 ELSE 0
           cleaners == {r \in Reader : Cleaning(r, n)}
           holders == {r \in Reader : Holds(r, n)}
<1>1. Counted(n) /\ Cleaned(n)
  BY Refs
<1>2. holders = HoldersOf(n)
  BY DEF Holds, HoldersOf, Holding
<1>3. Cached(n) = Cardinality(CacheOf(n)) + Cardinality(ScrapedOf(n))
  BY DEF Cached, CacheOf, ScrapedOf
<1>4. sv[n].refs = owner + Cached(n) + Cardinality(holders)
  <2>3. Cardinality(CacheOf(n)) \in Nat /\ Cardinality(ScrapedOf(n)) \in Nat
        /\ Cardinality(HoldersOf(n)) \in Nat
    BY CountFacts
  <2>1. CASE Owned(n)
    <3>1. owner = 1
      BY <2>1 DEF Owned
    <3>2. sv[n].refs = 1 + Cardinality(CacheOf(n)) + Cardinality(ScrapedOf(n))
              + Cardinality(HoldersOf(n))
      BY <2>1, CountFacts
    <3> HIDE DEF owner, holders
    <3> QED BY SMTT(30), <3>1, <3>2, <1>2, <1>3, <2>3
  <2>2. CASE ~Owned(n)
    <3>1. owner = 0
      BY <2>2 DEF Owned
    <3>2. sv[n].refs = Cardinality(CacheOf(n)) + Cardinality(ScrapedOf(n))
              + Cardinality(HoldersOf(n))
      BY <2>2, CountFacts
    <3> HIDE DEF owner, holders
    <3> QED BY SMT, <3>1, <3>2, <1>2, <1>3, <2>3
  <2> QED BY <2>1, <2>2
<1>5. cleaners = {r \in Reader : CleaningUp(rd[r], n)}
  BY DEF Cleaning, CleaningUp
<1>6. Cardinality(cleaners) <= 1
  <2>1. CASE cleaners = {}
    BY SMT, <2>1, EmptyCount
  <2>2. CASE cleaners # {}
    <3>1. PICK r \in cleaners : TRUE
      BY <2>2
    <3>2. cleaners = {r}
      BY <1>1, <1>5, <3>1 DEF Cleaned
    <3> HIDE DEF cleaners
    <3> QED BY SMTT(30), <3>2, SingletonCount
  <2> QED BY <2>1, <2>2
<1>7. sv[n].freed <=> (sv[n].refs = 0 /\ cleaners = {})
  BY <1>1, <1>5 DEF Cleaned
<1> QED BY <1>4, <1>6, <1>7

(***************************************************************************)
(* LocalNeverLast follows from the invariant: a pointer in a cache is that *)
(* of a super version with a reference of its own.                         *)
(***************************************************************************)
LEMMA CachesHold == ASSUME SetFacts, TInv, RInv PROVE LocalNeverLast
<1> SUFFICES ASSUME NEW n \in DOMAIN sv, Cached(n) > 0 PROVE sv[n].refs > Cached(n)
  BY DEF LocalNeverLast
<1>1. Cached(n) = Cardinality(CacheOf(n)) + Cardinality(ScrapedOf(n))
  BY DEF Cached, CacheOf, ScrapedOf
<1>2. Cardinality(CacheOf(n)) \in Nat /\ Cardinality(ScrapedOf(n)) \in Nat
      /\ Cardinality(HoldersOf(n)) \in Nat
  BY CountFacts
<1>3. CacheOf(n) # {} \/ ScrapedOf(n) # {}
  <2> SUFFICES ASSUME CacheOf(n) = {}, ScrapedOf(n) = {} PROVE FALSE
    OBVIOUS
  <2>1. Cached(n) = 0 + 0
    BY <1>1, EmptyCount
  <2> QED BY SMT, <2>1
<1>4. Owned(n)
  <2>1. CASE CacheOf(n) # {}
    <3>1. PICK r \in Reader : local_sv[r] = n
      BY <2>1 DEF CacheOf
    <3>2. ReaderInv(r, rd[r], n) /\ n > 0
      BY SMT, <3>1, ViewFields, Refs
    <3> QED BY <3>2 DEF ReaderInv, Fresh, Owned
  <2>2. CASE ScrapedOf(n) # {}
    BY <2>2, Refs DEF ScrapedOf, InstallInv
  <2> QED BY <1>3, <2>1, <2>2
<1>5. sv[n].refs = 1 + Cardinality(CacheOf(n)) + Cardinality(ScrapedOf(n))
          + Cardinality(HoldersOf(n))
  BY <1>4, CountFacts
<1> QED BY SMT, <1>1, <1>2, <1>5

(***************************************************************************)
(* A super version that a reader holds is not deleted.                     *)
(***************************************************************************)
LEMMA NotFreed == ASSUME SetFacts, TInv, RInv, NEW r \in Reader, NEW n \in DOMAIN sv,
  Holds(r, n) PROVE ~sv[n].freed
<1>1. Holding(rd[r], n)
  BY DEF Holds, Holding
<1> QED BY SMT, <1>1, CountFacts
============================================================================
