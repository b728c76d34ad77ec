------------------------ MODULE SuperVersionProofs -------------------------
(***************************************************************************)
(* What the runs of MCSuperVersion check for small workloads, for every    *)
(* set of readers and every workload.                                      *)
(*                                                                         *)
(* TInv and RInv are inductive together; FInv is relative to them, and     *)
(* VInv to all three. The steps are in SuperVersionRefProofs and           *)
(* SuperVersionDataProofs.                                                 *)
(***************************************************************************)
EXTENDS SuperVersionRefProofs, SuperVersionDataProofs, FiniteSetTheorems

\* Most leaves are for Zenon; those that need arithmetic or sequences name SMT.
USE Zenon

(***************************************************************************)
(* Every nonempty set of natural numbers has a least element.              *)
(***************************************************************************)
LEMMA NatHasLeast ==
    ASSUME NEW S, S \subseteq Nat, S # {}
    PROVE  \E x \in S : \A y \in S : x <= y
<1>1. PICK x \in S : \A y \in S : ~(<<y, x>> \in OpToRel(<, Nat))
  BY NatLessThanWellFounded, WFMin
<1>2. ASSUME NEW y \in S PROVE x <= y
  <2>1. ~(<<y, x>> \in OpToRel(<, Nat))
    BY <1>1
  <2>2. ~(y < x)
    BY SMTT(30), <2>1 DEF OpToRel
  <2> QED BY SMTT(30), <2>2
<1> QED BY <1>2

(***************************************************************************)
(* SetFacts is a theorem.                                                  *)
(***************************************************************************)
LEMMA SetFactsHold == SetFacts
<1>1. ASSUME NEW S \in SUBSET Nat, NEW b \in Nat, S # {}, \A x \in S : x <= b
      PROVE  \E x \in S : \A y \in S : y <= x
  <2> DEFINE T == {b - x : x \in S}
  <2>1. T \subseteq Nat /\ T # {}
    <3>1. \A x \in S : b - x \in Nat
      BY SMTT(30), <1>1
    <3>2. T # {}
      BY <1>1
    <3> QED BY <3>1, <3>2
  <2>2. PICK t \in T : \A u \in T : t <= u
    <3> HIDE DEF T
    <3> QED BY <2>1, NatHasLeast
  <2>3. PICK x \in S : t = b - x
    BY SMT
  <2>4. ASSUME NEW y \in S PROVE y <= x
    <3>1. b - y \in T
      BY SMT
    <3>2. b - x <= b - y
      BY <2>2, <2>3, <3>1
    <3> HIDE DEF T
    <3> QED BY SMTT(30), <3>2
  <2> QED BY <2>4
<1>2. \A S : IsFiniteSet(S) => Cardinality(S) \in Nat /\ (Cardinality(S) = 0 <=> S = {})
  BY FS_CardinalityType, FS_EmptySet
<1>3. \A S : IsFiniteSet(S) => \A T \in SUBSET S : IsFiniteSet(T)
  BY FS_Subset
<1>4. \A S, x : IsFiniteSet(S) =>
          /\ IsFiniteSet(S \cup {x})
          /\ Cardinality(S \cup {x}) = IF x \in S THEN Cardinality(S) ELSE Cardinality(S) + 1
          /\ IsFiniteSet(S \ {x})
          /\ Cardinality(S \ {x}) = IF x \in S THEN Cardinality(S) - 1 ELSE Cardinality(S)
  BY FS_AddElement, FS_RemoveElement
<1> QED BY <1>1, <1>2, <1>3, <1>4, FS_EmptySet DEF SetFacts

----------------------------------------------------------------------------
(***************************************************************************)
(* The types and the reference counts are inductive, for any set of        *)
(* readers and any workload.                                               *)
(***************************************************************************)
THEOREM RefsInvariant == Spec => [](TInv /\ RInv)
<1>1. Init => TInv /\ RInv
  BY SMTT(30), SetFactsHold, InitTypes, InitRefs
<1>2. TInv /\ RInv /\ [Next]_vars => (TInv /\ RInv)'
  BY SMTT(30), SetFactsHold, RefsNext
<1> QED BY <1>1, <1>2, PTL DEF Spec

(***************************************************************************)
(* The state of column families, readers and jobs is well formed.          *)
(***************************************************************************)
THEOREM TypesCorrect == Spec => []TypeOK
<1>1. TInv /\ RInv => TypeOK
  BY SMTT(30), SetFactsHold, TypesHold
<1> QED BY <1>1, RefsInvariant, PTL

(***************************************************************************)
(* The reference count of a super version is at all times the number of    *)
(* those who hold it, and it is deleted once, by whoever dropped the last  *)
(* reference, and not before. TLC checks this for two readers with given   *)
(* calls; it holds for any number of readers and calls.                    *)
(***************************************************************************)
THEOREM RefsCorrect == Spec => []RefsCountHolders
<1>1. TInv /\ RInv => RefsCountHolders
  BY SMT, SetFactsHold, RefsHold
<1> QED BY <1>1, RefsInvariant, PTL

(***************************************************************************)
(* A cached pointer never is the last reference, which is what allows      *)
(* SuperVersionUnrefHandle and ResetThreadLocalSuperVersions to assert     *)
(* that they drop no last one.                                             *)
(***************************************************************************)
THEOREM CachesNeverLast == Spec => []LocalNeverLast
<1>1. TInv /\ RInv => LocalNeverLast
  BY SMT, SetFactsHold, CachesHold
<1> QED BY <1>1, RefsInvariant, PTL

(***************************************************************************)
(* In every state each live file is on disk and not to be deleted, and the *)
(* output of a job is neither live nor to be deleted.                      *)
(***************************************************************************)
THEOREM FilesInvariant == Spec => []FInv
<1>1. Init => FInv
  BY SMTT(30), InitFiles
<1>2. (TInv /\ RInv) /\ (TInv /\ RInv)' /\ FInv /\ [Next]_vars => FInv'
  BY SMTT(30), FilesNext
<1> QED BY <1>1, <1>2, RefsInvariant, PTL DEF Spec

(***************************************************************************)
(* Nothing is deleted under a user, for any number of readers, snapshots,  *)
(* flushes and compactions that fail or not: a super version a reader      *)
(* holds is not freed, and every file of a Version in use, and the         *)
(* finished output of a job, is on disk.                                   *)
(***************************************************************************)
THEOREM NothingFreed == Spec => []NothingFreedInUse
<1>1. (TInv /\ RInv) /\ FInv => NothingFreedInUse
  BY SMTT(30), SetFactsHold, NotFreed, FilesHold
<1> QED BY <1>1, RefsInvariant, FilesInvariant, PTL

(***************************************************************************)
(* In every state the newest super version has all that a read may look    *)
(* for, and every reader and job keeps what it needs of it.                *)
(***************************************************************************)
THEOREM ViewsInvariant == Spec => []VInv
<1>1. Init => VInv
  BY SMT, InitViews
<1>2. TInv /\ RInv /\ FInv /\ VInv /\ TInv' /\ [Next]_vars => VInv'
  BY SMTT(30), SetFactsHold, ViewsNext
<1> QED BY <1>1, <1>2, RefsInvariant, FilesInvariant, PTL DEF Spec

(***************************************************************************)
(* A read with a snapshot finds what was newest when the snapshot was      *)
(* taken, and a Get or MultiGet without one at least what had been written *)
(* when it began, whatever memtables are switched, flushed and compacted   *)
(* meanwhile, for any number of readers, writes, snapshots and files.      *)
(***************************************************************************)
THEOREM ReadsSound == Spec => []ReadsCorrect
<1>1. VInv => ReadsCorrect
  BY SMTT(30), ViewsHold
<1> QED BY <1>1, ViewsInvariant, PTL
============================================================================
