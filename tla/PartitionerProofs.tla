------------------------- MODULE PartitionerProofs -------------------------
(***************************************************************************)
(* What the runs of MCPartitioner check for k = 2 and small counts, for    *)
(* every k, every set of reports and any cuts, with one to three           *)
(* instances.                                                              *)
(***************************************************************************)
EXTENDS Partitioner, FiniteSetTheorems, TLAPS

(***************************************************************************)
(* Every nonempty set of natural numbers has a least element, which Min    *)
(* chooses.                                                                *)
(***************************************************************************)
LEMMA MinProperty ==
    ASSUME NEW S, S \subseteq Nat, S # {}
    PROVE  Min(S) \in S /\ \A y \in S : Min(S) <= y
<1>1. \E x \in S : \A y \in S : ~(<<y, x>> \in OpToRel(<, Nat))
  BY NatLessThanWellFounded, WFMin, Zenon
<1>2. PICK x \in S : \A y \in S : ~(<<y, x>> \in OpToRel(<, Nat))
  BY Zenon, <1>1
<1>3. \A y \in S : x <= y
  <2> SUFFICES ASSUME NEW y \in S PROVE x <= y
    OBVIOUS
  <2>1. ~(<<y, x>> \in OpToRel(<, Nat))
    BY Zenon, <1>2
  <2>2. ~(y < x)
    BY <2>1 DEF OpToRel
  <2> QED BY <2>2
<1> QED BY Zenon, <1>3 DEF Min

(***************************************************************************)
(* The search loop of repartition picks one of the instances: one with the *)
(* largest next count, or instance 0 if none qualifies.                    *)
(***************************************************************************)
LEMMA MaxIProperty ==
    ASSUME TypeOK, Len(merged) < K * Num,
           \A i \in Instance : curs[i] <= Len(merged)
    PROVE  /\ MaxI \in Instance
           /\ Candidates = {} => MaxI = 0
           /\ Candidates # {} =>
                 /\ MaxI \in Candidates
                 /\ \A j \in Candidates : NextEntry(j).count <= NextEntry(MaxI).count
<1>1. CASE Candidates = {}
  BY <1>1, NumAssumption DEF MaxI, Instance
<1>2. CASE Candidates # {}
  <2> DEFINE largest == {i \in Candidates :
                 \A j \in Candidates : NextEntry(j).count <= NextEntry(i).count}
  <2>1. Candidates \subseteq Instance /\ Instance \subseteq {0, 1, 2}
    BY NumAssumption DEF Candidates, Instance
  <2>2. \A i \in Candidates : NextEntry(i).count \in Nat
    <3> SUFFICES ASSUME NEW i \in Candidates PROVE NextEntry(i).count \in Nat
      OBVIOUS
    <3>1. i \in Instance /\ curs[i] \in Nat /\ curs[i] < K
      BY DEF Candidates, TypeOK
    <3>2. curs[i] \in Index
      BY <3>1, KAssumption DEF Index
    <3> QED BY <3>1, <3>2 DEF NextEntry, TypeOK, Entry
  <2>3. largest # {}
    <3> DEFINE c == [i \in {0, 1, 2} |-> IF i \in Candidates THEN NextEntry(i).count
                                                             ELSE -1]
    <3>1. \A i \in {0, 1, 2} :
             /\ c[i] \in Int
             /\ i \in Candidates => c[i] = NextEntry(i).count /\ c[i] >= 0
             /\ i \notin Candidates => c[i] = -1
      BY <2>2
    <3>2. PICK i \in {0, 1, 2} : \A j \in {0, 1, 2} : c[j] <= c[i]
      <4> HIDE DEF c
      <4>1. c[0] \in Int /\ c[1] \in Int /\ c[2] \in Int
        BY <3>1
      <4>2. \/ c[1] <= c[0] /\ c[2] <= c[0] /\ c[0] <= c[0]
            \/ c[0] <= c[1] /\ c[2] <= c[1] /\ c[1] <= c[1]
            \/ c[0] <= c[2] /\ c[1] <= c[2] /\ c[2] <= c[2]
        BY <4>1
      <4> QED BY <4>2
    <3> HIDE DEF c
    <3>3. i \in Candidates
      <4>1. PICK x \in Candidates : x \in {0, 1, 2}
        BY Zenon, <1>2, <2>1
      <4>2. c[x] >= 0 /\ c[x] <= c[i] /\ c[x] \in Int /\ c[i] \in Int
        BY SMTT(30), <4>1, <3>1, <3>2
      <4>3. c[i] # -1
        BY <4>2
      <4> QED BY <4>3, <3>1
    <3>4. \A j \in Candidates : NextEntry(j).count <= NextEntry(i).count
      BY <2>1, <3>1, <3>2, <3>3
    <3> QED BY <3>3, <3>4
  <2>4. Min(largest) \in largest
    <3>1. largest \subseteq Candidates
      OBVIOUS
    <3> HIDE DEF largest
    <3>2. largest \subseteq Nat
      BY <2>1, <3>1
    <3> QED BY Zenon, <2>3, <3>2, MinProperty
  <2> QED BY Zenon, <1>2, <2>1, <2>4 DEF MaxI
<1> QED BY <1>1, <1>2

----------------------------------------------------------------------------

\* Each entry taken from a report is one more of the list.
CursBounded == \A i \in Instance : curs[i] <= Len(merged)

\* No position past the end of the list has been assigned.
TargetsInReach ==
    \A key \in DOMAIN key_to_instance :
        /\ key_to_instance[key] \in 0 .. 2
        /\ \E n \in 0 .. Len(merged) - 1 : key_to_instance[key] = Band(n)

(***************************************************************************)
(* The inductive invariant of the merge loop.  CursBounded keeps every     *)
(* access inside the 3 * k pairs of a report; TargetsInReach ties a target *)
(* to the position that got it.                                            *)
(***************************************************************************)
IInv == TypeOK /\ Len(merged) <= K * Num /\ CursBounded /\ TargetsInReach

(***************************************************************************)
(* The loop starts with an empty list.                                     *)
(***************************************************************************)
LEMMA InitInvariant == Init => IInv
<1> SUFFICES ASSUME Init PROVE IInv
  OBVIOUS
<1>1. TypeOK
  <2>1. topks \in [Instance -> [Index -> Entry]]
    BY ReportAssumption DEF Init
  <2>2. curs \in [Instance -> Nat] /\ merged \in Seq(MergedEntry)
    BY DEF Init
  <2>3. DOMAIN key_to_instance = {}
    BY DEF Init
  <2>4. sent \in BOOLEAN
    BY Zenon DEF Init
  <2> QED BY <2>1, <2>2, <2>3, <2>4 DEF TypeOK
<1>2. Len(merged) = 0 /\ 0 <= K * Num
  BY KAssumption, NumAssumption DEF Init
<1> QED BY <1>1, <1>2 DEF IInv, Init, CursBounded, TargetsInReach

(***************************************************************************)
(* The index the loop reads at is inside the report: at most k * num       *)
(* entries are read in all, which is at most the 3 * k pairs of one        *)
(* report.                                                                 *)
(***************************************************************************)
LEMMA ReadsInBounds ==
    ASSUME IInv, Len(merged) < K * Num
    PROVE  MaxI \in Instance /\ curs[MaxI] \in Index
<1>1. MaxI \in Instance
  BY MaxIProperty DEF IInv, CursBounded
<1>2. curs[MaxI] \in Nat /\ curs[MaxI] <= Len(merged) /\ Len(merged) \in Nat
  BY <1>1 DEF IInv, CursBounded, TypeOK
<1>3. K * Num <= 3 * K /\ K * Num \in Nat
  <2>1. Num = 1 \/ Num = 2 \/ Num = 3
    BY NumAssumption
  <2> QED BY <2>1, KAssumption
<1> QED BY <1>1, <1>2, <1>3, KAssumption DEF Index

\* The cuts of the list are three natural numbers (CutAssumption, by element).
LEMMA CutTypes == Cut[1] \in Nat /\ Cut[2] \in Nat /\ Cut[3] \in Nat
<1>1. \A i \in 1 .. Len(Cut) : Cut[i] \in Nat
  <2>1. Cut \in Seq(Nat)
    BY CutAssumption
  <2> QED BY <2>1
<1>2. Len(Cut) = 3
  BY CutAssumption
<1>3. 1 \in 1 .. 3 /\ 2 \in 1 .. 3 /\ 3 \in 1 .. 3
  OBVIOUS
<1> QED BY <1>1, <1>2, <1>3

(***************************************************************************)
(* Positions below the first cut go to instance 0, those below the second  *)
(* to 0 or 1, and every position to 0, 1, 2 or nowhere.                    *)
(***************************************************************************)
LEMMA BandProperty ==
    ASSUME NEW n \in Nat
    PROVE  /\ Band(n) \in 0 .. 3
           /\ n < Cut[1] => Band(n) = 0
           /\ n < Cut[2] => Band(n) \in 0 .. 1
<1>1. Cut[1] \in Nat /\ Cut[2] \in Nat /\ Cut[3] \in Nat
  BY CutTypes
<1>2. Cut[1] <= Cut[2] /\ Cut[2] <= Cut[3]
  BY CutAssumption
<1> QED BY <1>1, <1>2 DEF Band

(***************************************************************************)
(* An iteration of the merge loop preserves the invariant: it moves one    *)
(* cursor by one and makes the list longer by one.                         *)
(***************************************************************************)
LEMMA MergeOneStep ==
    ASSUME IInv, MergeOne
    PROVE  IInv'
<1> DEFINE i == MaxI
           entry == NextEntry(MaxI)
           inst == Band(Len(merged))
<1>1. i \in Instance /\ curs[i] \in Index
  BY ReadsInBounds DEF MergeOne
<1>2. entry \in Entry
  BY <1>1 DEF NextEntry, IInv, TypeOK
<1>3. /\ Len(merged) \in Nat /\ Len(merged) < K * Num
      /\ merged \in Seq(MergedEntry) /\ curs \in [Instance -> Nat]
  BY DEF IInv, TypeOK, MergeOne
<1>4. inst \in 0 .. 3
  BY <1>3, BandProperty
<1>5. /\ merged' = Append(merged, [key |-> entry.key, freq |-> entry.count, inst |-> i])
      /\ curs' = [curs EXCEPT ![i] = @ + 1]
      /\ key_to_instance' = IF inst = 3 THEN key_to_instance
                            ELSE Emplace(key_to_instance, entry.key, inst)
      /\ topks' = topks
  BY DEF MergeOne
<1>6. sent' \in BOOLEAN
  BY Zenon DEF MergeOne, IInv, TypeOK
<1> HIDE DEF i, entry, inst
<1>7. merged' \in Seq(MergedEntry) /\ Len(merged') = Len(merged) + 1
  <2>1. [key |-> entry.key, freq |-> entry.count, inst |-> i] \in MergedEntry
    BY <1>1, <1>2 DEF Entry, MergedEntry
  <2> HIDE DEF MergedEntry
  <2> QED BY <2>1, <1>3, <1>5
<1>8. curs' \in [Instance -> Nat] /\ CursBounded'
  <2>1. \A j \in Instance : curs'[j] = IF j = i THEN curs[j] + 1 ELSE curs[j]
    BY <1>1, <1>3, <1>5
  <2>2. \A j \in Instance : curs[j] <= Len(merged) /\ curs[j] \in Nat
    BY <1>3 DEF IInv, CursBounded
  <2>3. CursBounded'
    BY <2>1, <2>2, <1>3, <1>7 DEF CursBounded, Instance
  <2> QED BY <2>3, <1>1, <1>3, <1>5
<1>9. Len(merged') <= K * Num
  <2>1. K * Num \in Nat
    BY KAssumption, NumAssumption
  <2> QED BY <2>1, <1>3, <1>7
<1>10. /\ DOMAIN key_to_instance' \subseteq Key
       /\ \A key \in DOMAIN key_to_instance' :
             \/ key \in DOMAIN key_to_instance
                /\ key_to_instance'[key] = key_to_instance[key]
             \/ key_to_instance'[key] = inst /\ inst \in 0 .. 2
  <2>1. DOMAIN key_to_instance \subseteq Key /\ entry.key \in Key
    BY <1>2 DEF IInv, TypeOK, Entry
  <2>2. CASE inst = 3
    BY <2>1, <2>2, <1>5
  <2>3. CASE inst # 3
    BY <2>1, <2>3, <1>4, <1>5 DEF Emplace, Assign
  <2> QED BY <2>2, <2>3
<1>11. TargetsInReach'
  <2> SUFFICES ASSUME NEW key \in DOMAIN key_to_instance'
               PROVE  /\ key_to_instance'[key] \in 0 .. 2
                      /\ \E n \in 0 .. Len(merged') - 1 :
                            key_to_instance'[key] = Band(n)
    BY DEF TargetsInReach, Band
  <2>1. CASE /\ key \in DOMAIN key_to_instance
             /\ key_to_instance'[key] = key_to_instance[key]
    <3>1. /\ key_to_instance[key] \in 0 .. 2
          /\ \E n \in 0 .. Len(merged) - 1 : key_to_instance[key] = Band(n)
      BY <2>1 DEF IInv, TargetsInReach
    <3> QED BY <3>1, <2>1, <1>3, <1>7
  <2>2. CASE key_to_instance'[key] = inst /\ inst \in 0 .. 2
    <3>1. Len(merged) \in 0 .. Len(merged') - 1
      BY <1>3, <1>7
    <3> QED BY <3>1, <2>2 DEF inst
  <2> QED BY <2>1, <2>2, <1>10
<1>12. TypeOK'
  <2>1. \A key \in DOMAIN key_to_instance' : key_to_instance'[key] \in Nat
    BY <1>11 DEF TargetsInReach
  <2>2. topks' \in [Instance -> [Index -> Entry]]
    BY <1>5 DEF IInv, TypeOK
  <2> QED BY <2>1, <2>2, <1>6, <1>7, <1>8, <1>10
          DEF TypeOK, Instance, Index, Entry, MergedEntry
<1> QED BY <1>8, <1>9, <1>11, <1>12 DEF IInv

(***************************************************************************)
(* The invariant is inductive.                                             *)
(***************************************************************************)
LEMMA NextInvariant == IInv /\ [Next]_vars => IInv'
<1> SUFFICES ASSUME IInv, [Next]_vars PROVE IInv'
  OBVIOUS
<1>1. CASE MergeOne
  BY <1>1, MergeOneStep
<1>2. CASE Send
  <2>1. sent' \in BOOLEAN
    BY <1>2, Zenon DEF Send
  <2> QED BY <1>2, <2>1 DEF Send, IInv, TypeOK, CursBounded, TargetsInReach, Instance,
                        Index, Entry, MergedEntry, Band
<1>3. CASE UNCHANGED vars
  BY <1>3 DEF vars, IInv, TypeOK, CursBounded, TargetsInReach, Instance, Index,
              Entry, MergedEntry, Band
<1> QED BY <1>1, <1>2, <1>3 DEF Next

(***************************************************************************)
(* Every state of the merge loop satisfies the inductive invariant, for    *)
(* every k, every set of descending reports and any cuts.                  *)
(***************************************************************************)
THEOREM InvariantHolds == Spec => []IInv
<1>1. Init => IInv
  BY InitInvariant
<1>2. IInv /\ [Next]_vars => IInv'
  BY NextInvariant
<1> QED BY <1>1, <1>2, PTL DEF Spec

(***************************************************************************)
(* The merge loop leaves every variable in its type: only keys of reports  *)
(* are reassigned, and the list names existing instances.                  *)
(***************************************************************************)
THEOREM TypesCorrect == Spec => []TypeOK
<1>1. IInv => TypeOK
  BY DEF IInv
<1> QED BY <1>1, InvariantHolds, PTL

(***************************************************************************)
(* With at most three instances, topks[max_i][curs[max_i]] is never read   *)
(* behind the 3 * k pairs run() asks every instance for, even when the     *)
(* loop goes past k entries of instance 0.                                 *)
(***************************************************************************)
THEOREM ReportsNotOverrun == Spec => []InBounds
<1>1. IInv => InBounds
  BY ReadsInBounds DEF InBounds
<1> QED BY <1>1, InvariantHolds, PTL

(***************************************************************************)
(* The bands of repartition name only existing instances if there are      *)
(* three, or if the list ends before the band of a missing one.            *)
(***************************************************************************)
THEOREM TargetsAreInstances == Spec => []TargetsExist
<1>1. IInv => TargetsExist
  <2> SUFFICES ASSUME IInv, Num = 3 \/ K * Num <= Cut[Num],
                      NEW key \in DOMAIN key_to_instance
               PROVE  key_to_instance[key] \in Instance
    BY DEF TargetsExist
  <2>1. key_to_instance[key] \in 0 .. 2
    BY DEF IInv, TargetsInReach
  <2>2. PICK n \in 0 .. Len(merged) - 1 : key_to_instance[key] = Band(n)
    BY DEF IInv, TargetsInReach
  <2>3. n \in Nat /\ n < K * Num /\ K * Num \in Nat
    <3>1. Len(merged) \in Nat /\ Len(merged) <= K * Num
      BY DEF IInv, TypeOK
    <3>2. K * Num \in Nat
      BY KAssumption, NumAssumption
    <3> QED BY <2>2, <3>1, <3>2
  <2>4. CASE Num = 3
    BY <2>1, <2>4 DEF Instance
  <2>5. CASE Num = 1 /\ K * Num <= Cut[1]
    <3>1. n < Cut[1]
      BY <2>3, <2>5, CutTypes
    <3>2. Band(n) = 0
      BY <2>3, <3>1, BandProperty
    <3> QED BY <2>2, <2>5, <3>2 DEF Instance
  <2>6. CASE Num = 2 /\ K * Num <= Cut[2]
    <3>1. n < Cut[2]
      BY <2>3, <2>6, CutTypes
    <3>2. Band(n) \in 0 .. 1
      BY <2>3, <3>1, BandProperty
    <3> QED BY <2>2, <2>6, <3>2 DEF Instance
  <2> QED BY <2>4, <2>5, <2>6, NumAssumption
<1> QED BY <1>1, InvariantHolds, PTL

----------------------------------------------------------------------------

\* The positions of the list that instance i's report filled.
PlacesOf(i) == {m \in DOMAIN merged : merged[m].inst = i}

\* The cursors count the places, so together they count the list.
CursCount ==
    /\ \A i \in Instance : IsFiniteSet(PlacesOf(i)) /\ curs[i] = Cardinality(PlacesOf(i))
    /\ Num = 1 => curs[0] = Len(merged)
    /\ Num = 2 => curs[0] + curs[1] = Len(merged)
    /\ Num = 3 => curs[0] + curs[1] + curs[2] = Len(merged)

\* Instance 0 is taken by default, or past its first k, only when none qualifies.
DefaultIsLast ==
    /\ (\E n \in DOMAIN merged : ~Compared(n)) => Candidates = {}
    /\ (\E i \in Instance : curs[i] > K) => Candidates = {}

\* No instance has anything left with a larger count than an entry of the list.
MergedOutranks ==
    \A n \in DOMAIN merged, i \in Candidates : NextEntry(i).count <= merged[n].freq

\* The first conjunct of ComparedFirst.
ComparedInOrder ==
    \A n, m \in DOMAIN merged : n < m /\ Compared(m) =>
          Compared(n) /\ merged[n].freq >= merged[m].freq

(***************************************************************************)
(* The inductive invariant of the order.  ComparedFirst alone is not       *)
(* inductive: which counts may still come is what MergedOutranks says,     *)
(* that nothing is compared after a default what DefaultIsLast does, and   *)
(* CursCount relates the index of an entry, which is counted in the list,  *)
(* to the cursor it was read at.                                           *)
(***************************************************************************)
MInv ==
    /\ topks \in [Instance -> Report] /\ (sent => Len(merged) = K * Num)
    /\ CursCount /\ DefaultIsLast /\ MergedOutranks /\ ComparedInOrder

(***************************************************************************)
(* The empty list is in order, and no cursor has moved.                    *)
(***************************************************************************)
LEMMA OrderInit == Init => MInv
<1> SUFFICES ASSUME Init PROVE MInv
  OBVIOUS
<1>1. merged = <<>> /\ DOMAIN merged = {} /\ Len(merged) = 0
  BY DEF Init
<1>2. \A i \in Instance : PlacesOf(i) = {} /\ curs[i] = 0
  BY <1>1 DEF PlacesOf, Init
<1>3. CursCount
  <2>1. \A i \in Instance : IsFiniteSet(PlacesOf(i)) /\ curs[i] = Cardinality(PlacesOf(i))
    BY Zenon, <1>2, FS_EmptySet
  <2>2. /\ 0 \in Instance
        /\ Num >= 2 => 1 \in Instance
        /\ Num = 3 => 2 \in Instance
    BY NumAssumption DEF Instance
  <2>3. curs[0] = 0 /\ (Num >= 2 => curs[1] = 0) /\ (Num = 3 => curs[2] = 0)
    BY <1>2, <2>2
  <2> QED BY <1>1, <2>1, <2>3 DEF CursCount
<1>4. DefaultIsLast
  BY <1>1, <1>2, KAssumption DEF DefaultIsLast
<1>5. MergedOutranks /\ ComparedInOrder
  BY <1>1 DEF MergedOutranks, ComparedInOrder
<1>6. topks \in [Instance -> Report] /\ ~sent
  BY DEF Init
<1> QED BY <1>3, <1>4, <1>5, <1>6 DEF MInv

(***************************************************************************)
(* What an iteration of the merge loop does to the list and the cursors:   *)
(* one entry of the report of max_i at the end, and its cursor one         *)
(* further.                                                                *)
(***************************************************************************)
LEMMA Appended ==
    ASSUME IInv, MInv, MergeOne, NEW N, N = Len(merged) + 1
    PROVE  /\ MaxI \in Instance /\ curs[MaxI] \in Nat /\ curs[MaxI] \in Index
           /\ NextEntry(MaxI) \in Entry
           /\ N \in Nat /\ DOMAIN merged = 1 .. N - 1 /\ DOMAIN merged' = 1 .. N
           /\ Len(merged') = N
           /\ \A n \in 1 .. N - 1 : merged'[n] = merged[n] /\ merged[n] \in MergedEntry
           /\ merged'[N] = [key |-> NextEntry(MaxI).key, freq |-> NextEntry(MaxI).count,
                            inst |-> MaxI]
           /\ curs \in [Instance -> Nat] /\ curs' \in [Instance -> Nat]
           /\ curs'[MaxI] = curs[MaxI] + 1
           /\ \A i \in Instance \ {MaxI} : curs'[i] = curs[i]
           /\ topks' = topks /\ sent' = sent
<1> DEFINE e == [key |-> NextEntry(MaxI).key, freq |-> NextEntry(MaxI).count, inst |-> MaxI]
<1>1. MaxI \in Instance /\ curs[MaxI] \in Index
  BY ReadsInBounds DEF MergeOne
<1>2. merged \in Seq(MergedEntry) /\ curs \in [Instance -> Nat] /\ topks \in [Instance -> [Index -> Entry]]
  BY DEF IInv, TypeOK
<1>3. merged' = Append(merged, e) /\ curs' = [curs EXCEPT ![MaxI] = @ + 1] /\ topks' = topks
      /\ sent' = sent
  BY DEF MergeOne
<1>4. NextEntry(MaxI) \in Entry
  BY <1>1, <1>2 DEF NextEntry
<1> HIDE DEF MergedEntry, e
<1>5. /\ N \in Nat /\ DOMAIN merged = 1 .. N - 1 /\ DOMAIN merged' = 1 .. N
      /\ Len(merged') = N
      /\ \A n \in 1 .. N - 1 : merged'[n] = merged[n] /\ merged[n] \in MergedEntry
      /\ merged'[N] = e
  BY <1>2, <1>3
<1>6. /\ curs' \in [Instance -> Nat] /\ curs'[MaxI] = curs[MaxI] + 1
      /\ \A i \in Instance \ {MaxI} : curs'[i] = curs[i]
      /\ curs[MaxI] \in Nat
  BY <1>1, <1>2, <1>3
<1> QED BY <1>1, <1>2, <1>3, <1>4, <1>5, <1>6 DEF e

(***************************************************************************)
(* An iteration adds one place to the instance whose cursor it moves.      *)
(***************************************************************************)
LEMMA CountedStep ==
    ASSUME IInv, MInv, MergeOne
    PROVE  CursCount'
<1> DEFINE L == Len(merged) + 1
<1>1. PICK N : N = L
  OBVIOUS
<1> HIDE DEF L
<1>2. /\ MaxI \in Instance /\ curs[MaxI] \in Nat
      /\ N \in Nat /\ DOMAIN merged = 1 .. N - 1 /\ DOMAIN merged' = 1 .. N
      /\ Len(merged') = N /\ Len(merged) = N - 1
      /\ \A n \in 1 .. N - 1 : merged'[n] = merged[n]
      /\ merged'[N].inst = MaxI
      /\ curs \in [Instance -> Nat] /\ curs'[MaxI] = curs[MaxI] + 1
      /\ \A i \in Instance \ {MaxI} : curs'[i] = curs[i]
  BY <1>1, Appended DEF IInv, TypeOK, L
<1>3. ASSUME NEW i \in Instance
      PROVE  /\ IsFiniteSet({m \in DOMAIN merged' : merged'[m].inst = i})
             /\ curs'[i] = Cardinality({m \in DOMAIN merged' : merged'[m].inst = i})
  <2> DEFINE old == {m \in DOMAIN merged : merged[m].inst = i}
             new == {m \in DOMAIN merged' : merged'[m].inst = i}
  <2>1. IsFiniteSet(old) /\ curs[i] = Cardinality(old)
    BY DEF MInv, CursCount, PlacesOf
  <2>2. N \notin old
    BY <1>2
  <2>3. CASE i = MaxI
    <3>1. new = old \cup {N}
      BY <1>2, <2>3
    <3> HIDE DEF old, new
    <3>2. IsFiniteSet(new) /\ Cardinality(new) = Cardinality(old) + 1
      BY <3>1, <2>1, <2>2, FS_AddElement
    <3> QED BY <3>2, <2>1, <2>3, <1>2 DEF new
  <2>4. CASE i # MaxI
    <3>1. new = old
      BY <1>2, <2>4
    <3> QED BY Zenon, <3>1, <2>1, <2>4, <1>2
  <2> QED BY <2>3, <2>4
<1>4. ASSUME Num = 1 PROVE curs'[0] = N
  <2>1. curs[0] = N - 1 /\ 0 \in Instance /\ MaxI = 0
    BY <1>2, <1>4 DEF MInv, CursCount, Instance
  <2> QED BY <2>1, <1>2
<1>5. ASSUME Num = 2 PROVE curs'[0] + curs'[1] = N
  <2>1. /\ curs[0] + curs[1] = N - 1 /\ 0 \in Instance /\ 1 \in Instance /\ MaxI \in {0, 1}
        /\ curs[0] \in Nat /\ curs[1] \in Nat
    BY <1>2, <1>5 DEF MInv, CursCount, Instance
  <2>2. CASE MaxI = 0
    BY <2>1, <2>2, <1>2
  <2>3. CASE MaxI = 1
    BY <2>1, <2>3, <1>2
  <2> QED BY <2>1, <2>2, <2>3
<1>6. ASSUME Num = 3 PROVE curs'[0] + curs'[1] + curs'[2] = N
  <2>1. /\ curs[0] + curs[1] + curs[2] = N - 1
        /\ 0 \in Instance /\ 1 \in Instance /\ 2 \in Instance /\ MaxI \in {0, 1, 2}
        /\ curs[0] \in Nat /\ curs[1] \in Nat /\ curs[2] \in Nat
    BY <1>2, <1>6 DEF MInv, CursCount, Instance
  <2>2. CASE MaxI = 0
    BY <2>1, <2>2, <1>2
  <2>3. CASE MaxI = 1
    BY <2>1, <2>3, <1>2
  <2>4. CASE MaxI = 2
    BY <2>1, <2>4, <1>2
  <2> QED BY <2>1, <2>2, <2>3, <2>4
<1> QED BY <1>2, <1>3, <1>4, <1>5, <1>6 DEF CursCount, PlacesOf

(***************************************************************************)
(* ExtractTopK returns larger counts first, so further on in a report      *)
(* there is no larger count.                                               *)
(***************************************************************************)
LEMMA Descends ==
    ASSUME MInv, NEW i \in Instance, NEW a \in Index, NEW b \in Index, a <= b
    PROVE  /\ topks[i][a].count \in Nat /\ topks[i][b].count \in Nat
           /\ topks[i][a].count >= topks[i][b].count
<1>1. topks[i] \in Report /\ topks[i] \in [Index -> Entry]
  BY ReportAssumption DEF MInv
<1>2. topks[i][a].count \in Nat /\ topks[i][b].count \in Nat
  BY <1>1 DEF Entry
<1>3. CASE a = b
  BY <1>2, <1>3
<1>4. CASE a # b
  <2>1. a < b
    BY <1>4, KAssumption DEF Index
  <2> QED BY <1>1, <1>2, <2>1, ReportAssumption
<1> QED BY <1>3, <1>4

(***************************************************************************)
(* An instance that does not qualify never qualifies again, and what an    *)
(* instance has next never gets larger: the counts of a report descend.    *)
(***************************************************************************)
LEMMA CandidatesShrink ==
    ASSUME IInv, MInv, MergeOne
    PROVE  /\ Candidates' \subseteq Candidates
           /\ \A i \in Candidates' : NextEntry(i)'.count <= NextEntry(i).count
                                     /\ NextEntry(i)'.count \in Nat /\ NextEntry(i).count \in Nat
<1>1. PICK N : N = Len(merged) + 1
  OBVIOUS
<1>2. /\ MaxI \in Instance /\ curs \in [Instance -> Nat] /\ curs' \in [Instance -> Nat]
      /\ curs'[MaxI] = curs[MaxI] + 1
      /\ \A i \in Instance \ {MaxI} : curs'[i] = curs[i]
      /\ topks' = topks
  BY <1>1, Appended
<1>3. ASSUME NEW i \in Candidates'
      PROVE  /\ i \in Candidates
             /\ NextEntry(i)'.count <= NextEntry(i).count
             /\ NextEntry(i)'.count \in Nat /\ NextEntry(i).count \in Nat
  <2>1. i \in Instance /\ curs'[i] < K /\ topks[i][curs'[i]].count > 0
    BY <1>2 DEF Candidates, NextEntry
  <2>2. curs[i] \in Nat /\ curs'[i] \in Nat /\ curs[i] <= curs'[i] /\ curs[i] < K
    BY <1>2, <2>1, KAssumption
  <2>3. curs[i] \in Index /\ curs'[i] \in Index
    BY <2>1, <2>2, KAssumption DEF Index
  <2>4. /\ topks[i][curs[i]].count \in Nat /\ topks[i][curs'[i]].count \in Nat
        /\ topks[i][curs[i]].count >= topks[i][curs'[i]].count
    BY <2>1, <2>2, <2>3, Descends
  <2>5. NextEntry(i) = topks[i][curs[i]] /\ NextEntry(i)' = topks[i][curs'[i]]
    BY <1>2 DEF NextEntry
  <2>6. topks[i][curs[i]].count > 0
    BY <2>1, <2>4
  <2> QED BY <2>1, <2>2, <2>4, <2>5, <2>6 DEF Candidates
<1> QED BY <1>3

(***************************************************************************)
(* An iteration keeps the list in order. If some instance qualifies, the   *)
(* entry appended has the largest next count and is at most every count    *)
(* before it. If none does, instance 0 is appended by default, and none    *)
(* will qualify later.                                                     *)
(***************************************************************************)
LEMMA OrderStep ==
    ASSUME IInv, MInv, MergeOne
    PROVE  DefaultIsLast' /\ MergedOutranks' /\ ComparedInOrder'
<1>1. PICK N : N = Len(merged) + 1
  OBVIOUS
<1> DEFINE e == NextEntry(MaxI)
<1>2. /\ MaxI \in Instance /\ curs[MaxI] \in Nat /\ curs[MaxI] \in Index /\ e \in Entry
      /\ N \in Nat /\ DOMAIN merged = 1 .. N - 1 /\ DOMAIN merged' = 1 .. N
      /\ \A n \in 1 .. N - 1 : merged'[n] = merged[n] /\ merged[n] \in MergedEntry
      /\ merged'[N].freq = e.count /\ merged'[N].inst = MaxI
      /\ curs \in [Instance -> Nat] /\ curs' \in [Instance -> Nat]
      /\ curs'[MaxI] = curs[MaxI] + 1
      /\ \A i \in Instance \ {MaxI} : curs'[i] = curs[i]
  BY <1>1, Appended
<1>3. e.count \in Nat /\ \A n \in 1 .. N - 1 : merged[n].freq \in Nat
  BY <1>2 DEF Entry, MergedEntry
<1>4. \A n \in 1 .. N - 1 : Compared(n)' <=> Compared(n)
  <2> SUFFICES ASSUME NEW n \in 1 .. N - 1 PROVE Compared(n)' <=> Compared(n)
    OBVIOUS
  <2>1. \A m \in 1 .. n : m \in 1 .. N - 1 /\ merged'[m] = merged[m]
    BY <1>2
  <2>2. n \in 1 .. n /\ \A m \in 1 .. n - 1 : m \in 1 .. n
    BY <1>2
  <2>3. {m \in 1 .. n - 1 : merged'[m].inst = merged'[n].inst}
           = {m \in 1 .. n - 1 : merged[m].inst = merged[n].inst}
    BY <2>1, <2>2
  <2> QED BY Zenon, <2>1, <2>2, <2>3 DEF Compared, IndexOf
<1>5. Compared(N)' <=> (curs[MaxI] < K /\ e.count > 0)
  <2>1. \A m \in 1 .. N - 1 : merged'[m] = merged[m]
    BY <1>2
  <2>2. {m \in 1 .. N - 1 : merged'[m].inst = merged'[N].inst} = PlacesOf(MaxI)
    BY <1>2 DEF PlacesOf
  <2>3. curs[MaxI] = Cardinality(PlacesOf(MaxI))
    BY <1>2 DEF MInv, CursCount
  <2> QED BY Zenon, <2>2, <2>3, <1>2 DEF Compared, IndexOf
<1>6. /\ Candidates' \subseteq Candidates
      /\ \A i \in Candidates' : NextEntry(i)'.count <= NextEntry(i).count
                                /\ NextEntry(i)'.count \in Nat /\ NextEntry(i).count \in Nat
  BY CandidatesShrink
<1>7. /\ Candidates = {} => MaxI = 0
      /\ Candidates # {} => /\ MaxI \in Candidates
                            /\ \A j \in Candidates : NextEntry(j).count <= e.count
  BY MaxIProperty DEF IInv, CursBounded, MergeOne
<1>8. CASE Candidates = {}
  <2>1. ~(curs[MaxI] < K /\ e.count > 0)
    BY <1>2, <1>8 DEF Candidates
  <2>2. Candidates' = {}
    BY <1>6, <1>8
  <2>3. DefaultIsLast' /\ MergedOutranks'
    BY <2>2 DEF DefaultIsLast, MergedOutranks
  <2>4. ComparedInOrder'
    <3> SUFFICES ASSUME NEW n \in 1 .. N, NEW m \in 1 .. N, n < m, Compared(m)'
                 PROVE  Compared(n)' /\ merged'[n].freq >= merged'[m].freq
      BY <1>2 DEF ComparedInOrder
    <3>1. m # N
      BY <1>5, <2>1
    <3>2. m \in 1 .. N - 1 /\ n \in 1 .. N - 1
      BY <1>2, <3>1
    <3>3. Compared(n) /\ merged[n].freq >= merged[m].freq
      BY Zenon, <3>2, <1>2, <1>4 DEF MInv, ComparedInOrder
    <3> QED BY <3>2, <3>3, <1>2, <1>4
  <2> QED BY <2>3, <2>4
<1>9. CASE Candidates # {}
  <2>1. /\ curs[MaxI] < K /\ e.count > 0
        /\ \A j \in Candidates : NextEntry(j).count <= e.count
    BY <1>7, <1>9 DEF Candidates
  <2>2. /\ \A n \in 1 .. N - 1 : Compared(n)
        /\ \A i \in Instance : ~(curs[i] > K)
    BY Zenon, <1>2, <1>9 DEF MInv, DefaultIsLast
  <2>3. \A n \in 1 .. N : Compared(n)'
    BY <1>2, <1>4, <1>5, <2>1, <2>2
  <2>4. \A i \in Instance : ~(curs'[i] > K)
    BY <1>2, <2>1, <2>2, KAssumption
  <2>5. DefaultIsLast'
    BY <1>2, <2>3, <2>4 DEF DefaultIsLast
  <2>6. \A n \in 1 .. N - 1 : e.count <= merged[n].freq
    BY SMTT(30), <1>2, <1>7, <1>9 DEF MInv, MergedOutranks
  <2>7. \A n \in 1 .. N : e.count <= merged'[n].freq /\ merged'[n].freq \in Nat
    BY <1>2, <1>3, <2>6
  <2>8. MergedOutranks'
    <3> SUFFICES ASSUME NEW n \in 1 .. N, NEW i \in Candidates'
                 PROVE  NextEntry(i)'.count <= merged'[n].freq
      BY <1>2 DEF MergedOutranks
    <3>1. NextEntry(i)'.count <= NextEntry(i).count /\ NextEntry(i).count <= e.count
          /\ NextEntry(i)'.count \in Nat /\ NextEntry(i).count \in Nat
      BY <1>6, <2>1
    <3> QED BY <3>1, <1>3, <2>7
  <2>9. ComparedInOrder'
    <3> SUFFICES ASSUME NEW n \in 1 .. N, NEW m \in 1 .. N, n < m
                 PROVE  Compared(n)' /\ merged'[n].freq >= merged'[m].freq
      BY <1>2 DEF ComparedInOrder
    <3>1. Compared(n)'
      BY <2>3
    <3>2. CASE m = N
      BY <3>1, <3>2, <2>7, <1>2, <1>3
    <3>3. CASE m # N
      <4>1. m \in 1 .. N - 1 /\ n \in 1 .. N - 1
        BY <1>2, <3>3
      <4>2. Compared(m) /\ merged[n].freq >= merged[m].freq
        BY Zenon, <4>1, <2>2, <1>2 DEF MInv, ComparedInOrder
      <4> QED BY <3>1, <4>1, <4>2, <1>2
    <3> QED BY <3>2, <3>3
  <2> QED BY <2>5, <2>8, <2>9
<1> QED BY <1>8, <1>9

(***************************************************************************)
(* The order is inductive, relative to the bounds of IInv.                 *)
(***************************************************************************)
LEMMA OrderNext == IInv /\ MInv /\ [Next]_vars => MInv'
<1> SUFFICES ASSUME IInv, MInv, [Next]_vars PROVE MInv'
  OBVIOUS
<1>1. CASE MergeOne
  <2>1. topks' \in [Instance -> Report]
    BY <1>1 DEF MergeOne, MInv
  <2>2. ~sent'
    <3>1. sent => Len(merged) = K * Num
      BY DEF MInv
    <3>2. Len(merged) < K * Num /\ Len(merged) \in Nat /\ (sent' <=> sent)
      BY <1>1 DEF MergeOne, IInv, TypeOK
    <3>3. K * Num \in Nat
      BY KAssumption, NumAssumption
    <3> QED BY <3>1, <3>2, <3>3
  <2>3. CursCount'
    BY <1>1, CountedStep
  <2>4. DefaultIsLast' /\ MergedOutranks' /\ ComparedInOrder'
    BY <1>1, OrderStep
  <2> QED BY Zenon, <2>1, <2>2, <2>3, <2>4 DEF MInv, Instance
<1>2. CASE Send
  <2>1. Len(merged) = K * Num
    <3>1. K * Num \in Nat /\ Len(merged) \in Nat
      BY KAssumption, NumAssumption DEF IInv, TypeOK
    <3> QED BY <3>1, <1>2 DEF Send, IInv
  <2>2. UNCHANGED <<topks, curs, merged>>
    BY <1>2 DEF Send
  <2>3. CursCount' /\ DefaultIsLast' /\ MergedOutranks' /\ ComparedInOrder'
    BY <2>2 DEF MInv, CursCount, PlacesOf, DefaultIsLast, MergedOutranks, ComparedInOrder,
                Compared, IndexOf, Candidates, NextEntry, Instance
  <2>4. topks' \in [Instance -> Report] /\ Len(merged') = K * Num
    BY <2>1, <2>2 DEF MInv
  <2> QED BY <2>3, <2>4 DEF MInv, Instance
<1>3. CASE UNCHANGED vars
  <2>1. UNCHANGED <<topks, curs, merged>> /\ (sent' <=> sent)
    BY SMTT(30), <1>3 DEF vars
  <2>2. CursCount' /\ DefaultIsLast' /\ MergedOutranks' /\ ComparedInOrder'
    BY SMTT(30), <2>1 DEF MInv, CursCount, PlacesOf, DefaultIsLast, MergedOutranks, ComparedInOrder,
                Compared, IndexOf, Candidates, NextEntry, Instance
  <2>3. topks' \in [Instance -> Report] /\ (sent' => Len(merged') = K * Num)
    BY <2>1 DEF MInv
  <2> QED BY <2>2, <2>3 DEF MInv, Instance
<1> QED BY <1>1, <1>2, <1>3 DEF Next

(***************************************************************************)
(* In every state of the merge loop the part of the list that was won by   *)
(* comparisons is a descending prefix of it, and what the reports have     *)
(* left is no larger.                                                      *)
(***************************************************************************)
THEOREM OrderHolds == Spec => []MInv
<1>1. Init => MInv
  BY OrderInit
<1>2. IInv /\ MInv /\ [Next]_vars => MInv'
  BY OrderNext
<1> QED BY <1>1, <1>2, InvariantHolds, PTL DEF Spec

(***************************************************************************)
(* When the list is complete no instance qualifies: k * num places are     *)
(* filled, so either every instance gave its first k, or some instance was *)
(* taken past its first k, which happens only by default.                  *)
(***************************************************************************)
LEMMA NoneLeft ==
    ASSUME IInv, MInv, sent
    PROVE  Candidates = {}
<1>1. CASE \E i \in Instance : curs[i] > K
  BY <1>1 DEF MInv, DefaultIsLast
<1>2. CASE \A i \in Instance : ~(curs[i] > K)
  <2>1. \A i \in Instance : curs[i] \in Nat /\ curs[i] <= K
    BY <1>2, KAssumption DEF IInv, TypeOK
  <2>2. Len(merged) = K * Num
    BY DEF MInv
  <2>3. /\ Num = 1 => curs[0] = Len(merged)
        /\ Num = 2 => curs[0] + curs[1] = Len(merged)
        /\ Num = 3 => curs[0] + curs[1] + curs[2] = Len(merged)
    BY DEF MInv, CursCount
  <2>4. \A i \in Instance : curs[i] = K
    <3>1. CASE Num = 1
      <4>1. Instance = {0} /\ Len(merged) = K
        BY <3>1, <2>2, KAssumption DEF Instance
      <4> QED BY <4>1, <2>3, <3>1
    <3>2. CASE Num = 2
      <4>1. Instance = {0, 1} /\ Len(merged) = K + K
        BY <3>2, <2>2, KAssumption DEF Instance
      <4>2. curs[0] \in Nat /\ curs[1] \in Nat /\ curs[0] <= K /\ curs[1] <= K
        BY <4>1, <2>1
      <4>3. curs[0] = K /\ curs[1] = K
        BY <4>1, <4>2, <2>3, <3>2, KAssumption
      <4> QED BY <4>1, <4>3
    <3>3. CASE Num = 3
      <4>1. Instance = {0, 1, 2} /\ Len(merged) = K + K + K
        BY <3>3, <2>2, KAssumption DEF Instance
      <4>2. /\ curs[0] \in Nat /\ curs[1] \in Nat /\ curs[2] \in Nat
            /\ curs[0] <= K /\ curs[1] <= K /\ curs[2] <= K
        BY <4>1, <2>1
      <4>3. curs[0] = K /\ curs[1] = K /\ curs[2] = K
        BY SMTT(30), <4>1, <4>2, <2>3, <3>3, KAssumption
      <4> QED BY <4>1, <4>3
    <3> QED BY <3>1, <3>2, <3>3, NumAssumption
  <2> QED BY <2>4, KAssumption DEF Candidates
<1> QED BY <1>1, <1>2

(***************************************************************************)
(* The list repartition builds has the entries won by comparison in front, *)
(* in order of their counts, and once it is complete every entry with a    *)
(* count among the first k of any instance is in it: taking instance 0 by  *)
(* default never pushes a reported key out.                                *)
(***************************************************************************)
THEOREM HotEntriesFirst == Spec => []ComparedFirst
<1>1. IInv /\ MInv => ComparedFirst
  <2> SUFFICES ASSUME IInv, MInv, sent, NEW i \in Instance, NEW j \in 0 .. K - 1,
                      topks[i][j].count > 0
               PROVE  curs[i] > j
    BY DEF MInv, ComparedInOrder, ComparedFirst
  <2> SUFFICES ASSUME ~(curs[i] > j) PROVE FALSE
    OBVIOUS
  <2>1. curs[i] \in Nat /\ curs[i] <= j /\ j \in Nat /\ j < K
    BY KAssumption DEF IInv, TypeOK
  <2>2. curs[i] \in Index /\ j \in Index /\ curs[i] < K
    BY <2>1, KAssumption DEF Index
  <2>3. topks[i][curs[i]].count > 0
    BY <2>1, <2>2, Descends
  <2>4. i \in Candidates
    BY <2>2, <2>3 DEF Candidates, NextEntry
  <2> QED BY <2>4, NoneLeft
<1> QED BY <1>1, InvariantHolds, OrderHolds, PTL

----------------------------------------------------------------------------

\* n is the first place of its key in the list.
FirstPlace(n) == \A m \in 1 .. n - 1 : merged[m].key # merged[n].key

(***************************************************************************)
(* A key is in the exception list only if it is in the merged list, and    *)
(* then with the band of its first place.                                  *)
(***************************************************************************)
AssignedAtFirst ==
    /\ \A key \in DOMAIN key_to_instance : \E n \in DOMAIN merged : merged[n].key = key
    /\ \A n \in DOMAIN merged : FirstPlace(n) =>
          IF Band(n - 1) = 3 THEN merged[n].key \notin DOMAIN key_to_instance
          ELSE /\ merged[n].key \in DOMAIN key_to_instance
               /\ key_to_instance[merged[n].key] = Band(n - 1)

(***************************************************************************)
(* Past the last cut no position is assigned.                              *)
(***************************************************************************)
LEMMA BandsEnd ==
    ASSUME NEW n \in Nat, NEW m \in Nat, n <= m, Band(n) = 3
    PROVE  Band(m) = 3
<1>1. Cut[1] \in Nat /\ Cut[2] \in Nat /\ Cut[3] \in Nat
  BY CutTypes
<1>2. Cut[1] <= Cut[2] /\ Cut[2] <= Cut[3]
  BY CutAssumption
<1> QED BY <1>1, <1>2 DEF Band

(***************************************************************************)
(* emplace keeps what a key has, and a key that comes for the first time   *)
(* behind the last cut is not assigned later, as all later positions are   *)
(* behind it too.                                                          *)
(***************************************************************************)
LEMMA AssignStep ==
    ASSUME IInv, MInv, AssignedAtFirst, MergeOne
    PROVE  AssignedAtFirst'
<1>1. PICK N : N = Len(merged) + 1
  OBVIOUS
<1> DEFINE e == NextEntry(MaxI)
           b == Band(Len(merged))
<1>2. /\ N \in Nat /\ DOMAIN merged = 1 .. N - 1 /\ DOMAIN merged' = 1 .. N
      /\ \A n \in 1 .. N - 1 : merged'[n] = merged[n]
      /\ merged'[N].key = e.key
  BY <1>1, Appended
<1>3. N - 1 = Len(merged) /\ N - 1 \in Nat /\ N \in 1 .. N
  BY <1>1, <1>2 DEF IInv, TypeOK
<1>4. b \in 0 .. 3 /\ b = Band(N - 1)
  BY <1>3, BandProperty
<1>5. key_to_instance' = IF b = 3 THEN key_to_instance
                         ELSE Emplace(key_to_instance, e.key, b)
  BY DEF MergeOne
<1>6. \A n \in 1 .. N - 1 : FirstPlace(n)' <=> FirstPlace(n)
  <2> SUFFICES ASSUME NEW n \in 1 .. N - 1 PROVE FirstPlace(n)' <=> FirstPlace(n)
    OBVIOUS
  <2>1. merged'[n] = merged[n] /\ \A m \in 1 .. n - 1 : merged'[m] = merged[m]
    BY SMTT(30), <1>2
  <2> QED BY <2>1 DEF FirstPlace
<1>7. FirstPlace(N)' <=> \A m \in 1 .. N - 1 : merged[m].key # e.key
  BY <1>2 DEF FirstPlace
<1> HIDE DEF e, b
<1>8. /\ \A key \in DOMAIN key_to_instance :
            key \in DOMAIN key_to_instance' /\ key_to_instance'[key] = key_to_instance[key]
      /\ \A key \in DOMAIN key_to_instance' :
            key \in DOMAIN key_to_instance \/ (key = e.key /\ b # 3)
      /\ e.key \notin DOMAIN key_to_instance /\ b # 3 =>
            e.key \in DOMAIN key_to_instance' /\ key_to_instance'[e.key] = b
  <2>1. CASE b = 3 \/ e.key \in DOMAIN key_to_instance
    <3>1. key_to_instance' = key_to_instance
      BY <2>1, <1>5 DEF Emplace
    <3> QED BY <2>1, <3>1
  <2>2. CASE b # 3 /\ e.key \notin DOMAIN key_to_instance
    <3>1. key_to_instance' = [x \in DOMAIN key_to_instance \cup {e.key} |->
                                IF x = e.key THEN b ELSE key_to_instance[x]]
      BY <2>2, <1>5 DEF Emplace, Assign
    <3> QED BY <2>2, <3>1
  <2> QED BY <2>1, <2>2
<1>9. \A key \in DOMAIN key_to_instance' : \E n \in 1 .. N : merged'[n].key = key
  <2> SUFFICES ASSUME NEW key \in DOMAIN key_to_instance'
               PROVE  \E n \in 1 .. N : merged'[n].key = key
    OBVIOUS
  <2>1. CASE key \in DOMAIN key_to_instance
    <3>1. PICK n \in 1 .. N - 1 : merged[n].key = key
      BY <2>1, <1>2 DEF AssignedAtFirst
    <3>2. n \in 1 .. N
      BY <1>2
    <3> QED BY <3>1, <3>2, <1>2
  <2>2. CASE key = e.key
    BY <2>2, <1>2, <1>3
  <2> QED BY <2>1, <2>2, <1>8
<1>10. ASSUME NEW n \in 1 .. N, FirstPlace(n)'
       PROVE  IF Band(n - 1) = 3 THEN merged'[n].key \notin DOMAIN key_to_instance'
              ELSE /\ merged'[n].key \in DOMAIN key_to_instance'
                   /\ key_to_instance'[merged'[n].key] = Band(n - 1)
  <2>1. CASE n = N
    <3>1. e.key \notin DOMAIN key_to_instance
      BY <2>1, <1>10, <1>7, <1>2 DEF AssignedAtFirst
    <3> QED BY <2>1, <3>1, <1>2, <1>4, <1>8
  <2>2. CASE n # N
    <3>1. n \in 1 .. N - 1 /\ n - 1 \in Nat /\ n - 1 <= N - 1 /\ n \in DOMAIN merged
      BY <2>2, <1>2
    <3>2. FirstPlace(n) /\ merged'[n] = merged[n]
      BY <3>1, <1>2, <1>6, <1>10
    <3>3. CASE Band(n - 1) = 3
      <4>1. merged[n].key \notin DOMAIN key_to_instance
        BY <3>1, <3>2, <3>3 DEF AssignedAtFirst
      <4>2. b = 3
        BY <3>1, <3>3, <1>3, <1>4, BandsEnd
      <4> QED BY <3>2, <3>3, <4>1, <4>2, <1>8
    <3>4. CASE Band(n - 1) # 3
      <4>1. merged[n].key \in DOMAIN key_to_instance
            /\ key_to_instance[merged[n].key] = Band(n - 1)
        BY <3>1, <3>2, <3>4 DEF AssignedAtFirst
      <4> QED BY <3>2, <3>4, <4>1, <1>8
    <3> QED BY <3>3, <3>4
  <2> QED BY <2>1, <2>2
<1> QED BY <1>2, <1>9, <1>10 DEF AssignedAtFirst, Band

(***************************************************************************)
(* The exception list follows the first places of the keys, in every state *)
(* of the merge loop.                                                      *)
(***************************************************************************)
THEOREM AssignmentHolds == Spec => []AssignedAtFirst
<1>1. Init => AssignedAtFirst
  BY DEF Init, AssignedAtFirst
<1>2. IInv /\ MInv /\ AssignedAtFirst /\ [Next]_vars => AssignedAtFirst'
  <2> SUFFICES ASSUME IInv, MInv, AssignedAtFirst, [Next]_vars PROVE AssignedAtFirst'
    OBVIOUS
  <2>1. CASE MergeOne
    BY <2>1, AssignStep
  <2>2. CASE UNCHANGED <<merged, key_to_instance>>
    BY <2>2 DEF AssignedAtFirst, FirstPlace, Band
  <2> QED BY <2>1, <2>2 DEF Next, Send, vars
<1> QED BY <1>1, <1>2, InvariantHolds, OrderHolds, PTL DEF Spec

(***************************************************************************)
(* The instance a key is sent to is that of the band of its first,         *)
(* hottest, place in the list, however many instances reported the key; a  *)
(* key whose first place is behind the last cut is not sent at all.        *)
(***************************************************************************)
THEOREM HottestPlaceDecides == Spec => []AssignedByFirstPlace
<1>1. IInv /\ AssignedAtFirst => AssignedByFirstPlace
  <2> SUFFICES ASSUME IInv, AssignedAtFirst, NEW key \in {merged[n].key : n \in DOMAIN merged}
               PROVE  LET n == Min({k \in DOMAIN merged : merged[k].key = key})
                      IN  IF Band(n - 1) = 3
                          THEN key \notin DOMAIN key_to_instance
                          ELSE key \in DOMAIN key_to_instance
                               /\ key_to_instance[key] = Band(n - 1)
    BY Zenon DEF AssignedByFirstPlace
  <2> DEFINE places == {k \in DOMAIN merged : merged[k].key = key}
  <2>1. places # {} /\ places \subseteq Nat
    BY DEF IInv, TypeOK
  <2>2. PICK n : n = Min(places)
    OBVIOUS
  <2>3. n \in places /\ \A m \in places : n <= m
    <3> HIDE DEF places
    <3> QED BY Zenon, <2>1, <2>2, MinProperty
  <2>4. n \in DOMAIN merged /\ merged[n].key = key /\ DOMAIN merged = 1 .. Len(merged)
        /\ Len(merged) \in Nat
    BY <2>3 DEF IInv, TypeOK
  <2>5. FirstPlace(n)
    <3> SUFFICES ASSUME NEW m \in 1 .. n - 1, merged[m].key = merged[n].key PROVE FALSE
      BY DEF FirstPlace
    <3>1. m \in DOMAIN merged /\ m < n /\ m \in Nat
      BY <2>4
    <3>2. m \in places
      BY <3>1, <2>4
    <3> QED BY <3>1, <3>2, <2>3, <2>4
  <2> HIDE DEF places
  <2>6. IF Band(n - 1) = 3 THEN key \notin DOMAIN key_to_instance
        ELSE key \in DOMAIN key_to_instance /\ key_to_instance[key] = Band(n - 1)
    BY <2>4, <2>5 DEF AssignedAtFirst
  <2> QED BY Zenon, <2>2, <2>6 DEF places
<1> QED BY <1>1, InvariantHolds, AssignmentHolds, PTL
============================================================================
