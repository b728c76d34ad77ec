---------------------------- MODULE Partitioner ----------------------------
(***************************************************************************)
(* Partitioner::repartition (cc/partitioner.cc): the reports of all        *)
(* instances are merged by count, and a key's place in the merged list     *)
(* decides which instance it is reassigned to.                             *)
(***************************************************************************)
EXTENDS Integers, Sequences, FiniteSetsExt

CONSTANTS
    Num,       \* clients.size(), the number of instances
    K,         \* k; every instance is asked for its top 3 * k
    Key,       \* the keys reports may name
    Report,    \* the reports an instance may send, ReportAssumption
    Cut        \* <<3000, 4000, 5000>>: where the bands of the list end

ASSUME NumAssumption == Num \in 1 .. 3
ASSUME KAssumption == K \in Nat
ASSUME CutAssumption ==
    /\ Cut \in Seq(Nat) /\ Len(Cut) = 3
    /\ Cut[1] <= Cut[2] /\ Cut[2] <= Cut[3]

Instance == 0 .. Num - 1

Index == 0 .. 3 * K - 1

Entry == [key : Key, count : Nat]

\* ExtractTopK(3 * k) returns 3 * k pairs, larger counts first.
ASSUME ReportAssumption ==
    /\ Report \subseteq [Index -> Entry]
    /\ \A r \in Report, i, j \in Index : i < j => r[i].count >= r[j].count

VARIABLES
    topks,             \* what the futures delivered
    curs,              \* per instance, the next entry of its report
    merged,            \* the merged list: key, freq and instance of each entry
    key_to_instance,   \* the exception list under construction
    sent               \* handle_repartition was called

vars == <<topks, curs, merged, key_to_instance, sent>>

Init ==
    /\ topks \in [Instance -> Report]
    /\ curs = [i \in Instance |-> 0]
    /\ merged = <<>>
    /\ key_to_instance = <<>>
    /\ sent = FALSE

----------------------------------------------------------------------------

NextEntry(i) == topks[i][curs[i]]

\* The instances the loop over clients considers: below k, with a count above 0.
Candidates == {i \in Instance : curs[i] < K /\ NextEntry(i).count > 0}

\* Faulty MaxI: the last of the smallest.
MaxILast ==
    IF Candidates = {} THEN Num - 1
    ELSE Max({i \in Candidates :
                 \A j \in Candidates : NextEntry(j).count >= NextEntry(i).count})

(***************************************************************************)
(* The first instance with the largest count.  When no instance qualifies, *)
(* max_i keeps its initial value 0, whatever curs[0] is.                   *)
(***************************************************************************)
MaxI ==
    IF Candidates = {} THEN 0
    ELSE Min({i \in Candidates :
                 \A j \in Candidates : NextEntry(j).count <= NextEntry(i).count})

\* Which instance position n of the list (from 0) goes to; 3 stands for none.
Band(n) ==
    CASE n < Cut[1] -> 0
      [] n >= Cut[1] /\ n < Cut[2] -> 1
      [] n >= Cut[2] /\ n < Cut[3] -> 2
      [] OTHER -> 3

\* unordered_map::emplace keeps the entry a key already has.
Assign(f, key, inst) ==
    [x \in DOMAIN f \cup {key} |-> IF x = key THEN inst ELSE f[x]]

Emplace(f, key, inst) ==
    IF key \in DOMAIN f THEN f ELSE Assign(f, key, inst)

\* Faulty MergeOne: the cursor moves by two.
MergeTwice ==
    /\ Len(merged) < K * Num
    /\ merged' = Append(merged, [key |-> NextEntry(MaxI).key,
                                 freq |-> NextEntry(MaxI).count,
                                 inst |-> MaxI])
    /\ curs' = [curs EXCEPT ![MaxI] = @ + 2]
    /\ UNCHANGED <<topks, key_to_instance, sent>>

\* Faulty MergeOne: the target is recorded as the source.
MergeRecordsTarget ==
    /\ Len(merged) < K * Num
    /\ merged' = Append(merged, [key |-> NextEntry(MaxI).key,
                                 freq |-> NextEntry(MaxI).count,
                                 inst |-> Band(Len(merged))])
    /\ curs' = [curs EXCEPT ![MaxI] = @ + 1]
    /\ UNCHANGED <<topks, key_to_instance, sent>>

\* One iteration of the merge loop.
MergeOne ==
    /\ Len(merged) < K * Num
    /\ LET entry == NextEntry(MaxI)
           inst == Band(Len(merged))
       IN  /\ key_to_instance' = IF inst = 3 THEN key_to_instance
                                 ELSE Emplace(key_to_instance, entry.key, inst)
           /\ merged' = Append(merged, [key |-> entry.key, freq |-> entry.count,
                                        inst |-> MaxI])
    /\ curs' = [curs EXCEPT ![MaxI] = @ + 1]
    /\ UNCHANGED <<topks, sent>>

\* The loop is over: handle_repartition is called and not waited for.
Send ==
    /\ ~(Len(merged) < K * Num)
    /\ ~sent
    /\ sent' = TRUE
    /\ UNCHANGED <<topks, curs, merged, key_to_instance>>

Next == MergeOne \/ Send

Spec == Init /\ [][Next]_vars

----------------------------------------------------------------------------

MergedEntry == [key : Key, freq : Nat, inst : Instance]

\* Types; the instance merged records for an entry is one that reported.
TypeOK ==
    /\ topks \in [Instance -> [Index -> Entry]]
    /\ curs \in [Instance -> Nat]
    /\ merged \in Seq(MergedEntry)
    /\ DOMAIN key_to_instance \subseteq Key
    /\ \A key \in DOMAIN key_to_instance : key_to_instance[key] \in Nat
    /\ sent \in BOOLEAN

(***************************************************************************)
(* topks[max_i][curs[max_i]] never reads behind the 3 * k pairs of a       *)
(* report, although the loop may go past k entries of instance 0: asking   *)
(* for 3 * k is enough for up to three instances.                          *)
(***************************************************************************)
InBounds == Len(merged) < K * Num => curs[MaxI] \in Index

(***************************************************************************)
(* With fewer than three instances, a key is never given to one that does  *)
(* not exist if the list ends before the bands of the missing ones.  The   *)
(* code does not see to that: it depends on k, and a longer list does give *)
(* keys to them (AssignedByFirstPlace says which).                         *)
(***************************************************************************)
TargetsExist ==
    Num = 3 \/ K * Num <= Cut[Num] =>
        \A key \in DOMAIN key_to_instance : key_to_instance[key] \in Instance

\* The index in its instance's report of the entry at position n of the list.
IndexOf(n) == Cardinality({m \in 1 .. n - 1 : merged[m].inst = merged[n].inst})

\* Position n was won by a comparison; the others are instance 0 by default.
Compared(n) == IndexOf(n) < K /\ merged[n].freq > 0

(***************************************************************************)
(* The entries that win a comparison come in order of their counts, in     *)
(* front of all others, and when the list is complete every entry with a   *)
(* count among an instance's first k is in it.                             *)
(***************************************************************************)
ComparedFirst ==
    /\ \A n, m \in DOMAIN merged : n < m /\ Compared(m) =>
          Compared(n) /\ merged[n].freq >= merged[m].freq
    /\ sent => \A i \in Instance, j \in 0 .. K - 1 :
          topks[i][j].count > 0 => curs[i] > j

(***************************************************************************)
(* A key is sent where the band of its first, hottest, place in the list   *)
(* says, also if several instances reported it.                            *)
(***************************************************************************)
AssignedByFirstPlace ==
    LET First(key) == Min({n \in DOMAIN merged : merged[n].key = key})
    IN  \A key \in {merged[n].key : n \in DOMAIN merged} :
           IF Band(First(key) - 1) = 3
           THEN key \notin DOMAIN key_to_instance
           ELSE key \in DOMAIN key_to_instance
                /\ key_to_instance[key] = Band(First(key) - 1)
============================================================================
