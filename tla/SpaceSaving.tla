---------------------------- MODULE SpaceSaving ----------------------------
(***************************************************************************)
(* The array-based SpaceSaving summary an instance keeps of the keys in    *)
(* its deleted write-ahead logs (db/space_saving.cc, "custom space saving  *)
(* implementation"), and the report the partitioner takes from it.         *)
(*                                                                         *)
(* ProcessKey and ExtractTopK are atomic here.  SpaceSavingRace splits     *)
(* them into the memory accesses that two threads interleave.              *)
(***************************************************************************)
EXTENDS Integers, Sequences, FiniteSetsExt

CONSTANTS
    M,            \* m_, the number of monitored keys (30000 in the code)
    Key,          \* the keys that occur in the logs
    ZeroKey,      \* key 0: what an untouched slot of freq_array_ holds
    ReportSize,   \* the values of k the partitioner asks for
    MaxStream,    \* bound: keys processed between two reports
    MaxReports    \* bound: number of reports

ASSUME MAssumption == M \in Nat \ {0}
ASSUME KeyAssumption == ZeroKey \in Key
ASSUME ReportSizeAssumption == ReportSize \subseteq 0..M
ASSUME BoundAssumption == MaxStream \in Nat /\ MaxReports \in Nat

VARIABLES
    freq_array_,     \* the slots: a key and its estimated count
    num_items_,      \* slots in use
    min_key_index_,  \* the slot to evict, -1 until the first key arrives
    seen,            \* history: how often each key came since the last reset
    processed,       \* history: how many keys came since the last reset
    reports,         \* history: how many reports were taken
    report           \* the vector the last ExtractTopK returned

vars == <<freq_array_, num_items_, min_key_index_, seen, processed, reports,
          report>>

Slot == 0 .. M - 1

Entry == [key : Key, count : Nat]

\* The slots in use; the others hold zeroes or what an earlier epoch left.
InUse == 0 .. num_items_ - 1

\* Faulty Holding: the search stops one slot early.
HoldingAllButLast(key) ==
    {i \in InUse : i + 1 < num_items_ /\ freq_array_[i].key = key}

\* The slots whose key the linear search of ProcessKey compares equal.
Holding(key) == {i \in InUse : freq_array_[i].key = key}

----------------------------------------------------------------------------

Init ==
    /\ freq_array_ = [i \in Slot |-> [key |-> ZeroKey, count |-> 0]]
    /\ num_items_ = 0
    /\ min_key_index_ = -1
    /\ seen = [key \in Key |-> 0]
    /\ processed = 0
    /\ reports = 0
    /\ report = <<>>

\* Faulty SetMin: the scan is left out.
SetMinNoScan(array, n, min) == min

(***************************************************************************)
(* SetMin stops at the first slot whose count is below that of the present *)
(* minimum; it does not go on to the smallest one.                         *)
(***************************************************************************)
SetMin(array, n, min) ==
    LET lower == {i \in 0 .. n - 1 : array[i].count < array[min].count}
    IN  IF lower = {} THEN min ELSE Min(lower)

\* The key is monitored: count it; if it was the minimum, find a new one.
Hit(key) ==
    /\ Holding(key) # {}
    /\ freq_array_' = [freq_array_ EXCEPT ![Min(Holding(key))].count = @ + 1]
    /\ min_key_index_' = IF key = freq_array_'[min_key_index_].key
                         THEN SetMin(freq_array_', num_items_, min_key_index_)
                         ELSE min_key_index_
    /\ UNCHANGED num_items_

\* Faulty Add: the count of the slot is not overwritten.
AddOnLeftover(key) ==
    /\ Holding(key) = {} /\ num_items_ < M
    /\ freq_array_' = [freq_array_ EXCEPT
                         ![num_items_] = [key |-> key, count |-> @.count + 1]]
    /\ min_key_index_' = num_items_
    /\ num_items_' = num_items_ + 1

\* Faulty Add: num_items_ may pass m_.
AddOffByOne(key) ==
    /\ Holding(key) = {} /\ num_items_ <= M
    /\ freq_array_' = [freq_array_ EXCEPT
                         ![num_items_] = [key |-> key, count |-> 1]]
    /\ min_key_index_' = num_items_
    /\ num_items_' = num_items_ + 1

\* The array has a free slot: the key takes it and becomes the minimum.
Add(key) ==
    /\ Holding(key) = {} /\ num_items_ < M
    /\ freq_array_' = [freq_array_ EXCEPT
                         ![num_items_] = [key |-> key, count |-> 1]]
    /\ min_key_index_' = num_items_
    /\ num_items_' = num_items_ + 1

\* Faulty Evict: the evicted count is not inherited.
EvictToOne(key) ==
    /\ Holding(key) = {} /\ ~(num_items_ < M)
    /\ freq_array_' = [freq_array_ EXCEPT
                         ![min_key_index_] = [key |-> key, count |-> 1]]
    /\ min_key_index_' = SetMin(freq_array_', num_items_, min_key_index_)
    /\ UNCHANGED num_items_

\* Faulty Evict: slot 0 is evicted, not the minimum.
EvictFirst(key) ==
    /\ Holding(key) = {} /\ ~(num_items_ < M)
    /\ freq_array_' = [freq_array_ EXCEPT
                         ![0] = [key |-> key, count |-> @.count + 1]]
    /\ min_key_index_' = SetMin(freq_array_', num_items_, min_key_index_)
    /\ UNCHANGED num_items_

\* The array is full: the key replaces the minimum and inherits its count.
Evict(key) ==
    /\ Holding(key) = {} /\ ~(num_items_ < M)
    /\ freq_array_' = [freq_array_ EXCEPT
                         ![min_key_index_] = [key |-> key, count |-> @.count + 1]]
    /\ min_key_index_' = SetMin(freq_array_', num_items_, min_key_index_)
    /\ UNCHANGED num_items_

ProcessKey(key) ==
    /\ processed < MaxStream
    /\ Hit(key) \/ Add(key) \/ Evict(key)
    /\ seen' = [seen EXCEPT ![key] = @ + 1]
    /\ processed' = processed + 1
    /\ UNCHANGED <<reports, report>>

----------------------------------------------------------------------------

\* Faulty MinZeroed: the minimum is decremented.
MinDecremented ==
    [i \in Slot |-> IF i = min_key_index_
                    THEN [freq_array_[i] EXCEPT !.count = @ - 1]
                    ELSE freq_array_[i]]

(***************************************************************************)
(* The write freq_array_[min_key_index_].second = 0.  If no key was ever   *)
(* processed the index is -1 and the store is in front of the array: in    *)
(* the build's layout it sets num_items_ and min_key_index_ to 0, and an   *)
(* optimised build may drop it.                                            *)
(***************************************************************************)
MinZeroed ==
    [i \in Slot |-> IF i = min_key_index_
                    THEN [freq_array_[i] EXCEPT !.count = 0]
                    ELSE freq_array_[i]]

\* ComparePair: larger counts first.
Descending(array) ==
    \A i, j \in Slot : i < j => array[i].count >= array[j].count

\* Faulty ExtractTopK: the sort is left out.
ExtractUnsorted(k) ==
    /\ reports < MaxReports
    /\ freq_array_' = MinZeroed
    /\ report' = [i \in 1 .. k |-> MinZeroed[i - 1]]
    /\ num_items_' = 0
    /\ UNCHANGED min_key_index_
    /\ reports' = reports + 1
    /\ seen' = [key \in Key |-> 0]
    /\ processed' = 0

\* Faulty ExtractTopK: the array is not reset.
ExtractNoReset(k) ==
    /\ reports < MaxReports
    /\ \E p \in Bijection(Slot, Slot) :
          LET sorted == [i \in Slot |-> MinZeroed[p[i]]]
          IN  /\ Descending(sorted)
              /\ freq_array_' = sorted
              /\ report' = [i \in 1 .. k |-> sorted[i - 1]]
    /\ UNCHANGED <<num_items_, min_key_index_>>
    /\ reports' = reports + 1
    /\ seen' = [key \in Key |-> 0]
    /\ processed' = 0

(***************************************************************************)
(* std::sort runs over all m_ slots, used or not, and is not stable: any   *)
(* descending rearrangement may result.  ResetFreqArray forgets the slots  *)
(* but clears neither them nor min_key_index_.                             *)
(***************************************************************************)
ExtractTopK(k) ==
    /\ reports < MaxReports
    /\ \E p \in Bijection(Slot, Slot) :
          LET sorted == [i \in Slot |-> MinZeroed[p[i]]]
          IN  /\ Descending(sorted)
              /\ freq_array_' = sorted
              /\ report' = [i \in 1 .. k |-> sorted[i - 1]]
    /\ num_items_' = 0
    /\ min_key_index_' \in IF min_key_index_ = -1 THEN {-1, 0}
                                                  ELSE {min_key_index_}
    /\ reports' = reports + 1
    /\ seen' = [key \in Key |-> 0]
    /\ processed' = 0

Next ==
    \/ \E key \in Key : ProcessKey(key)
    \/ \E k \in ReportSize : ExtractTopK(k)

Spec == Init /\ [][Next]_vars

----------------------------------------------------------------------------

\* Types; num_items_ never passes m_ and min_key_index_ is -1 or a slot of the array.
TypeOK ==
    /\ freq_array_ \in [Slot -> Entry]
    /\ num_items_ \in 0 .. M
    /\ min_key_index_ \in -1 .. M - 1
    /\ seen \in [Key -> Nat]
    /\ processed \in 0 .. MaxStream
    /\ reports \in 0 .. MaxReports
    /\ report \in Seq(Entry)

Monitored == {freq_array_[i].key : i \in InUse}

(***************************************************************************)
(* SetMin's early return is enough: whenever a slot is in use,             *)
(* min_key_index_ names one of the slots in use and none of them has a     *)
(* smaller count.                                                          *)
(***************************************************************************)
MinIsArgmin ==
    num_items_ > 0 =>
        /\ min_key_index_ \in InUse
        /\ \A i \in InUse : freq_array_[min_key_index_].count <= freq_array_[i].count

(***************************************************************************)
(* ProcessKey never spreads one key over two slots, whatever was evicted   *)
(* and reset before.                                                       *)
(***************************************************************************)
OneSlotPerKey ==
    \A i, j \in InUse : freq_array_[i].key = freq_array_[j].key => i = j

(***************************************************************************)
(* A monitored key's count is at least the number of times ProcessKey got  *)
(* it since the last report, and an unmonitored key came at most as often  *)
(* as the count of the slot that would be evicted (never, while a slot is  *)
(* free).                                                                  *)
(***************************************************************************)
NeverUndercounts ==
    /\ \A i \in InUse : seen[freq_array_[i].key] <= freq_array_[i].count
    /\ \A key \in Key \ Monitored :
          IF num_items_ < M THEN seen[key] = 0
                            ELSE seen[key] <= freq_array_[min_key_index_].count

(***************************************************************************)
(* The count a key inherits from the key it evicts is all it can be over   *)
(* by: an estimate exceeds the truth by at most the smallest count, and is *)
(* exact until the array is full.                                          *)
(***************************************************************************)
BoundedOvercount ==
    \A i \in InUse :
        /\ freq_array_[i].count <= seen[freq_array_[i].key]
                                     + freq_array_[min_key_index_].count
        /\ num_items_ < M => freq_array_[i].count = seen[freq_array_[i].key]

(***************************************************************************)
(* What the summary is for: a key that made up more than one m_-th of the  *)
(* stream since the last report is monitored.                              *)
(***************************************************************************)
FrequentKeysMonitored ==
    \A key \in Key : seen[key] * M > processed => key \in Monitored

(***************************************************************************)
(* The counts of the slots in use add up to the number of keys processed   *)
(* since the last report: ProcessKey adds one to exactly one count.        *)
(***************************************************************************)
CountsAddUp ==
    MapThenSumSet(LAMBDA i : freq_array_[i].count, InUse) = processed

ReportTaken == reports' # reports

\* No slot is left over from an earlier epoch when the report is taken.
NoLeftovers == reports = 0 \/ num_items_ = M

(***************************************************************************)
(* A report taken with no leftovers in the array lists no key twice and no *)
(* key that did not come since the last report (counts of 0 aside), even   *)
(* though ExtractTopK sorts all m_ slots.                                  *)
(***************************************************************************)
FreshReport ==
    ReportTaken /\ NoLeftovers =>
        LET listed == {i \in DOMAIN report' : report'[i].count > 0}
        IN  /\ \A i \in listed : seen[report'[i].key] > 0
            /\ \A i, j \in listed : report'[i].key = report'[j].key => i = j

\* Every report of ExtractTopK is fresh in that sense.
ReportIsFresh == [][FreshReport]_vars

(***************************************************************************)
(* A report of a full array contains every key above one m_-th of the      *)
(* stream with a count that is not too low, or else only entries that      *)
(* outrank it: zeroing the minimum costs no such key its place.            *)
(***************************************************************************)
FrequentKeysInReport ==
    ReportTaken /\ num_items_ = M =>
        \A key \in Key : seen[key] * M > processed =>
            \/ \E i \in DOMAIN report' : /\ report'[i].key = key
                                         /\ report'[i].count >= seen[key]
            \/ \A i \in DOMAIN report' : report'[i].count >= seen[key]

\* No report of ExtractTopK on a full array loses a frequent key.
FrequentKeysReported == [][FrequentKeysInReport]_vars
============================================================================
