-------------------------- MODULE SpaceSavingRace --------------------------
(***************************************************************************)
(* The SpaceSaving summary under the threads that use it.  A flush job     *)
(* that deletes a WAL holds mutex_ while genTopkForPartitioner streams its *)
(* keys (PurgeObsoleteFiles); DB::ReportTopk runs on the thread of pa_srv  *)
(* and takes no lock.  ProcessKey and ExtractTopK are split at the writes  *)
(* to the object, so that threads interleave between them.                 *)
(***************************************************************************)
EXTENDS SpaceSaving

CONSTANTS
    Flusher,    \* threads that purge WALs under mutex_
    Reporter,   \* threads that call ReportTopk
    NoThread    \* mutex_ is free

ASSUME ThreadAssumption ==
    NoThread \notin Flusher \cup Reporter /\ Flusher \cap Reporter = {}

VARIABLES
    mutex_,   \* the flusher that holds DBImpl::mutex_, or NoThread
    pc,       \* where each thread is
    arg,      \* a flusher's key
    at        \* a flusher's slot: the one found, or the num_items_ it read

raceVars == <<vars, mutex_, pc, arg, at>>

Thread == Flusher \cup Reporter

RaceInit ==
    /\ Init
    /\ mutex_ = NoThread
    /\ pc = [t \in Thread |-> "idle"]
    /\ arg = [t \in Flusher |-> ZeroKey]
    /\ at = [t \in Flusher |-> 0]

Goto(t, label) == pc' = [pc EXCEPT ![t] = label]

----------------------------------------------------------------------------

\* Faulty Lock: mutex_ is not taken.
LockNothing(t) ==
    /\ pc[t] = "idle"
    /\ Goto(t, "next_record")
    /\ UNCHANGED <<vars, mutex_, arg, at>>

\* PurgeObsoleteFiles takes mutex_ around DeleteObsoleteFileImpl.
Lock(t) ==
    /\ pc[t] = "idle"
    /\ mutex_ = NoThread
    /\ mutex_' = t
    /\ Goto(t, "next_record")
    /\ UNCHANGED <<vars, arg, at>>

Unlock(t) ==
    /\ pc[t] = "next_record"
    /\ mutex_' = NoThread
    /\ Goto(t, "idle")
    /\ UNCHANGED <<vars, arg, at>>

\* Faulty Search: a full array still gets a new slot.
SearchOffByOne(t, key) ==
    /\ pc[t] = "next_record"
    /\ processed < MaxStream
    /\ processed' = processed + 1
    /\ seen' = [seen EXCEPT ![key] = @ + 1]
    /\ arg' = [arg EXCEPT ![t] = key]
    /\ \/ /\ Holding(key) # {}
          /\ at' = [at EXCEPT ![t] = Min(Holding(key))]
          /\ Goto(t, "hit")
       \/ /\ Holding(key) = {} /\ num_items_ <= M
          /\ at' = [at EXCEPT ![t] = num_items_]
          /\ Goto(t, "add")
    /\ UNCHANGED <<freq_array_, num_items_, min_key_index_, reports, report, mutex_>>

\* ProcessKey's search loop and the test for a free slot decide what to write.
Search(t, key) ==
    /\ pc[t] = "next_record"
    /\ processed < MaxStream
    /\ processed' = processed + 1
    /\ seen' = [seen EXCEPT ![key] = @ + 1]
    /\ arg' = [arg EXCEPT ![t] = key]
    /\ \/ /\ Holding(key) # {}
          /\ at' = [at EXCEPT ![t] = Min(Holding(key))]
          /\ Goto(t, "hit")
       \/ /\ Holding(key) = {} /\ num_items_ < M
          /\ at' = [at EXCEPT ![t] = num_items_]
          /\ Goto(t, "add")
       \/ /\ Holding(key) = {} /\ ~(num_items_ < M)
          /\ UNCHANGED at
          /\ Goto(t, "evict")
    /\ UNCHANGED <<freq_array_, num_items_, min_key_index_, reports, report, mutex_>>

Count(t) ==
    /\ pc[t] = "hit"
    /\ freq_array_' = [freq_array_ EXCEPT ![at[t]].count = @ + 1]
    /\ Goto(t, IF arg[t] = freq_array_[min_key_index_].key THEN "set_min"
                                                           ELSE "next_record")
    /\ UNCHANGED <<num_items_, min_key_index_, seen, processed, reports, report,
                   mutex_, arg, at>>

FillSlot(t) ==
    /\ pc[t] = "add"
    /\ freq_array_' = [freq_array_ EXCEPT ![at[t]] = [key |-> arg[t], count |-> 1]]
    /\ min_key_index_' = at[t]
    /\ Goto(t, "grow")
    /\ UNCHANGED <<num_items_, seen, processed, reports, report, mutex_, arg, at>>

\* num_items_++ rereads num_items_, or reuses the value read for the test.
Grow(t) ==
    /\ pc[t] = "grow"
    /\ num_items_' \in {num_items_ + 1, at[t] + 1}
    /\ Goto(t, "next_record")
    /\ UNCHANGED <<freq_array_, min_key_index_, seen, processed, reports, report,
                   mutex_, arg, at>>

Replace(t) ==
    /\ pc[t] = "evict"
    /\ freq_array_' = [freq_array_ EXCEPT ![min_key_index_] =
                         [key |-> arg[t], count |-> @.count + 1]]
    /\ Goto(t, "set_min")
    /\ UNCHANGED <<num_items_, min_key_index_, seen, processed, reports, report,
                   mutex_, arg, at>>

FindMin(t) ==
    /\ pc[t] = "set_min"
    /\ min_key_index_' = SetMin(freq_array_, num_items_, min_key_index_)
    /\ Goto(t, "next_record")
    /\ UNCHANGED <<freq_array_, num_items_, seen, processed, reports, report,
                   mutex_, arg, at>>

----------------------------------------------------------------------------

\* The three statements of ExtractTopK, on a thread that holds no lock.
ZeroMin(t) ==
    /\ pc[t] = "idle"
    /\ reports < MaxReports
    /\ reports' = reports + 1
    /\ freq_array_' = MinZeroed
    /\ \/ UNCHANGED <<num_items_, min_key_index_>>
       \/ min_key_index_ = -1 /\ num_items_' = 0 /\ min_key_index_' = 0
    /\ Goto(t, "sort")
    /\ UNCHANGED <<seen, processed, report, mutex_, arg, at>>

SortAndCopy(t) ==
    /\ pc[t] = "sort"
    /\ \E k \in ReportSize, p \in Bijection(Slot, Slot) :
          LET sorted == [i \in Slot |-> freq_array_[p[i]]]
          IN  /\ Descending(sorted)
              /\ freq_array_' = sorted
              /\ report' = [i \in 1 .. k |-> sorted[i - 1]]
    /\ Goto(t, "reset")
    /\ UNCHANGED <<num_items_, min_key_index_, seen, processed, reports, mutex_,
                   arg, at>>

Reset(t) ==
    /\ pc[t] = "reset"
    /\ num_items_' = 0
    /\ seen' = [key \in Key |-> 0]
    /\ processed' = 0
    /\ Goto(t, "idle")
    /\ UNCHANGED <<freq_array_, min_key_index_, reports, report, mutex_, arg, at>>

RaceNext ==
    \/ \E t \in Flusher :
          \/ Lock(t) \/ Unlock(t)
          \/ \E key \in Key : Search(t, key)
          \/ Count(t) \/ FillSlot(t) \/ Grow(t) \/ Replace(t) \/ FindMin(t)
    \/ \E t \in Reporter : ZeroMin(t) \/ SortAndCopy(t) \/ Reset(t)

RaceSpec == RaceInit /\ [][RaceNext]_raceVars

----------------------------------------------------------------------------

\* Types; no interleaving of ReportTopk with counting wraps a count below zero.
RaceTypeOK ==
    /\ freq_array_ \in [Slot -> Entry]
    /\ num_items_ \in Nat
    /\ min_key_index_ \in -1 .. M - 1
    /\ mutex_ \in Flusher \cup {NoThread}
    /\ pc \in [Thread -> {"idle", "next_record", "hit", "add", "grow", "evict",
                          "set_min", "sort", "reset"}]
    /\ arg \in [Flusher -> Key]
    /\ at \in [Flusher -> Nat]

(***************************************************************************)
(* However a report interleaves with a purge, no index that ProcessKey     *)
(* dereferences leaves freq_array_: not the slot it found or is to fill,   *)
(* and not min_key_index_, which is -1 at first.                           *)
(***************************************************************************)
IndexesInBounds ==
    /\ num_items_ <= M
    /\ \A t \in Flusher :
          /\ pc[t] \in {"hit", "add", "grow"} => at[t] \in Slot
          /\ pc[t] \in {"hit", "evict", "set_min"} => min_key_index_ \in Slot

AtRest == \A t \in Thread : pc[t] = "idle"

(***************************************************************************)
(* include/rocksdb/db.h: "A DB is safe for concurrent access from multiple *)
(* threads without any external synchronization."  Whatever calls ran      *)
(* concurrently, once they have returned min_key_index_ names the slot to  *)
(* evict and no key has two slots.                                         *)
(***************************************************************************)
SummaryAtRest == AtRest => MinIsArgmin /\ OneSlotPerKey /\ NeverUndercounts

\* mutex_ is enough for the threads that purge: as long as nobody has called
\* ReportTopk, their interleaving leaves the summary consistent.
LockedSummary == reports = 0 => SummaryAtRest
============================================================================
