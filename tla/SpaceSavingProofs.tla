------------------------- MODULE SpaceSavingProofs -------------------------
(***************************************************************************)
(* What the runs of MCSpaceSaving and MCSpaceSavingRace check for two or   *)
(* three slots, for every m_, set of keys, set of threads and length of    *)
(* the stream.                                                             *)
(*                                                                         *)
(* First the summary used by one thread: SpaceSaving. Then the summary     *)
(* under threads, SpaceSavingRace: no race indexes outside the array, and  *)
(* mutex_ is enough for the threads that purge.                            *)
(***************************************************************************)
EXTENDS SpaceSavingRace, WellFoundedInduction, TLAPS

\* Most leaves are for Zenon; those that need arithmetic name SMT.
USE Zenon

(***************************************************************************)
(* Every nonempty set of natural numbers has a least element, which Min    *)
(* chooses.                                                                *)
(***************************************************************************)
LEMMA MinProperty ==
    ASSUME NEW S, S \subseteq Nat, S # {}
    PROVE  Min(S) \in S /\ \A y \in S : Min(S) <= y
<1>1. \E x \in S : \A y \in S : ~(<<y, x>> \in OpToRel(<, Nat))
  BY NatLessThanWellFounded, WFMin
<1>2. PICK x \in S : \A y \in S : ~(<<y, x>> \in OpToRel(<, Nat))
  BY <1>1
<1>3. \A y \in S : x <= y
  <2> SUFFICES ASSUME NEW y \in S PROVE x <= y
    OBVIOUS
  <2>1. ~(<<y, x>> \in OpToRel(<, Nat))
    BY <1>2
  <2>2. ~(y < x)
    BY <2>1 DEF OpToRel
  <2> QED BY SMT, <2>2
<1> QED BY <1>3 DEF Min

(***************************************************************************)
(* SetMin returns a slot in use.  Either it is the old one and no slot has *)
(* a smaller count, or it has a smaller count than the old one.            *)
(***************************************************************************)
LEMMA SetMinProperty ==
    ASSUME NEW array \in [Slot -> Entry], NEW n \in 0 .. M, NEW min \in 0 .. n - 1
    PROVE  /\ SetMin(array, n, min) \in 0 .. n - 1
           /\ \/ /\ SetMin(array, n, min) = min
                 /\ \A i \in 0 .. n - 1 : array[min].count <= array[i].count
              \/ array[SetMin(array, n, min)].count < array[min].count
<1> DEFINE lower == {i \in 0 .. n - 1 : array[i].count < array[min].count}
<1>1. \A i \in 0 .. n - 1 : i \in Slot /\ array[i].count \in Nat
  BY SMT, MAssumption DEF Slot, Entry
<1>2. CASE lower = {}
  <2>1. SetMin(array, n, min) = min
    BY <1>2 DEF SetMin
  <2>2. \A i \in 0 .. n - 1 : array[min].count <= array[i].count
    BY SMT, <1>1, <1>2
  <2> QED BY <2>1, <2>2
<1>3. CASE lower # {}
  <2>1. SetMin(array, n, min) = Min(lower)
    BY <1>3 DEF SetMin
  <2>2. Min(lower) \in lower
    <3> lower \subseteq Nat
      BY SMT
    <3> HIDE DEF lower
    <3> QED BY <1>3, MinProperty
  <2> QED BY <2>1, <2>2
<1> QED BY <1>2, <1>3

(***************************************************************************)
(* What SetMin needs of the array when the count of the minimum has just   *)
(* gone up by one: a slot with a smaller count then has the old minimum's. *)
(* So the first smaller slot it meets is a smallest one.                   *)
(***************************************************************************)
LEMMA SetMinAfterIncrement ==
    ASSUME NEW array \in [Slot -> Entry], NEW n \in 0 .. M, NEW min \in 0 .. n - 1,
           \A i \in 0 .. n - 1 : array[min].count - 1 <= array[i].count
    PROVE  /\ SetMin(array, n, min) \in 0 .. n - 1
           /\ \A i \in 0 .. n - 1 :
                 array[SetMin(array, n, min)].count <= array[i].count
<1>1. \A i \in 0 .. n - 1 : i \in Slot /\ array[i].count \in Nat
  BY SMT, MAssumption DEF Slot, Entry
<1> DEFINE new == SetMin(array, n, min)
<1>2. /\ new \in 0 .. n - 1
      /\ \/ /\ new = min
            /\ \A i \in 0 .. n - 1 : array[min].count <= array[i].count
         \/ array[new].count < array[min].count
  BY SetMinProperty
<1> HIDE DEF new
<1>3. \A i \in 0 .. n - 1 : array[new].count <= array[i].count
  BY SMT, <1>1, <1>2
<1> QED BY <1>2, <1>3 DEF new

----------------------------------------------------------------------------

\* A slot in use holds a key that came at least once.
CountsPositive == \A i \in InUse : freq_array_[i].count >= 1

(***************************************************************************)
(* The inductive invariant.  MinIsArgmin is what makes Evict and SetMin    *)
(* right, CountsPositive makes a new slot the minimum, OneSlotPerKey lets  *)
(* a hit find the only count of its key, and the two bounds need each      *)
(* other's minimum.                                                        *)
(***************************************************************************)
IInv ==
    /\ TypeOK
    /\ MinIsArgmin
    /\ OneSlotPerKey
    /\ CountsPositive
    /\ NeverUndercounts
    /\ BoundedOvercount

(***************************************************************************)
(* A new summary satisfies the invariant: all slots are free and no key    *)
(* has come.                                                               *)
(***************************************************************************)
LEMMA InitInvariant == Init => IInv
<1> SUFFICES ASSUME Init PROVE IInv
  OBVIOUS
<1>1. TypeOK
  BY SMT, MAssumption, KeyAssumption, BoundAssumption DEF Init, TypeOK, Entry, Slot
<1>2. InUse = {} /\ num_items_ = 0
  BY SMT DEF Init, InUse
<1>3. NeverUndercounts
  BY SMT, <1>2, MAssumption DEF NeverUndercounts, Init
<1> QED
  BY SMT, <1>1, <1>2, <1>3 DEF IInv, MinIsArgmin, OneSlotPerKey, CountsPositive,
                          BoundedOvercount

----------------------------------------------------------------------------

(***************************************************************************)
(* The types after ProcessKey, given those of the fields its three         *)
(* branches compute, and what it does to the history of the stream.        *)
(***************************************************************************)
LEMMA ProcessKeyTypes ==
    ASSUME TypeOK, NEW key \in Key, ProcessKey(key),
           freq_array_' \in [Slot -> Entry], num_items_' \in 0 .. M,
           min_key_index_' \in 0 .. M - 1
    PROVE  /\ TypeOK'
           /\ seen'[key] = seen[key] + 1
           /\ \A other \in Key \ {key} : seen'[other] = seen[other]
<1>1. seen' \in [Key -> Nat] /\ seen'[key] = seen[key] + 1
      /\ \A other \in Key \ {key} : seen'[other] = seen[other]
  BY SMT DEF TypeOK, ProcessKey
<1>2. processed' \in 0 .. MaxStream
  BY SMT, BoundAssumption DEF TypeOK, ProcessKey
<1>3. min_key_index_' \in -1 .. M - 1
  BY SMT, MAssumption
<1>4. reports' \in 0 .. MaxReports /\ report' \in Seq(Entry)
  BY DEF TypeOK, ProcessKey
<1>5. TypeOK'
  BY SMTT(30), <1>1, <1>2, <1>3, <1>4 DEF TypeOK
<1> QED BY <1>1, <1>5

(***************************************************************************)
(* ProcessKey on a monitored key preserves the invariant.  The key has one *)
(* slot, so the test on the key of the minimum is a test on the slot, and  *)
(* SetMin runs exactly when the minimum went up.                           *)
(***************************************************************************)
LEMMA HitStep ==
    ASSUME IInv, NEW key \in Key, ProcessKey(key), Hit(key)
    PROVE  IInv'
<1> DEFINE h == Min(Holding(key))
<1>1. /\ h \in InUse /\ freq_array_[h].key = key
      /\ \A i \in InUse \ {h} : freq_array_[i].key # key
  <2>1. Holding(key) \subseteq Nat /\ Holding(key) # {}
    BY SMT DEF Hit, Holding, InUse, IInv, TypeOK
  <2>2. h \in Holding(key)
    BY <2>1, MinProperty
  <2> HIDE DEF h
  <2> QED BY <2>2 DEF Holding, IInv, OneSlotPerKey
<1> HIDE DEF h
<1>2. /\ num_items_ \in 1 .. M /\ InUse \subseteq Slot /\ InUse = 0 .. num_items_ - 1
      /\ InUse' = InUse /\ num_items_' = num_items_ /\ h \in Slot
      /\ min_key_index_ \in InUse
  BY SMTT(30), <1>1, MAssumption DEF Hit, InUse, Slot, IInv, TypeOK, MinIsArgmin
<1>3. /\ freq_array_' \in [Slot -> Entry]
      /\ freq_array_'[h].key = freq_array_[h].key
      /\ freq_array_'[h].count = freq_array_[h].count + 1
      /\ \A i \in Slot \ {h} : freq_array_'[i] = freq_array_[i]
      /\ \A i \in Slot : freq_array_'[i].key = freq_array_[i].key
  <2>1. freq_array_' = [freq_array_ EXCEPT ![h].count = @ + 1]
    BY DEF Hit, h
  <2>2. freq_array_ \in [Slot -> Entry]
    BY DEF IInv, TypeOK
  <2> QED BY SMT, <2>1, <2>2, <1>2 DEF Entry
<1>4. \A i \in Slot : freq_array_[i].count \in Nat /\ freq_array_'[i].count \in Nat
  BY <1>3 DEF IInv, TypeOK, Entry
<1>5. \A i \in InUse : freq_array_[min_key_index_].count <= freq_array_[i].count
  BY SMT, <1>2 DEF IInv, MinIsArgmin
<1>grow. \A i \in Slot : freq_array_[i].count <= freq_array_'[i].count
  BY SMT, <1>3, <1>4
<1>6. /\ min_key_index_' \in InUse
      /\ \A i \in InUse : freq_array_'[min_key_index_'].count <= freq_array_'[i].count
  <2>1. CASE h = min_key_index_
    <3>1. min_key_index_' = SetMin(freq_array_', num_items_, min_key_index_)
      BY <2>1, <1>1, <1>2, <1>3 DEF Hit
    <3>2. ASSUME NEW i \in 0 .. num_items_ - 1
          PROVE  freq_array_'[min_key_index_].count - 1 <= freq_array_'[i].count
      <4>1. i \in InUse /\ i \in Slot /\ min_key_index_ \in Slot
        BY <1>2
      <4>2. /\ freq_array_'[min_key_index_].count = freq_array_[min_key_index_].count + 1
            /\ freq_array_[min_key_index_].count <= freq_array_[i].count
        BY <2>1, <4>1, <1>3, <1>5
      <4>3. freq_array_[i].count <= freq_array_'[i].count
        BY <4>1, <1>grow
      <4>4. /\ freq_array_[min_key_index_].count \in Nat
            /\ freq_array_[i].count \in Nat /\ freq_array_'[i].count \in Nat
        BY <4>1, <1>4
      <4> QED BY SMT, <4>2, <4>3, <4>4
    <3> QED BY SMT, <3>1, <3>2, <1>2, <1>3, SetMinAfterIncrement
  <2>2. CASE h # min_key_index_
    <3>1. min_key_index_' = min_key_index_
      BY <2>2, <1>1, <1>2, <1>3 DEF Hit
    <3>2. freq_array_'[min_key_index_] = freq_array_[min_key_index_]
      BY <2>2, <1>2, <1>3
    <3>3. ASSUME NEW i \in InUse
          PROVE  freq_array_'[min_key_index_].count <= freq_array_'[i].count
      <4>1. i \in Slot /\ min_key_index_ \in Slot
        BY <1>2
      <4>2. /\ freq_array_[min_key_index_].count <= freq_array_[i].count
            /\ freq_array_[i].count <= freq_array_'[i].count
        BY <4>1, <1>5, <1>grow
      <4>3. /\ freq_array_[min_key_index_].count \in Nat
            /\ freq_array_[i].count \in Nat /\ freq_array_'[i].count \in Nat
        BY <4>1, <1>4
      <4> QED BY SMT, <3>2, <4>2, <4>3
    <3> QED BY <3>1, <3>3, <1>2
  <2> QED BY <2>1, <2>2
<1>7. freq_array_[min_key_index_].count <= freq_array_'[min_key_index_'].count
  <2> DEFINE new == min_key_index_'
  <2>1. new \in InUse /\ new \in Slot /\ min_key_index_ \in Slot
    BY <1>2, <1>6
  <2> HIDE DEF new
  <2>2. /\ freq_array_[min_key_index_].count <= freq_array_[new].count
        /\ freq_array_[new].count <= freq_array_'[new].count
    BY <2>1, <1>5, <1>grow
  <2>3. /\ freq_array_[min_key_index_].count \in Nat
        /\ freq_array_[new].count \in Nat /\ freq_array_'[new].count \in Nat
    BY <2>1, <1>4
  <2>4. freq_array_[min_key_index_].count <= freq_array_'[new].count
    BY SMT, <2>2, <2>3
  <2> QED BY <2>4 DEF new
<1>8. /\ TypeOK'
      /\ seen'[key] = seen[key] + 1
      /\ \A other \in Key \ {key} : seen'[other] = seen[other]
  <2>1. min_key_index_' \in 0 .. M - 1
    BY <1>2, <1>6 DEF Slot
  <2>2. TypeOK
    BY DEF IInv
  <2> QED BY SMT, <2>1, <2>2, <1>2, <1>3, ProcessKeyTypes
<1>9. MinIsArgmin'
  BY <1>2, <1>6 DEF MinIsArgmin
<1>10. OneSlotPerKey'
  BY SMT, <1>2, <1>3 DEF OneSlotPerKey, IInv
<1>11. CountsPositive'
  BY SMT, <1>2, <1>3, <1>4 DEF CountsPositive, IInv
<1>12. \A k \in Key : seen[k] \in Nat
  BY DEF IInv, TypeOK
<1>13. Monitored' = Monitored
  BY <1>2, <1>3 DEF Monitored
<1>14. \A i \in InUse : freq_array_[i].key \in Key
  BY <1>2 DEF IInv, TypeOK, Entry
<1>15. NeverUndercounts'
  <2>1. \A i \in InUse : seen'[freq_array_'[i].key] <= freq_array_'[i].count
    <3> SUFFICES ASSUME NEW i \in InUse
                 PROVE  seen'[freq_array_'[i].key] <= freq_array_'[i].count
      OBVIOUS
    <3>1. seen[freq_array_[i].key] <= freq_array_[i].count
      BY DEF IInv, NeverUndercounts
    <3>2. CASE i = h
      BY SMT, <3>1, <3>2, <1>1, <1>2, <1>3, <1>4, <1>8, <1>12
    <3>3. CASE i # h
      <4>1. /\ freq_array_'[i] = freq_array_[i]
            /\ freq_array_[i].key \in Key \ {key}
        BY <3>3, <1>1, <1>2, <1>3, <1>14
      <4> QED BY <4>1, <3>1, <1>8
    <3> QED BY <3>2, <3>3
  <2>2. ASSUME NEW k \in Key \ Monitored
        PROVE  IF num_items_' < M THEN seen'[k] = 0
               ELSE seen'[k] <= freq_array_'[min_key_index_'].count
    <3>1. k # key
      BY <1>1 DEF Monitored
    <3>2. IF num_items_ < M THEN seen[k] = 0
          ELSE seen[k] <= freq_array_[min_key_index_].count
      BY DEF IInv, NeverUndercounts
    <3>3. min_key_index_ \in Slot /\ min_key_index_' \in Slot
      BY <1>2, <1>6
    <3> QED BY SMTT(30), <3>1, <3>2, <3>3, <1>2, <1>4, <1>7, <1>8, <1>12
  <2> QED BY <2>1, <2>2, <1>2, <1>13 DEF NeverUndercounts
<1>16. BoundedOvercount'
  <2> SUFFICES ASSUME NEW i \in InUse
               PROVE  /\ freq_array_'[i].count <= seen'[freq_array_'[i].key]
                                            + freq_array_'[min_key_index_'].count
                      /\ num_items_' < M =>
                            freq_array_'[i].count = seen'[freq_array_'[i].key]
    BY <1>2 DEF BoundedOvercount
  <2>1. /\ freq_array_[i].count <= seen[freq_array_[i].key]
                                     + freq_array_[min_key_index_].count
        /\ num_items_ < M => freq_array_[i].count = seen[freq_array_[i].key]
    BY DEF IInv, BoundedOvercount
  <2>2. i \in Slot /\ min_key_index_ \in Slot /\ min_key_index_' \in Slot
    BY <1>2, <1>6
  <2>3. CASE i = h
    <3>1. /\ freq_array_'[i].count = freq_array_[i].count + 1
          /\ freq_array_'[i].key = key /\ freq_array_[i].key = key
      BY <2>3, <1>1, <1>2, <1>3
    <3>2. /\ seen'[freq_array_'[i].key] = seen[freq_array_[i].key] + 1
          /\ seen[freq_array_[i].key] \in Nat
      BY <3>1, <1>8, <1>12
    <3>3. /\ freq_array_[i].count \in Nat
          /\ freq_array_[min_key_index_].count \in Nat
          /\ freq_array_'[min_key_index_'].count \in Nat
      BY <2>2, <1>4
    <3>4. freq_array_'[i].count <= seen'[freq_array_'[i].key]
                                            + freq_array_'[min_key_index_'].count
      BY SMT, <3>1, <3>2, <3>3, <2>1, <1>7
    <3>5. num_items_' < M => freq_array_'[i].count = seen'[freq_array_'[i].key]
      BY <3>1, <3>2, <2>1, <1>2
    <3> QED BY <3>4, <3>5
  <2>4. CASE i # h
    <3>1. /\ freq_array_'[i] = freq_array_[i]
          /\ freq_array_[i].key \in Key \ {key}
      BY <2>4, <1>1, <1>2, <1>3, <1>14
    <3>2. /\ seen'[freq_array_'[i].key] = seen[freq_array_[i].key]
          /\ seen[freq_array_[i].key] \in Nat
      BY <3>1, <1>8, <1>12
    <3> QED BY SMTT(30), <3>1, <3>2, <2>1, <2>2, <1>2, <1>4, <1>7
  <2> QED BY <2>3, <2>4
<1> QED BY <1>8, <1>9, <1>10, <1>11, <1>15, <1>16 DEF IInv

(***************************************************************************)
(* ProcessKey on a new key preserves the invariant while a slot is free:   *)
(* the new slot has the smallest count there is, 1, and until the array is *)
(* full every count is exact.                                              *)
(***************************************************************************)
LEMMA AddStep ==
    ASSUME IInv, NEW key \in Key, ProcessKey(key), Add(key)
    PROVE  IInv'
<1>1. /\ num_items_ \in 0 .. M /\ num_items_ < M /\ num_items_' = num_items_ + 1
      /\ num_items_ \in Slot /\ num_items_' \in 0 .. M
      /\ InUse = 0 .. num_items_ - 1 /\ InUse \subseteq Slot
      /\ InUse' = InUse \cup {num_items_} /\ num_items_ \notin InUse
      /\ min_key_index_' = num_items_ /\ min_key_index_' \in 0 .. M - 1
  BY SMT, MAssumption DEF Add, InUse, Slot, IInv, TypeOK
<1>2. /\ freq_array_' \in [Slot -> Entry]
      /\ freq_array_'[num_items_] = [key |-> key, count |-> 1]
      /\ \A i \in InUse : freq_array_'[i] = freq_array_[i]
  BY SMTT(30), <1>1 DEF Add, Entry, IInv, TypeOK
<1>3. \A i \in Slot : freq_array_[i].count \in Nat /\ freq_array_[i].key \in Key
  BY DEF IInv, TypeOK, Entry
<1>4. \A i \in InUse : freq_array_[i].key # key
  BY DEF Add, Holding
<1>5. \A k \in Key : seen[k] \in Nat
  BY DEF IInv, TypeOK
<1>6. /\ TypeOK'
      /\ seen'[key] = seen[key] + 1
      /\ \A other \in Key \ {key} : seen'[other] = seen[other]
  <2>1. TypeOK
    BY DEF IInv
  <2> QED BY <2>1, <1>1, <1>2, ProcessKeyTypes
<1>7. seen[key] = 0
  <2>1. key \notin Monitored
    BY <1>4 DEF Monitored
  <2> QED BY <2>1, <1>1 DEF IInv, NeverUndercounts
<1>8. CountsPositive'
  BY SMT, <1>1, <1>2 DEF CountsPositive, IInv
<1>9. MinIsArgmin'
  <2>1. \A i \in InUse' : freq_array_'[num_items_].count <= freq_array_'[i].count
    BY SMT, <1>2, <1>8 DEF CountsPositive
  <2> QED BY <2>1, <1>1 DEF MinIsArgmin
<1>10. OneSlotPerKey'
  BY SMTT(30), <1>1, <1>2, <1>4 DEF OneSlotPerKey, IInv
<1>11. \A i \in InUse' : freq_array_'[i].count = seen'[freq_array_'[i].key]
  <2> SUFFICES ASSUME NEW i \in InUse'
               PROVE  freq_array_'[i].count = seen'[freq_array_'[i].key]
    OBVIOUS
  <2>1. CASE i = num_items_
    BY SMT, <2>1, <1>2, <1>6, <1>7
  <2>2. CASE i \in InUse
    <3>1. freq_array_[i].count = seen[freq_array_[i].key]
      BY <2>2, <1>1 DEF IInv, BoundedOvercount
    <3>2. freq_array_'[i] = freq_array_[i] /\ freq_array_[i].key \in Key \ {key}
      BY <2>2, <1>1, <1>2, <1>3, <1>4
    <3> QED BY <3>1, <3>2, <1>6
  <2> QED BY <2>1, <2>2, <1>1
<1>12. \A i \in InUse' : freq_array_'[i].count \in Nat
  BY SMT, <1>1, <1>2, <1>3
<1>13. NeverUndercounts'
  <2>1. \A k \in Key \ Monitored' : k \notin Monitored /\ k # key
    BY SMT, <1>1, <1>2 DEF Monitored
  <2>2. \A k \in Key \ Monitored' : seen'[k] = 0
    BY <2>1, <1>1, <1>6 DEF IInv, NeverUndercounts
  <2>3. freq_array_'[min_key_index_'].count = 1
    BY SMT, <1>1, <1>2
  <2> QED BY SMT, <2>2, <2>3, <1>11, <1>12 DEF NeverUndercounts
<1>14. BoundedOvercount'
  <2>1. freq_array_'[min_key_index_'].count = 1
    BY SMT, <1>1, <1>2
  <2> QED BY SMT, <2>1, <1>11, <1>12 DEF BoundedOvercount
<1> QED BY <1>6, <1>8, <1>9, <1>10, <1>13, <1>14 DEF IInv

(***************************************************************************)
(* ProcessKey on a new key preserves the invariant when the array is full: *)
(* the smallest count never decreases, so it still bounds what the evicted *)
(* key and every other unmonitored key had, and what any estimate is over  *)
(* by.                                                                     *)
(***************************************************************************)
LEMMA EvictStep ==
    ASSUME IInv, NEW key \in Key, ProcessKey(key), Evict(key)
    PROVE  IInv'
<1> DEFINE m == min_key_index_
           new == min_key_index_'
<1>1. /\ num_items_ = M /\ num_items_' = M /\ num_items_ > 0
      /\ InUse = Slot /\ InUse' = Slot /\ Slot = 0 .. M - 1 /\ m \in Slot
  BY SMT, MAssumption DEF Evict, InUse, Slot, IInv, TypeOK, MinIsArgmin
<1>2. \A i \in Slot : freq_array_[i].count \in Nat /\ freq_array_[i].key \in Key
  BY DEF IInv, TypeOK, Entry
<1>3. \A i \in Slot : freq_array_[m].count <= freq_array_[i].count
  BY <1>1 DEF IInv, MinIsArgmin
<1>4. /\ freq_array_' \in [Slot -> Entry]
      /\ freq_array_'[m] = [key |-> key, count |-> freq_array_[m].count + 1]
      /\ \A i \in Slot \ {m} : freq_array_'[i] = freq_array_[i]
  <2>1. freq_array_ \in [Slot -> Entry]
    BY DEF IInv, TypeOK
  <2>2. freq_array_[m].count + 1 \in Nat
    BY SMT, <1>1, <1>2
  <2>3. freq_array_' = [freq_array_ EXCEPT
                          ![m] = [key |-> key, count |-> freq_array_[m].count + 1]]
    BY DEF Evict
  <2> QED BY <2>1, <2>2, <2>3, <1>1 DEF Entry
<1>5. \A i \in Slot : /\ freq_array_'[i].count \in Nat
                      /\ freq_array_[m].count <= freq_array_'[i].count
  BY SMT, <1>1, <1>2, <1>3, <1>4
<1>6. new \in Slot /\ \A i \in Slot : freq_array_'[new].count <= freq_array_'[i].count
  <2>1. new = SetMin(freq_array_', M, m)
    BY <1>1 DEF Evict
  <2>2. freq_array_'[m].count = freq_array_[m].count + 1
    BY SMT, <1>4
  <2>3. \A i \in 0 .. M - 1 : freq_array_'[m].count - 1 <= freq_array_'[i].count
    BY SMT, <2>2, <1>1, <1>2, <1>5
  <2>4. M \in 0 .. M /\ m \in 0 .. M - 1
    BY SMT, <1>1, MAssumption
  <2> QED BY <2>1, <2>3, <2>4, <1>1, <1>4, SetMinAfterIncrement
<1> HIDE DEF m, new
<1>7. \A i \in Slot : freq_array_[i].key # key
  BY <1>1 DEF Evict, Holding
<1>8. \A k \in Key : seen[k] \in Nat
  BY DEF IInv, TypeOK
<1>9. /\ TypeOK'
      /\ seen'[key] = seen[key] + 1
      /\ \A other \in Key \ {key} : seen'[other] = seen[other]
  <2>1. min_key_index_' \in 0 .. M - 1 /\ num_items_' \in 0 .. M
    BY SMT, <1>1, <1>6, MAssumption DEF new
  <2>2. TypeOK
    BY DEF IInv
  <2> QED BY <2>1, <2>2, <1>4, ProcessKeyTypes
<1>10. seen[key] <= freq_array_[m].count
  <2>1. key \notin Monitored
    BY <1>1, <1>7 DEF Monitored
  <2> QED BY SMT, <2>1, <1>1, MAssumption DEF IInv, NeverUndercounts, m
<1>11. MinIsArgmin'
  BY <1>1, <1>6 DEF MinIsArgmin, new
<1>12. OneSlotPerKey'
  <2>1. \A i, j \in Slot : freq_array_[i].key = freq_array_[j].key => i = j
    BY <1>1 DEF IInv, OneSlotPerKey
  <2>2. freq_array_'[m].key = key
    BY SMT, <1>4
  <2>3. \A i, j \in Slot : freq_array_'[i].key = freq_array_'[j].key => i = j
    BY <2>1, <2>2, <1>4, <1>7
  <2> QED BY <2>3, <1>1 DEF OneSlotPerKey
<1>13. CountsPositive'
  <2>1. freq_array_[m].count >= 1
    BY <1>1 DEF IInv, CountsPositive
  <2>2. \A i \in Slot : freq_array_'[i].count >= 1
    BY SMT, <2>1, <1>1, <1>2, <1>5
  <2> QED BY <2>2, <1>1 DEF CountsPositive
<1>14. \A i \in Slot \ {m} : seen'[freq_array_'[i].key] = seen[freq_array_[i].key]
  BY <1>2, <1>4, <1>7, <1>9
<1>15. /\ freq_array_'[m].key = key /\ freq_array_'[m].count = freq_array_[m].count + 1
       /\ seen'[freq_array_'[m].key] = seen[key] + 1
  BY SMT, <1>4, <1>9
<1>16. NeverUndercounts'
  <2>1. \A i \in Slot : seen[freq_array_[i].key] <= freq_array_[i].count
    BY <1>1 DEF IInv, NeverUndercounts
  <2>2. \A i \in Slot : seen'[freq_array_'[i].key] <= freq_array_'[i].count
    <3>1. seen'[freq_array_'[m].key] <= freq_array_'[m].count
      BY SMT, <1>1, <1>2, <1>8, <1>10, <1>15
    <3>2. \A i \in Slot \ {m} : seen'[freq_array_'[i].key] <= freq_array_'[i].count
      BY <2>1, <1>4, <1>14
    <3> QED BY <3>1, <3>2
  <2>3. ASSUME NEW k \in Key \ Monitored'
        PROVE  seen'[k] <= freq_array_'[new].count
    <3>1. k # key /\ \A i \in Slot \ {m} : k # freq_array_[i].key
      BY <1>1, <1>4, <1>15 DEF Monitored
    <3>2. seen[k] <= freq_array_[m].count
      <4>1. CASE k = freq_array_[m].key
        BY <4>1, <2>1, <1>1
      <4>2. CASE k # freq_array_[m].key
        <5>1. k \notin Monitored
          BY <4>2, <3>1, <1>1 DEF Monitored
        <5> QED BY SMT, <5>1, <1>1, MAssumption DEF IInv, NeverUndercounts, m
      <4> QED BY <4>1, <4>2
    <3>3. seen'[k] = seen[k] /\ seen[k] \in Nat
      BY <3>1, <1>8, <1>9
    <3>4. /\ freq_array_[m].count <= freq_array_'[new].count
          /\ freq_array_[m].count \in Nat /\ freq_array_'[new].count \in Nat
      BY <1>1, <1>2, <1>5, <1>6
    <3> QED BY SMT, <3>2, <3>3, <3>4
  <2>4. ~(num_items_' < M)
    BY SMT, <1>1, MAssumption
  <2> QED BY <2>2, <2>3, <2>4, <1>1 DEF NeverUndercounts, new
<1>17. BoundedOvercount'
  <2>1. ~(num_items_' < M)
    BY SMT, <1>1, MAssumption
  <2>2. \A i \in Slot : freq_array_[i].count <= seen[freq_array_[i].key]
                                                 + freq_array_[m].count
    BY <1>1 DEF IInv, BoundedOvercount, m
  <2>3. /\ freq_array_[m].count <= freq_array_'[new].count
        /\ freq_array_[m].count \in Nat /\ freq_array_'[new].count \in Nat
    BY <1>1, <1>2, <1>5, <1>6
  <2>4. ASSUME NEW i \in Slot
        PROVE  freq_array_'[i].count <= seen'[freq_array_'[i].key]
                                          + freq_array_'[new].count
    <3>1. CASE i = m
      BY SMT, <3>1, <2>3, <1>8, <1>15
    <3>2. CASE i # m
      <4>1. /\ freq_array_'[i].count = freq_array_[i].count
            /\ seen'[freq_array_'[i].key] = seen[freq_array_[i].key]
            /\ seen[freq_array_[i].key] \in Nat /\ freq_array_[i].count \in Nat
        BY <3>2, <1>2, <1>4, <1>8, <1>14
      <4>2. freq_array_[i].count <= seen[freq_array_[i].key] + freq_array_[m].count
        BY <2>2
      <4> QED BY SMTT(30), <4>1, <4>2, <2>3
    <3> QED BY <3>1, <3>2
  <2> QED BY <2>1, <2>4, <1>1 DEF BoundedOvercount, new
<1> QED BY <1>9, <1>11, <1>12, <1>13, <1>16, <1>17 DEF IInv

(***************************************************************************)
(* ExtractTopK preserves the invariant: no slot is in use after its reset, *)
(* and what it sorts and returns are entries of the array.                 *)
(***************************************************************************)
LEMMA ExtractTopKStep ==
    ASSUME IInv, NEW k \in ReportSize, ExtractTopK(k)
    PROVE  IInv'
<1>1. TypeOK
  BY DEF IInv
<1>2. MinZeroed \in [Slot -> Entry]
  <2>1. ASSUME NEW i \in Slot
        PROVE  freq_array_[i] \in Entry /\ [freq_array_[i] EXCEPT !.count = 0] \in Entry
    BY SMTT(30), <1>1 DEF TypeOK, Entry
  <2> QED BY <2>1 DEF MinZeroed
<1>3. PICK p \in Bijection(Slot, Slot) :
         /\ freq_array_' = [i \in Slot |-> MinZeroed[p[i]]]
         /\ report' = [i \in 1 .. k |-> [j \in Slot |-> MinZeroed[p[j]]][i - 1]]
  BY DEF ExtractTopK
<1>4. p \in [Slot -> Slot]
  BY DEF Bijection, Injection
<1>5. freq_array_' \in [Slot -> Entry]
  BY <1>2, <1>3, <1>4
<1>6. k \in 0 .. M /\ \A i \in 1 .. k : i - 1 \in Slot
  BY SMT, ReportSizeAssumption, MAssumption DEF Slot
<1>7. report' \in Seq(Entry)
  <2>1. \A i \in 1 .. k : MinZeroed[p[i - 1]] \in Entry
    BY <1>2, <1>4, <1>6
  <2>2. report' = [i \in 1 .. k |-> MinZeroed[p[i - 1]]]
    BY <1>3, <1>6
  <2>3. k \in Nat
    BY SMT, <1>6, MAssumption
  <2> HIDE DEF Entry
  <2> QED BY SMT, <2>1, <2>2, <2>3
<1>8. num_items_' = 0 /\ InUse' = {}
  BY SMT DEF ExtractTopK, InUse
<1>9. min_key_index_' \in -1 .. M - 1
  BY SMT, <1>1, MAssumption DEF ExtractTopK, TypeOK
<1>10. /\ seen' = [key \in Key |-> 0] /\ processed' = 0
       /\ reports' \in 0 .. MaxReports
  BY SMT, <1>1, BoundAssumption DEF ExtractTopK, TypeOK
<1>11. TypeOK'
  <2>1. 0 \in 0 .. M /\ 0 \in 0 .. MaxStream /\ seen' \in [Key -> Nat]
    BY SMT, <1>10, MAssumption, BoundAssumption
  <2> QED BY <2>1, <1>5, <1>7, <1>8, <1>9, <1>10 DEF TypeOK, Slot, Entry
<1>12. NeverUndercounts'
  BY SMT, <1>8, <1>10, MAssumption DEF NeverUndercounts
<1> QED
  BY SMT, <1>8, <1>11, <1>12 DEF IInv, MinIsArgmin, OneSlotPerKey, CountsPositive,
                            BoundedOvercount

(***************************************************************************)
(* The invariant is inductive: every call of ProcessKey and ExtractTopK    *)
(* preserves it.                                                           *)
(***************************************************************************)
LEMMA NextInvariant == IInv /\ [Next]_vars => IInv'
<1> SUFFICES ASSUME IInv, [Next]_vars PROVE IInv'
  OBVIOUS
<1>1. ASSUME NEW key \in Key, ProcessKey(key) PROVE IInv'
  <2>1. CASE Hit(key)
    BY <1>1, <2>1, HitStep
  <2>2. CASE Add(key)
    BY <1>1, <2>2, AddStep
  <2>3. CASE Evict(key)
    BY <1>1, <2>3, EvictStep
  <2> QED BY <1>1, <2>1, <2>2, <2>3 DEF ProcessKey
<1>2. ASSUME NEW k \in ReportSize, ExtractTopK(k) PROVE IInv'
  BY SMTT(30), <1>2, ExtractTopKStep
<1>3. CASE UNCHANGED vars
  BY <1>3 DEF vars, IInv, TypeOK, MinIsArgmin, OneSlotPerKey, CountsPositive,
              NeverUndercounts, BoundedOvercount, InUse, Monitored
<1> QED BY <1>1, <1>2, <1>3 DEF Next

(***************************************************************************)
(* Every state the summary reaches satisfies the inductive invariant, for  *)
(* every m_, key set, report size and stream.                              *)
(***************************************************************************)
THEOREM InvariantHolds == Spec => []IInv
<1>1. Init => IInv
  BY InitInvariant
<1>2. IInv /\ [Next]_vars => IInv'
  BY NextInvariant
<1> QED BY <1>1, <1>2, PTL DEF Spec

(***************************************************************************)
(* No call of ProcessKey or ExtractTopK indexes the array outside its m_   *)
(* slots or leaves a field outside its type.                               *)
(***************************************************************************)
THEOREM TypesCorrect == Spec => []TypeOK
<1>1. IInv => TypeOK
  BY DEF IInv
<1> QED BY <1>1, InvariantHolds, PTL

(***************************************************************************)
(* SetMin, which returns at the first smaller count it meets, still keeps  *)
(* min_key_index_ at a slot with the smallest count.                       *)
(***************************************************************************)
THEOREM MinimumTracked == Spec => []MinIsArgmin
<1>1. IInv => MinIsArgmin
  BY DEF IInv
<1> QED BY <1>1, InvariantHolds, PTL

(***************************************************************************)
(* ProcessKey never spreads one key over two slots.                        *)
(***************************************************************************)
THEOREM KeysUnique == Spec => []OneSlotPerKey
<1>1. IInv => OneSlotPerKey
  BY DEF IInv
<1> QED BY <1>1, InvariantHolds, PTL

(***************************************************************************)
(* ProcessKey never undercounts a key, and a key without a slot came at    *)
(* most as often as the smallest count says.                               *)
(***************************************************************************)
THEOREM CountsNeverLow == Spec => []NeverUndercounts
<1>1. IInv => NeverUndercounts
  BY DEF IInv
<1> QED BY <1>1, InvariantHolds, PTL

(***************************************************************************)
(* The count a key inherits when ProcessKey evicts for it is too high by   *)
(* at most the smallest count, and counts are exact until the array is     *)
(* full.                                                                   *)
(***************************************************************************)
THEOREM CountsBounded == Spec => []BoundedOvercount
<1>1. IInv => BoundedOvercount
  BY DEF IInv
<1> QED BY <1>1, InvariantHolds, PTL

----------------------------------------------------------------------------

(***************************************************************************)
(* s lists the sums of the counts of the first 0, 1, ..., n slots.  A fold *)
(* over the slots would have to be unfolded by induction; a sequence of    *)
(* sums that is said to exist has not.                                     *)
(***************************************************************************)
SumsTo(array, n, s) ==
    /\ s \in [0 .. M -> Nat]
    /\ s[0] = 0
    /\ \A i \in 0 .. n - 1 : s[i + 1] = s[i] + array[i].count

(***************************************************************************)
(* The counts of n slots, none of them below `least`, add up to at least   *)
(* n times that.  A first place where the sum falls short is impossible:   *)
(* the slot in front of it would have too small a count.                   *)
(***************************************************************************)
LEMMA LeastTimesLength ==
    ASSUME NEW array \in [Slot -> Entry], NEW n \in 0 .. M, NEW s, SumsTo(array, n, s),
           NEW least \in Nat, \A i \in 0 .. n - 1 : least <= array[i].count
    PROVE  least * n <= s[n]
<1> DEFINE below == {i \in 0 .. n : ~(least * i <= s[i])}
<1>1. CASE below = {}
  <2>1. n \in 0 .. n /\ n \in Nat
    BY SMT, MAssumption
  <2> QED BY <1>1, <2>1
<1>2. CASE below # {}
  <2>1. below \subseteq Nat
    BY SMT
  <2> HIDE DEF below
  <2>2. PICK j \in below : \A i \in below : j <= i
    BY <1>2, <2>1, MinProperty
  <2>3. j \in 0 .. n /\ ~(least * j <= s[j])
    BY <2>2 DEF below
  <2>4. j # 0
    BY SMT, <2>3 DEF SumsTo
  <2> DEFINE i == j - 1
  <2>5. i \in 0 .. n - 1 /\ i \in 0 .. n /\ i < j /\ j = i + 1 /\ i \in Nat
    BY SMT, <2>3, <2>4, MAssumption
  <2> HIDE DEF i
  <2>6. i \notin below
    BY SMT, <2>2, <2>5, <2>1
  <2>7. least * i <= s[i]
    BY <2>5, <2>6 DEF below
  <2>8. s[j] = s[i] + array[i].count /\ s[i] \in Nat /\ array[i].count \in Nat
    BY SMT, <2>5, MAssumption DEF SumsTo, Slot, Entry
  <2>9. least * j = least * i + least /\ least * i \in Nat
    BY SMT, <2>5
  <2>10. least <= array[i].count
    BY <2>5
  <2> QED BY SMT, <2>3, <2>7, <2>8, <2>9, <2>10
<1> QED BY <1>1, <1>2

\* A monitored key came since the last report.
MonitoredCame == \A i \in InUse : seen[freq_array_[i].key] >= 1

\* Before the first report the slots not in use still hold the zeroes of Init.
FreeSlotsZero == reports = 0 => \A i \in Slot \ InUse : freq_array_[i].count = 0

\* The counts of the slots in use add up to the length of the stream.
CountsAccumulate ==
    \E s \in [0 .. M -> Nat] :
        SumsTo(freq_array_, num_items_, s) /\ s[num_items_] = processed

(***************************************************************************)
(* What ProcessKey and ExtractTopK keep of the stream, besides IInv.       *)
(***************************************************************************)
StreamInv == MonitoredCame /\ FreeSlotsZero /\ CountsAccumulate

(***************************************************************************)
(* A new summary has processed nothing and holds zeroes.                   *)
(***************************************************************************)
LEMMA StreamInit == Init => StreamInv
<1> SUFFICES ASSUME Init PROVE StreamInv
  OBVIOUS
<1> DEFINE s == [i \in 0 .. M |-> 0]
<1>1. InUse = {} /\ num_items_ = 0 /\ processed = 0
  BY SMT DEF Init, InUse
<1>2. s \in [0 .. M -> Nat] /\ s[0] = 0
  BY SMT, MAssumption
<1>3. CountsAccumulate
  BY <1>1, <1>2 DEF CountsAccumulate, SumsTo, InUse
<1>4. FreeSlotsZero
  BY DEF Init, FreeSlotsZero
<1> QED BY <1>1, <1>3, <1>4 DEF StreamInv, MonitoredCame

(***************************************************************************)
(* Where ProcessKey adds one to the count of one slot in use, the total    *)
(* goes up by one: the sums from that slot on do.                          *)
(***************************************************************************)
LEMMA IncrementAccumulates ==
    ASSUME TypeOK, CountsAccumulate, NEW h \in InUse,
           freq_array_'[h].count = freq_array_[h].count + 1,
           \A i \in Slot \ {h} : freq_array_'[i] = freq_array_[i],
           num_items_' = num_items_, processed' = processed + 1
    PROVE  CountsAccumulate'
<1>1. PICK s \in [0 .. M -> Nat] :
         SumsTo(freq_array_, num_items_, s) /\ s[num_items_] = processed
  BY DEF CountsAccumulate
<1> DEFINE t == [i \in 0 .. M |-> IF i > h THEN s[i] + 1 ELSE s[i]]
<1>2. num_items_ \in 0 .. M /\ h \in 0 .. num_items_ - 1 /\ h \in Slot
  BY SMT, MAssumption DEF TypeOK, InUse, Slot
<1>3. t \in [0 .. M -> Nat] /\ t[0] = 0 /\ t[num_items_] = processed + 1
  BY SMT, <1>1, <1>2, MAssumption DEF SumsTo
<1>4. ASSUME NEW i \in 0 .. num_items_ - 1
      PROVE  t[i + 1] = t[i] + freq_array_'[i].count
  <2>1. /\ i \in 0 .. M /\ i + 1 \in 0 .. M /\ i \in Slot
        /\ i \in Int /\ h \in Int
    BY SMTT(30), <1>2, MAssumption DEF Slot
  <2>2. /\ s[i + 1] = s[i] + freq_array_[i].count /\ s[i] \in Nat
        /\ freq_array_[i].count \in Nat
    BY <1>1, <2>1 DEF SumsTo, TypeOK, Entry
  <2>3. CASE i < h
    BY SMT, <2>1, <2>2, <2>3
  <2>4. CASE i = h
    BY SMT, <2>1, <2>2, <2>4
  <2>5. CASE i > h
    <3>1. freq_array_'[i] = freq_array_[i]
      BY SMT, <2>1, <2>5
    <3>2. t[i + 1] = s[i + 1] + 1 /\ t[i] = s[i] + 1
      BY SMT, <2>1, <2>5
    <3> QED BY SMT, <2>2, <3>1, <3>2
  <2> QED BY SMT, <2>1, <2>3, <2>4, <2>5
<1> HIDE DEF t
<1> QED BY <1>3, <1>4 DEF CountsAccumulate, SumsTo

(***************************************************************************)
(* Counting a monitored key keeps what is known of the stream.             *)
(***************************************************************************)
LEMMA StreamHit ==
    ASSUME IInv, StreamInv, NEW key \in Key, ProcessKey(key), Hit(key)
    PROVE  StreamInv'
<1> DEFINE h == Min(Holding(key))
<1>1. h \in InUse /\ freq_array_[h].key = key
  <2>1. Holding(key) \subseteq Nat /\ Holding(key) # {}
    BY SMT DEF Hit, Holding, InUse, IInv, TypeOK
  <2>2. h \in Holding(key)
    BY <2>1, MinProperty
  <2> HIDE DEF h
  <2> QED BY <2>2 DEF Holding
<1>2. /\ freq_array_' = [freq_array_ EXCEPT ![h].count = @ + 1]
      /\ freq_array_ \in [Slot -> Entry]
      /\ seen' = [seen EXCEPT ![key] = @ + 1] /\ seen \in [Key -> Nat]
      /\ processed' = processed + 1 /\ reports' = reports
      /\ num_items_' = num_items_ /\ InUse' = InUse
  BY DEF Hit, ProcessKey, IInv, TypeOK, InUse
<1> HIDE DEF h
<1>3. InUse \subseteq Slot /\ num_items_ \in 0 .. M /\ InUse = 0 .. num_items_ - 1
  BY SMT, MAssumption DEF IInv, TypeOK, InUse, Slot
<1>4. /\ freq_array_' \in [Slot -> Entry]
      /\ freq_array_'[h].count = freq_array_[h].count + 1
      /\ \A i \in Slot \ {h} : freq_array_'[i] = freq_array_[i]
      /\ \A i \in Slot : freq_array_'[i].key = freq_array_[i].key
  <2>1. freq_array_' = [freq_array_ EXCEPT ![h].count = @ + 1] /\ h \in Slot
    BY <1>1, <1>2, <1>3
  <2>2. freq_array_ \in [Slot -> Entry]
    BY <1>2
  <2> QED BY SMT, <2>1, <2>2 DEF Entry
<1>5. MonitoredCame'
  <2> SUFFICES ASSUME NEW i \in InUse PROVE seen'[freq_array_'[i].key] >= 1
    BY <1>2 DEF MonitoredCame
  <2>1. i \in Slot /\ freq_array_'[i].key = freq_array_[i].key
        /\ freq_array_[i].key \in Key
    BY <1>2, <1>3, <1>4 DEF Entry
  <2>2. seen[freq_array_[i].key] >= 1
    BY DEF StreamInv, MonitoredCame
  <2>3. CASE freq_array_[i].key = key
    BY SMT, <1>2, <2>1, <2>2, <2>3
  <2>4. CASE freq_array_[i].key # key
    BY <1>2, <2>1, <2>2, <2>4
  <2> QED BY <2>3, <2>4
<1>6. FreeSlotsZero'
  <2>1. \A i \in Slot \ InUse : freq_array_'[i] = freq_array_[i]
    BY <1>1, <1>4
  <2> QED BY <1>2, <2>1 DEF StreamInv, FreeSlotsZero
<1>7. CountsAccumulate'
  <2>1. TypeOK /\ CountsAccumulate
    BY DEF IInv, StreamInv
  <2> QED BY <2>1, <1>1, <1>2, <1>4, IncrementAccumulates
<1> QED BY <1>5, <1>6, <1>7 DEF StreamInv

(***************************************************************************)
(* So does giving a new key a free slot: its count of 1 is one more prefix *)
(* sum.                                                                    *)
(***************************************************************************)
LEMMA StreamAdd ==
    ASSUME IInv, StreamInv, NEW key \in Key, ProcessKey(key), Add(key)
    PROVE  StreamInv'
<1> DEFINE n == num_items_
<1>1. /\ freq_array_' = [freq_array_ EXCEPT ![n] = [key |-> key, count |-> 1]]
      /\ freq_array_ \in [Slot -> Entry]
      /\ seen' = [seen EXCEPT ![key] = @ + 1] /\ seen \in [Key -> Nat]
      /\ processed' = processed + 1 /\ reports' = reports
      /\ num_items_' = n + 1
  BY DEF Add, ProcessKey, IInv, TypeOK
<1>2. n \in 0 .. M /\ n \in Slot /\ InUse = 0 .. n - 1 /\ InUse' = InUse \cup {n}
      /\ InUse \subseteq Slot
  BY SMT, MAssumption DEF Add, IInv, TypeOK, InUse, Slot
<1>3. /\ freq_array_'[n] = [key |-> key, count |-> 1]
      /\ \A i \in Slot \ {n} : freq_array_'[i] = freq_array_[i]
  BY <1>1, <1>2
<1>4. MonitoredCame'
  <2> SUFFICES ASSUME NEW i \in InUse \cup {n} PROVE seen'[freq_array_'[i].key] >= 1
    BY <1>2 DEF MonitoredCame
  <2>1. CASE i = n
    BY SMT, <1>1, <1>3, <2>1
  <2>2. CASE i # n
    <3>1. freq_array_'[i] = freq_array_[i] /\ freq_array_[i].key \in Key
      BY <1>1, <1>2, <1>3, <2>2 DEF Entry
    <3>2. seen[freq_array_[i].key] >= 1
      BY <2>2 DEF StreamInv, MonitoredCame
    <3> QED BY SMT, <1>1, <3>1, <3>2
  <2> QED BY <2>1, <2>2
<1>5. FreeSlotsZero'
  BY <1>1, <1>2, <1>3 DEF StreamInv, FreeSlotsZero
<1>6. CountsAccumulate'
  <2>1. PICK s \in [0 .. M -> Nat] : SumsTo(freq_array_, n, s) /\ s[n] = processed
    BY DEF StreamInv, CountsAccumulate
  <2> DEFINE t == [s EXCEPT ![n + 1] = processed + 1]
  <2>2. n + 1 \in 0 .. M /\ n \in Int /\ processed \in Nat
    BY SMT, <1>2, MAssumption, BoundAssumption DEF Slot, IInv, TypeOK
  <2>3. t \in [0 .. M -> Nat] /\ t[0] = 0 /\ t[n + 1] = processed + 1
    BY SMT, <2>1, <2>2, <1>2 DEF SumsTo
  <2>4. ASSUME NEW i \in 0 .. n
        PROVE  t[i + 1] = t[i] + freq_array_'[i].count
    <3>1. CASE i = n
      BY SMT, <1>3, <2>1, <2>2, <3>1, <1>2
    <3>2. CASE i # n
      <4>1. /\ i \in 0 .. n - 1 /\ i \in 0 .. M /\ i + 1 \in 0 .. M
            /\ i + 1 # n + 1 /\ i # n + 1
        BY SMT, <1>2, <2>2, <3>2, MAssumption
      <4>2. freq_array_'[i] = freq_array_[i]
        BY <1>2, <1>3, <3>2, <4>1
      <4>3. s[i + 1] = s[i] + freq_array_[i].count
        BY <2>1, <4>1 DEF SumsTo
      <4> QED BY <2>1, <4>1, <4>2, <4>3
    <3> QED BY <3>1, <3>2
  <2> HIDE DEF t
  <2>5. 0 .. (n + 1) - 1 = 0 .. n
    BY SMT, <2>2
  <2> QED BY <1>1, <2>3, <2>4, <2>5 DEF CountsAccumulate, SumsTo
<1> QED BY <1>4, <1>5, <1>6 DEF StreamInv

(***************************************************************************)
(* So does evicting the minimum: the new key inherits its count, plus one. *)
(***************************************************************************)
LEMMA StreamEvict ==
    ASSUME IInv, StreamInv, NEW key \in Key, ProcessKey(key), Evict(key)
    PROVE  StreamInv'
<1> DEFINE m == min_key_index_
<1>1. /\ num_items_ = M /\ InUse = Slot /\ InUse' = Slot /\ num_items_' = num_items_
      /\ m \in Slot
  BY SMT, MAssumption DEF Evict, InUse, Slot, IInv, TypeOK, MinIsArgmin
<1>2. /\ freq_array_' = [freq_array_ EXCEPT
                           ![m] = [key |-> key, count |-> freq_array_[m].count + 1]]
      /\ freq_array_ \in [Slot -> Entry]
      /\ seen' = [seen EXCEPT ![key] = @ + 1] /\ seen \in [Key -> Nat]
      /\ processed' = processed + 1
  BY DEF Evict, ProcessKey, IInv, TypeOK
<1>3. /\ freq_array_'[m] = [key |-> key, count |-> freq_array_[m].count + 1]
      /\ \A i \in Slot \ {m} : freq_array_'[i] = freq_array_[i]
  BY <1>1, <1>2
<1>4. MonitoredCame'
  <2> SUFFICES ASSUME NEW i \in Slot PROVE seen'[freq_array_'[i].key] >= 1
    BY <1>1 DEF MonitoredCame
  <2>1. CASE i = m
    BY SMT, <1>2, <1>3, <2>1
  <2>2. CASE i # m
    <3>1. freq_array_'[i] = freq_array_[i] /\ freq_array_[i].key \in Key
      BY <1>2, <1>3, <2>2 DEF Entry
    <3>2. seen[freq_array_[i].key] >= 1
      BY <1>1 DEF StreamInv, MonitoredCame
    <3> QED BY SMT, <1>2, <3>1, <3>2
  <2> QED BY <2>1, <2>2
<1>5. FreeSlotsZero'
  BY <1>1 DEF FreeSlotsZero
<1>6. CountsAccumulate'
  <2>1. TypeOK /\ CountsAccumulate /\ m \in InUse
    BY <1>1 DEF IInv, StreamInv
  <2>2. freq_array_'[m].count = freq_array_[m].count + 1
    BY SMT, <1>3
  <2> QED BY <2>1, <2>2, <1>1, <1>2, <1>3, IncrementAccumulates
<1> QED BY <1>4, <1>5, <1>6 DEF StreamInv

(***************************************************************************)
(* ExtractTopK starts a new stream, and from then on slots not in use may  *)
(* hold what it left in them.                                              *)
(***************************************************************************)
LEMMA StreamExtract ==
    ASSUME IInv, StreamInv, NEW k \in ReportSize, ExtractTopK(k)
    PROVE  StreamInv'
<1>1. num_items_' = 0 /\ InUse' = {} /\ processed' = 0
  BY SMT DEF ExtractTopK, InUse
<1>2. reports' # 0
  BY SMT, BoundAssumption DEF ExtractTopK, IInv, TypeOK
<1> DEFINE s == [i \in 0 .. M |-> 0]
<1>3. s \in [0 .. M -> Nat] /\ s[0] = 0
  BY SMT, MAssumption
<1>4. \A i \in 0 .. 0 - 1 : s[i + 1] = s[i] + freq_array_'[i].count
  BY SMT
<1> HIDE DEF s
<1>5. CountsAccumulate'
  BY <1>1, <1>3, <1>4 DEF CountsAccumulate, SumsTo
<1> QED BY <1>1, <1>2, <1>5 DEF StreamInv, MonitoredCame, FreeSlotsZero

(***************************************************************************)
(* The facts about the stream are inductive relative to IInv.              *)
(***************************************************************************)
LEMMA StreamNext == IInv /\ StreamInv /\ [Next]_vars => StreamInv'
<1> SUFFICES ASSUME IInv, StreamInv, [Next]_vars PROVE StreamInv'
  OBVIOUS
<1>1. ASSUME NEW key \in Key, ProcessKey(key) PROVE StreamInv'
  BY <1>1, StreamHit, StreamAdd, StreamEvict DEF ProcessKey
<1>2. ASSUME NEW k \in ReportSize, ExtractTopK(k) PROVE StreamInv'
  BY <1>2, StreamExtract
<1>3. CASE UNCHANGED vars
  BY <1>3 DEF vars, StreamInv, MonitoredCame, FreeSlotsZero, CountsAccumulate, InUse,
              SumsTo
<1> QED BY <1>1, <1>2, <1>3 DEF Next

(***************************************************************************)
(* Every state the summary reaches satisfies the facts about the stream:   *)
(* ProcessKey adds one to the total of the counts, and only keys of the    *)
(* stream are monitored.                                                   *)
(***************************************************************************)
THEOREM StreamAccounted == Spec => []StreamInv
<1>1. Init => StreamInv
  BY StreamInit
<1>2. IInv /\ StreamInv /\ [Next]_vars => StreamInv'
  BY StreamNext
<1> QED BY <1>1, <1>2, InvariantHolds, PTL DEF Spec

(***************************************************************************)
(* In a full array the minimum that Evict would replace is at most one m_- *)
(* th of the stream.                                                       *)
(***************************************************************************)
LEMMA MinimumBelowAverage ==
    ASSUME IInv, StreamInv, num_items_ = M
    PROVE  /\ min_key_index_ \in Slot /\ freq_array_[min_key_index_].count \in Nat
           /\ freq_array_[min_key_index_].count * M <= processed
<1>1. /\ min_key_index_ \in Slot /\ freq_array_ \in [Slot -> Entry]
      /\ \A i \in 0 .. M - 1 : freq_array_[min_key_index_].count <= freq_array_[i].count
  BY SMT, MAssumption DEF IInv, TypeOK, MinIsArgmin, InUse, Slot
<1>2. freq_array_[min_key_index_].count \in Nat
  BY <1>1 DEF Entry
<1>3. PICK s \in [0 .. M -> Nat] : SumsTo(freq_array_, M, s) /\ s[M] = processed
  BY DEF StreamInv, CountsAccumulate
<1>4. M \in 0 .. M
  BY SMT, MAssumption
<1>5. freq_array_[min_key_index_].count * M <= s[M]
  BY <1>1, <1>2, <1>3, <1>4, LeastTimesLength
<1> QED BY <1>1, <1>2, <1>3, <1>5

(***************************************************************************)
(* A key without a slot came at most as often as the minimum says, so it   *)
(* made up at most one m_-th of the stream.                                *)
(***************************************************************************)
LEMMA FrequentMonitored == IInv /\ StreamInv => FrequentKeysMonitored
<1> SUFFICES ASSUME IInv, StreamInv, NEW key \in Key, seen[key] * M > processed,
                    key \notin Monitored
             PROVE  FALSE
  BY DEF FrequentKeysMonitored
<1>1. seen[key] \in Nat /\ processed \in Nat /\ num_items_ \in 0 .. M
  BY SMT, BoundAssumption DEF IInv, TypeOK
<1>2. CASE num_items_ < M
  <2>1. seen[key] = 0
    BY <1>2 DEF IInv, NeverUndercounts
  <2> QED BY SMT, <1>1, <2>1, MAssumption
<1>3. CASE num_items_ = M
  <2>1. seen[key] <= freq_array_[min_key_index_].count
    BY SMT, <1>3, MAssumption DEF IInv, NeverUndercounts
  <2> DEFINE c == freq_array_[min_key_index_].count
  <2>2. c \in Nat /\ c * M <= processed
    BY <1>3, MinimumBelowAverage
  <2> HIDE DEF c
  <2>3. seen[key] * M <= c * M
    BY SMT, <1>1, <2>1, <2>2, MAssumption DEF c
  <2> QED BY SMT, <1>1, <2>2, <2>3, MAssumption
<1> QED BY SMT, <1>1, <1>2, <1>3, MAssumption

(***************************************************************************)
(* What ExtractTopK returns: the first k entries of the array, its minimum *)
(* zeroed, in some order that descends.                                    *)
(***************************************************************************)
LEMMA ReportShape ==
    ASSUME IInv, NEW k \in ReportSize, ExtractTopK(k)
    PROVE  \E p \in Bijection(Slot, Slot) :
             /\ DOMAIN report' = 1 .. k /\ k \in 0 .. M
             /\ \A i \in 1 .. k : i - 1 \in Slot /\ report'[i] = MinZeroed[p[i - 1]]
             /\ \A i, j \in Slot : i < j => MinZeroed[p[i]].count >= MinZeroed[p[j]].count
<1>1. PICK p \in Bijection(Slot, Slot) :
         /\ Descending([i \in Slot |-> MinZeroed[p[i]]])
         /\ report' = [i \in 1 .. k |-> [j \in Slot |-> MinZeroed[p[j]]][i - 1]]
  BY DEF ExtractTopK
<1>2. k \in 0 .. M /\ \A i \in 1 .. k : i - 1 \in Slot
  BY SMT, ReportSizeAssumption, MAssumption DEF Slot
<1>3. DOMAIN report' = 1 .. k /\ \A i \in 1 .. k : report'[i] = MinZeroed[p[i - 1]]
  BY <1>1, <1>2
<1>4. \A i, j \in Slot : i < j => MinZeroed[p[i]].count >= MinZeroed[p[j]].count
  BY <1>1 DEF Descending
<1> QED BY <1>2, <1>3, <1>4

(***************************************************************************)
(* Without leftovers the slots with a positive count are in use, one per   *)
(* key, and the sort permutes them.                                        *)
(***************************************************************************)
LEMMA FreshStep == IInv /\ StreamInv /\ [Next]_vars => [FreshReport]_vars
<1> SUFFICES ASSUME IInv, StreamInv, Next, ReportTaken, NoLeftovers
             PROVE  FreshReport
  BY DEF FreshReport
<1>1. PICK k \in ReportSize : ExtractTopK(k)
  BY DEF Next, ProcessKey, ReportTaken
<1>2. PICK p \in Bijection(Slot, Slot) :
         /\ DOMAIN report' = 1 .. k
         /\ \A i \in 1 .. k : i - 1 \in Slot /\ report'[i] = MinZeroed[p[i - 1]]
  BY <1>1, ReportShape
<1>3. p \in [Slot -> Slot] /\ \A a, b \in Slot : p[a] = p[b] => a = b
  BY DEF Bijection, Injection, IsInjective
<1>4. k \in Int
  BY SMT, ReportSizeAssumption, MAssumption
<1>5. ASSUME NEW a \in Slot, MinZeroed[a].count > 0
      PROVE  MinZeroed[a] = freq_array_[a] /\ a \in InUse
  <2>1. freq_array_ \in [Slot -> Entry] /\ num_items_ \in 0 .. M
    BY DEF IInv, TypeOK
  <2>2. MinZeroed[a] = freq_array_[a]
    <3>1. CASE a = min_key_index_
      <4>1. MinZeroed[a].count = 0
        BY <2>1, <3>1 DEF MinZeroed, Entry
      <4> QED BY SMT, <4>1, <1>5
    <3>2. CASE a # min_key_index_
      BY <3>2 DEF MinZeroed
    <3> QED BY <3>1, <3>2
  <2>3. CASE reports = 0
    BY SMT, <1>5, <2>2, <2>3 DEF StreamInv, FreeSlotsZero
  <2>4. CASE num_items_ = M
    BY <2>2, <2>4 DEF InUse, Slot
  <2> QED BY <2>2, <2>3, <2>4 DEF NoLeftovers
<1> DEFINE listed == {i \in DOMAIN report' : report'[i].count > 0}
<1>6. ASSUME NEW i \in listed
      PROVE  /\ i \in 1 .. k /\ i - 1 \in Slot /\ p[i - 1] \in InUse
             /\ report'[i] = freq_array_[p[i - 1]]
  BY <1>2, <1>3, <1>5
<1>7. \A i \in listed : seen[report'[i].key] > 0
  <2> SUFFICES ASSUME NEW i \in listed PROVE seen[report'[i].key] > 0
    OBVIOUS
  <2>1. p[i - 1] \in InUse /\ report'[i] = freq_array_[p[i - 1]] /\ p[i - 1] \in Slot
    BY <1>6, <1>3
  <2>2. seen[freq_array_[p[i - 1]].key] >= 1
    BY <2>1 DEF StreamInv, MonitoredCame
  <2>3. seen[freq_array_[p[i - 1]].key] \in Nat
    BY <2>1 DEF IInv, TypeOK, Entry
  <2> QED BY SMT, <2>1, <2>2, <2>3
<1>8. \A i, j \in listed : report'[i].key = report'[j].key => i = j
  <2> SUFFICES ASSUME NEW i \in listed, NEW j \in listed,
                      report'[i].key = report'[j].key
               PROVE  i = j
    OBVIOUS
  <2>1. p[i - 1] = p[j - 1]
    BY SMT, <1>6 DEF IInv, OneSlotPerKey
  <2>2. i - 1 = j - 1
    BY <1>3, <1>6, <2>1
  <2> QED BY SMT, <1>4, <1>6, <2>2
<1> QED BY <1>7, <1>8 DEF FreshReport

(***************************************************************************)
(* A frequent key's slot is not the one ExtractTopK zeroes, since that     *)
(* one's count is at most one m_-th of the stream; the sort then either    *)
(* puts it among the first k or puts k higher counts in front of it.       *)
(***************************************************************************)
LEMMA FrequentStep == IInv /\ StreamInv /\ [Next]_vars => [FrequentKeysInReport]_vars
<1> SUFFICES ASSUME IInv, StreamInv, Next, ReportTaken, num_items_ = M,
                    NEW key \in Key, seen[key] * M > processed
             PROVE  \/ \E i \in DOMAIN report' : /\ report'[i].key = key
                                                 /\ report'[i].count >= seen[key]
                    \/ \A i \in DOMAIN report' : report'[i].count >= seen[key]
  BY DEF FrequentKeysInReport
<1>1. PICK k \in ReportSize : ExtractTopK(k)
  BY DEF Next, ProcessKey, ReportTaken
<1>2. PICK p \in Bijection(Slot, Slot) :
         /\ DOMAIN report' = 1 .. k /\ k \in 0 .. M
         /\ \A i \in 1 .. k : i - 1 \in Slot /\ report'[i] = MinZeroed[p[i - 1]]
         /\ \A i, j \in Slot : i < j => MinZeroed[p[i]].count >= MinZeroed[p[j]].count
  BY <1>1, ReportShape
<1>3. p \in [Slot -> Slot] /\ \A b \in Slot : \E a \in Slot : p[a] = b
  BY DEF Bijection, Surjection, Injection
<1>4. /\ freq_array_ \in [Slot -> Entry] /\ seen[key] \in Nat /\ processed \in Nat
      /\ \A i \in Slot : freq_array_[i].count \in Nat
  BY SMT, BoundAssumption DEF IInv, TypeOK, Entry
<1>5. key \in Monitored
  BY FrequentMonitored DEF FrequentKeysMonitored
<1>6. PICK a \in Slot : freq_array_[a].key = key
  BY <1>5 DEF Monitored, InUse, Slot
<1>7. seen[key] <= freq_array_[a].count
  BY <1>6 DEF IInv, NeverUndercounts, InUse, Slot
<1>8. a # min_key_index_
  <2> SUFFICES ASSUME a = min_key_index_ PROVE FALSE
    OBVIOUS
  <2> DEFINE c == freq_array_[min_key_index_].count
  <2>1. c \in Nat /\ c * M <= processed /\ seen[key] <= c
    BY <1>7, MinimumBelowAverage
  <2> HIDE DEF c
  <2>2. seen[key] * M <= c * M
    BY SMT, <1>4, <2>1, MAssumption
  <2> QED BY SMT, <1>4, <2>1, <2>2, MAssumption
<1>9. MinZeroed[a] = freq_array_[a]
  BY <1>8 DEF MinZeroed
<1>10. PICK q \in Slot : p[q] = a
  BY <1>3
<1>11. q \in Int /\ k \in Int
  BY SMT, <1>2, MAssumption DEF Slot
<1>12. CASE q < k
  <2>1. q + 1 \in 1 .. k /\ (q + 1) - 1 = q
    BY SMT, <1>11, <1>12 DEF Slot
  <2>2. report'[q + 1] = freq_array_[a]
    BY <2>1, <1>2, <1>9, <1>10
  <2> QED BY <2>1, <2>2, <1>2, <1>4, <1>6, <1>7
<1>13. CASE ~(q < k)
  <2> SUFFICES ASSUME NEW i \in 1 .. k PROVE report'[i].count >= seen[key]
    BY <1>2
  <2>1. i - 1 \in Slot /\ i - 1 < q /\ report'[i] = MinZeroed[p[i - 1]]
    BY SMT, <1>2, <1>11, <1>13
  <2>2. MinZeroed[p[i - 1]].count >= freq_array_[a].count
    BY <2>1, <1>2, <1>9, <1>10
  <2>3. MinZeroed[p[i - 1]].count \in Nat
    <3>1. p[i - 1] \in Slot
      BY <1>3, <2>1
    <3> QED BY <3>1, <1>4 DEF MinZeroed, Entry
  <2> QED BY SMT, <2>1, <2>2, <2>3, <1>4, <1>7
<1> QED BY <1>12, <1>13
(***************************************************************************)
(* What the summary is for: after any stream, ProcessKey monitors every    *)
(* key that made up more than one m_-th of it.                             *)
(***************************************************************************)
THEOREM FrequentKeysHaveSlots == Spec => []FrequentKeysMonitored
<1>1. IInv /\ StreamInv => FrequentKeysMonitored
  BY FrequentMonitored
<1> QED BY <1>1, InvariantHolds, StreamAccounted, PTL

(***************************************************************************)
(* A report that ExtractTopK takes with no leftovers in the array names no *)
(* key twice and only keys of this stream.                                 *)
(***************************************************************************)
THEOREM ReportsFresh == Spec => ReportIsFresh
<1>1. IInv /\ StreamInv /\ [Next]_vars => [FreshReport]_vars
  BY FreshStep
<1> QED BY <1>1, InvariantHolds, StreamAccounted, PTL DEF Spec, ReportIsFresh

(***************************************************************************)
(* ExtractTopK on a full array reports every frequent key, or only entries *)
(* with counts that are as high.                                           *)
(***************************************************************************)
THEOREM ReportsFrequent == Spec => FrequentKeysReported
<1>1. IInv /\ StreamInv /\ [Next]_vars => [FrequentKeysInReport]_vars
  BY FrequentStep
<1> QED BY <1>1, InvariantHolds, StreamAccounted, PTL DEF Spec, FrequentKeysReported

----------------------------------------------------------------------------
\* Where a thread that purges can be.
FlusherLabel == {"idle", "next_record", "hit", "add", "grow", "evict", "set_min"}

(***************************************************************************)
(* mutex_ excludes: the threads inside PurgeObsoleteFiles are the one that *)
(* holds it.                                                               *)
(***************************************************************************)
OneFlusher ==
    /\ \A t \in Flusher : pc[t] \in FlusherLabel /\ (mutex_ = t <=> pc[t] # "idle")
    /\ \A t \in Reporter : pc[t] \in {"idle", "sort", "reset"}

(***************************************************************************)
(* A report may reset num_items_ between the search that read it and the   *)
(* step that raises it, but nothing else moves it meanwhile; and           *)
(* min_key_index_ has left -1 once a slot is in use or filled.             *)
(***************************************************************************)
FillingInBounds ==
    /\ \A t \in Flusher :
          /\ pc[t] \in {"add", "grow"} => num_items_ <= at[t]
          /\ pc[t] = "grow" => min_key_index_ \in Slot
    /\ num_items_ > 0 => min_key_index_ \in Slot

(***************************************************************************)
(* The inductive invariant of the indexes.                                 *)
(***************************************************************************)
BInv == RaceTypeOK /\ IndexesInBounds /\ OneFlusher /\ FillingInBounds

(***************************************************************************)
(* SetMin returns a slot whatever a report has done to num_items_          *)
(* meanwhile.                                                              *)
(***************************************************************************)
LEMMA SetMinInBounds ==
    ASSUME NEW array \in [Slot -> Entry], NEW n \in 0 .. M, NEW min \in Slot
    PROVE  SetMin(array, n, min) \in Slot
<1> DEFINE lower == {i \in 0 .. n - 1 : array[i].count < array[min].count}
<1>1. lower \subseteq Nat /\ lower \subseteq Slot
  BY SMT, MAssumption DEF Slot
<1>2. SetMin(array, n, min) = IF lower = {} THEN min ELSE Min(lower)
  BY DEF SetMin
<1> HIDE DEF lower
<1>3. lower # {} => Min(lower) \in lower
  BY <1>1, MinProperty
<1> QED BY <1>1, <1>2, <1>3

(***************************************************************************)
(* A thread inside PurgeObsoleteFiles holds mutex_, and the others are     *)
(* outside.                                                                *)
(***************************************************************************)
LEMMA Alone ==
    ASSUME BInv, NEW t \in Flusher, pc[t] # "idle"
    PROVE  mutex_ = t /\ \A u \in Flusher \ {t} : pc[u] = "idle"
BY DEF BInv, OneFlusher

(***************************************************************************)
(* No thread has started: nothing is indexed.                              *)
(***************************************************************************)
LEMMA BoundsInit == RaceInit => BInv
<1> SUFFICES ASSUME RaceInit PROVE BInv
  OBVIOUS
<1>1. TypeOK /\ Init
  BY InitInvariant DEF RaceInit, IInv
<1>2. RaceTypeOK
  BY <1>1, KeyAssumption DEF RaceInit, Init, RaceTypeOK, TypeOK, Thread
<1>3. num_items_ = 0 /\ \A t \in Thread : pc[t] = "idle"
  BY <1>1 DEF RaceInit, Init
<1>4. IndexesInBounds /\ FillingInBounds
  BY SMT, <1>3, MAssumption DEF IndexesInBounds, FillingInBounds, Thread
<1>5. OneFlusher
  BY <1>3, ThreadAssumption DEF RaceInit, OneFlusher, FlusherLabel, Thread
<1> QED BY <1>2, <1>4, <1>5 DEF BInv

(***************************************************************************)
(* A step moves one thread.                                                *)
(***************************************************************************)
LEMMA GotoTypes ==
    ASSUME BInv, NEW t \in Thread,
           NEW label \in {"idle", "next_record", "hit", "add", "grow", "evict",
                          "set_min", "sort", "reset"},
           Goto(t, label)
    PROVE  /\ pc' \in [Thread -> {"idle", "next_record", "hit", "add", "grow", "evict",
                                  "set_min", "sort", "reset"}]
           /\ pc'[t] = label
           /\ \A u \in Thread \ {t} : pc'[u] = pc[u]
BY DEF BInv, RaceTypeOK, Goto

(***************************************************************************)
(* What a step of the thread that holds mutex_ has to keep: its own index, *)
(* the bound of num_items_ and the sign of min_key_index_.                 *)
(***************************************************************************)
LEMMA FlusherStep ==
    ASSUME BInv, NEW t \in Flusher, pc[t] # "idle",
           NEW label \in FlusherLabel \ {"idle"}, Goto(t, label),
           freq_array_' \in [Slot -> Entry], num_items_' \in 0 .. M,
           min_key_index_' \in -1 .. M - 1, num_items_' > 0 => min_key_index_' \in Slot,
           arg' \in [Flusher -> Key], at' \in [Flusher -> Nat], mutex_' = mutex_,
           label \in {"hit", "add", "grow"} => at'[t] \in Slot,
           label \in {"hit", "evict", "set_min", "grow"} => min_key_index_' \in Slot,
           label \in {"add", "grow"} => num_items_' <= at'[t]
    PROVE  BInv'
<1>1. mutex_ = t /\ \A u \in Flusher \ {t} : pc[u] = "idle"
  BY Alone
<1>2. t \in Thread /\ \A u \in Flusher : u \in Thread
  BY DEF Thread
<1>3. /\ pc' \in [Thread -> {"idle", "next_record", "hit", "add", "grow", "evict",
                             "set_min", "sort", "reset"}]
      /\ pc'[t] = label
      /\ \A u \in Thread \ {t} : pc'[u] = pc[u]
  BY <1>2, GotoTypes DEF FlusherLabel
<1>4. RaceTypeOK'
  BY SMT, <1>3, MAssumption DEF RaceTypeOK, BInv, Slot
<1>5. \A u \in Flusher \ {t} : pc'[u] = "idle"
  BY <1>1, <1>2, <1>3
<1>6. IndexesInBounds' /\ FillingInBounds'
  <2>1. num_items_' <= M
    BY SMT, MAssumption
  <2>2. ASSUME NEW u \in Flusher
        PROVE  /\ pc'[u] \in {"hit", "add", "grow"} => at'[u] \in Slot
               /\ pc'[u] \in {"hit", "evict", "set_min", "grow"} => min_key_index_' \in Slot
               /\ pc'[u] \in {"add", "grow"} => num_items_' <= at'[u]
    <3>1. CASE u = t
      BY <3>1, <1>3
    <3>2. CASE u # t
      BY SMT, <3>2, <1>5
    <3> QED BY <3>1, <3>2
  <2> QED BY <2>1, <2>2 DEF IndexesInBounds, FillingInBounds
<1>7. OneFlusher'
  <2>1. \A u \in Reporter : u \in Thread \ {t}
    BY ThreadAssumption DEF Thread
  <2> QED BY <1>1, <1>3, <1>5, <2>1 DEF OneFlusher, BInv, FlusherLabel
<1> QED BY <1>4, <1>6, <1>7 DEF BInv

(***************************************************************************)
(* Every access of ProcessKey keeps the indexes in bounds, with any number *)
(* of reports between two of them: a report only lowers num_items_.        *)
(***************************************************************************)
LEMMA BoundsFlusher ==
    ASSUME BInv, NEW t \in Flusher,
           \/ Unlock(t) \/ \E k \in Key : Search(t, k)
           \/ Count(t) \/ FillSlot(t) \/ Grow(t) \/ Replace(t) \/ FindMin(t)
    PROVE  BInv'
<1> USE DEF FlusherLabel
<1>1. /\ freq_array_ \in [Slot -> Entry] /\ num_items_ \in 0 .. M
      /\ min_key_index_ \in -1 .. M - 1
      /\ arg \in [Flusher -> Key] /\ at \in [Flusher -> Nat]
      /\ num_items_ > 0 => min_key_index_ \in Slot
      /\ pc[t] \in {"hit", "add", "grow"} => at[t] \in Slot
      /\ pc[t] \in {"hit", "evict", "set_min", "grow"} => min_key_index_ \in Slot
      /\ pc[t] \in {"add", "grow"} => num_items_ <= at[t]
  BY SMT, MAssumption DEF BInv, RaceTypeOK, IndexesInBounds, FillingInBounds
<1>2. CASE Unlock(t)
  <2>1. mutex_ = t /\ \A u \in Flusher \ {t} : pc[u] = "idle"
    BY <1>2, Alone DEF Unlock
  <2>2. pc' \in [Thread -> {"idle", "next_record", "hit", "add", "grow", "evict",
                            "set_min", "sort", "reset"}]
        /\ pc'[t] = "idle" /\ \A u \in Thread \ {t} : pc'[u] = pc[u]
    BY <1>2, GotoTypes DEF Unlock, Thread
  <2>3. RaceTypeOK'
    BY <1>2, <2>2 DEF Unlock, vars, BInv, RaceTypeOK
  <2>4. \A u \in Flusher : pc'[u] = "idle"
    BY <2>1, <2>2 DEF Thread
  <2>5. IndexesInBounds' /\ FillingInBounds'
    BY <1>2, <2>4 DEF Unlock, vars, BInv, IndexesInBounds, FillingInBounds
  <2>6. OneFlusher'
    <3>1. \A u \in Reporter : pc'[u] = pc[u]
      BY <2>2, ThreadAssumption DEF Thread
    <3>2. mutex_' = NoThread /\ NoThread \notin Flusher
      BY <1>2, ThreadAssumption DEF Unlock
    <3> QED BY <2>4, <3>1, <3>2 DEF OneFlusher, BInv
  <2> QED BY <2>3, <2>5, <2>6 DEF BInv
<1>3. ASSUME NEW k \in Key, Search(t, k)
      PROVE  BInv'
  <2>1. /\ pc[t] # "idle" /\ arg' \in [Flusher -> Key] /\ mutex_' = mutex_
        /\ UNCHANGED <<freq_array_, num_items_, min_key_index_>>
    BY <1>3, <1>1 DEF Search
  <2>2. CASE /\ Holding(k) # {}
             /\ at' = [at EXCEPT ![t] = Min(Holding(k))]
             /\ Goto(t, "hit")
    <3>1. Holding(k) \subseteq Nat /\ Holding(k) \subseteq Slot /\ num_items_ > 0
      BY SMT, <1>1, <2>2, MAssumption DEF Holding, InUse, Slot
    <3>2. Min(Holding(k)) \in Holding(k)
      BY <2>2, <3>1, MinProperty
    <3>3. at' \in [Flusher -> Nat] /\ at'[t] \in Slot
      BY <1>1, <2>2, <3>1, <3>2
    <3> QED BY <1>1, <2>1, <2>2, <3>1, <3>3, FlusherStep
  <2>3. CASE /\ num_items_ < M
             /\ at' = [at EXCEPT ![t] = num_items_]
             /\ Goto(t, "add")
    <3>1. at' \in [Flusher -> Nat] /\ at'[t] \in Slot /\ num_items_ <= at'[t]
      BY SMT, <1>1, <2>3, MAssumption DEF Slot
    <3> QED BY <1>1, <2>1, <2>3, <3>1, FlusherStep
  <2>4. CASE ~(num_items_ < M) /\ UNCHANGED at /\ Goto(t, "evict")
    <3>1. num_items_ > 0
      BY SMT, <1>1, <2>4, MAssumption
    <3> QED BY <1>1, <2>1, <2>4, <3>1, FlusherStep
  <2> QED BY <1>3, <2>2, <2>3, <2>4 DEF Search
<1>4. CASE Count(t)
  <2>1. freq_array_' \in [Slot -> Entry]
    <3>1. freq_array_' = [freq_array_ EXCEPT ![at[t]].count = @ + 1] /\ at[t] \in Slot
      BY <1>1, <1>4 DEF Count
    <3> QED BY SMT, <1>1, <3>1 DEF Entry
  <2>2. PICK label \in {"set_min", "next_record"} : Goto(t, label)
    BY <1>4 DEF Count
  <2>3. /\ pc[t] = "hit"
        /\ UNCHANGED <<num_items_, min_key_index_, mutex_, arg, at>>
    BY <1>4 DEF Count
  <2> QED BY <1>1, <2>1, <2>2, <2>3, FlusherStep
<1>5. CASE FillSlot(t)
  <2>1. /\ freq_array_' \in [Slot -> Entry]
        /\ pc[t] = "add" /\ Goto(t, "grow")
        /\ UNCHANGED <<num_items_, mutex_, arg, at>>
    BY <1>1, <1>5 DEF FillSlot, Entry
  <2>2. min_key_index_' = at[t] /\ at[t] \in Slot
    BY <1>1, <1>5 DEF FillSlot
  <2>3. min_key_index_' \in -1 .. M - 1
    BY SMT, <2>2, MAssumption DEF Slot
  <2> QED BY <1>1, <2>1, <2>2, <2>3, FlusherStep
<1>6. CASE Grow(t)
  <2>1. /\ pc[t] = "grow" /\ Goto(t, "next_record")
        /\ UNCHANGED <<freq_array_, min_key_index_, mutex_, arg, at>>
    BY <1>6 DEF Grow
  <2>2. num_items_' \in 0 .. M
    BY SMT, <1>1, <1>6, MAssumption DEF Grow, Slot
  <2> QED BY <1>1, <2>1, <2>2, FlusherStep
<1>7. CASE Replace(t)
  <2>1. /\ pc[t] = "evict" /\ Goto(t, "set_min")
        /\ UNCHANGED <<num_items_, min_key_index_, mutex_, arg, at>>
    BY <1>7 DEF Replace
  <2>2. freq_array_' \in [Slot -> Entry]
    <3>1. /\ freq_array_' = [freq_array_ EXCEPT ![min_key_index_] =
                               [key |-> arg[t], count |-> freq_array_[min_key_index_].count + 1]]
          /\ min_key_index_ \in Slot /\ arg[t] \in Key
      BY <1>1, <1>7 DEF Replace
    <3> QED BY SMT, <1>1, <3>1 DEF Entry
  <2> QED BY <1>1, <2>1, <2>2, FlusherStep
<1>8. CASE FindMin(t)
  <2>1. /\ pc[t] = "set_min" /\ Goto(t, "next_record")
        /\ UNCHANGED <<freq_array_, num_items_, mutex_, arg, at>>
    BY <1>8 DEF FindMin
  <2>2. min_key_index_' \in Slot
    BY <1>1, <1>8, SetMinInBounds DEF FindMin
  <2>3. min_key_index_' \in -1 .. M - 1
    BY SMT, <2>2, MAssumption DEF Slot
  <2> QED BY <1>1, <2>1, <2>2, <2>3, FlusherStep
<1> QED BY <1>2, <1>3, <1>4, <1>5, <1>6, <1>7, <1>8

(***************************************************************************)
(* Taking mutex_ touches no index.                                         *)
(***************************************************************************)
LEMMA BoundsLock ==
    ASSUME BInv, NEW t \in Flusher, Lock(t)
    PROVE  BInv'
<1>1. /\ pc' \in [Thread -> {"idle", "next_record", "hit", "add", "grow", "evict",
                             "set_min", "sort", "reset"}]
      /\ pc'[t] = "next_record" /\ \A u \in Thread \ {t} : pc'[u] = pc[u]
  BY SMTT(30), GotoTypes DEF Lock, Thread
<1>2. \A u \in Flusher \ {t} : pc'[u] = "idle" /\ u # mutex_'
  BY <1>1, ThreadAssumption DEF Lock, BInv, OneFlusher, Thread
<1>3. \A u \in Reporter : pc'[u] = pc[u]
  BY <1>1, ThreadAssumption DEF Thread
<1>4. RaceTypeOK'
  BY <1>1 DEF Lock, vars, BInv, RaceTypeOK
<1>5. IndexesInBounds' /\ FillingInBounds'
  BY <1>1, <1>2 DEF Lock, vars, BInv, IndexesInBounds, FillingInBounds
<1>6. OneFlusher'
  BY <1>1, <1>2, <1>3 DEF Lock, BInv, OneFlusher, FlusherLabel
<1> QED BY <1>4, <1>5, <1>6 DEF BInv

(***************************************************************************)
(* What a step of ExtractTopK may do to the indexes: num_items_ to 0, and  *)
(* min_key_index_ from -1 to 0.                                            *)
(***************************************************************************)
LEMMA ReporterStep ==
    ASSUME BInv, NEW t \in Reporter, NEW label \in {"idle", "sort", "reset"},
           Goto(t, label), freq_array_' \in [Slot -> Entry],
           UNCHANGED <<mutex_, arg, at>>,
           \/ UNCHANGED <<num_items_, min_key_index_>>
           \/ num_items_' = 0 /\ min_key_index_' = 0
           \/ num_items_' = 0 /\ min_key_index_' = min_key_index_
    PROVE  BInv'
<1>1. /\ pc' \in [Thread -> {"idle", "next_record", "hit", "add", "grow", "evict",
                             "set_min", "sort", "reset"}]
      /\ pc'[t] = label /\ \A u \in Thread \ {t} : pc'[u] = pc[u]
  BY SMTT(30), GotoTypes DEF Thread
<1>2. \A u \in Flusher : pc'[u] = pc[u]
  BY <1>1, ThreadAssumption DEF Thread
<1>3. OneFlusher'
  BY <1>1, <1>2 DEF BInv, OneFlusher, FlusherLabel, Thread
<1>4. 0 \in Slot /\ num_items_ \in Nat /\ num_items_ <= M /\ \A u \in Flusher : at[u] \in Nat
  BY SMT, MAssumption DEF Slot, BInv, RaceTypeOK, IndexesInBounds
<1>5. /\ num_items_' \in Nat /\ num_items_' <= M /\ num_items_' <= num_items_
      /\ min_key_index_' \in -1 .. M - 1
      /\ min_key_index_ \in Slot => min_key_index_' \in Slot
  BY SMT, <1>4, MAssumption DEF BInv, RaceTypeOK, Slot
<1>6. RaceTypeOK'
  BY <1>1, <1>5 DEF BInv, RaceTypeOK
<1>7. IndexesInBounds'
  BY <1>2, <1>5 DEF BInv, IndexesInBounds
<1>8. FillingInBounds'
  <2>1. ASSUME NEW u \in Flusher, pc'[u] \in {"add", "grow"} PROVE num_items_' <= at'[u]
    <3>1. num_items_ <= at[u]
      BY <1>2, <2>1 DEF BInv, FillingInBounds
    <3> QED BY SMT, <3>1, <1>4, <1>5
  <2>2. ASSUME num_items_' > 0 PROVE min_key_index_' \in Slot
    <3>1. num_items_ > 0
      BY SMT, <2>2, <1>4, <1>5
    <3> QED BY <3>1, <1>5 DEF BInv, FillingInBounds
  <2> QED BY <2>1, <2>2, <1>2, <1>5 DEF BInv, FillingInBounds
<1> QED BY <1>3, <1>6, <1>7, <1>8 DEF BInv

(***************************************************************************)
(* The three statements of ExtractTopK, without a lock, keep them in       *)
(* bounds.                                                                 *)
(***************************************************************************)
LEMMA BoundsReporter ==
    ASSUME BInv, NEW t \in Reporter, ZeroMin(t) \/ SortAndCopy(t) \/ Reset(t)
    PROVE  BInv'
<1>1. freq_array_ \in [Slot -> Entry]
  BY DEF BInv, RaceTypeOK
<1>2. CASE ZeroMin(t)
  <2>1. freq_array_' \in [Slot -> Entry]
    <3>1. ASSUME NEW i \in Slot
          PROVE  freq_array_[i] \in Entry /\ [freq_array_[i] EXCEPT !.count = 0] \in Entry
      BY SMTT(30), <1>1 DEF Entry
    <3> QED BY <1>2, <3>1 DEF ZeroMin, MinZeroed
  <2>2. /\ Goto(t, "sort") /\ UNCHANGED <<mutex_, arg, at>>
        /\ \/ UNCHANGED <<num_items_, min_key_index_>>
           \/ num_items_' = 0 /\ min_key_index_' = 0
    BY <1>2 DEF ZeroMin
  <2> QED BY <2>1, <2>2, ReporterStep
<1>3. CASE SortAndCopy(t)
  <2>1. PICK p \in Bijection(Slot, Slot) : freq_array_' = [i \in Slot |-> freq_array_[p[i]]]
    BY <1>3 DEF SortAndCopy
  <2>2. p \in [Slot -> Slot]
    BY DEF Bijection, Injection
  <2>3. freq_array_' \in [Slot -> Entry]
    BY <1>1, <2>1, <2>2
  <2>4. Goto(t, "reset") /\ UNCHANGED <<num_items_, min_key_index_, mutex_, arg, at>>
    BY <1>3 DEF SortAndCopy
  <2> QED BY <2>3, <2>4, ReporterStep
<1>4. CASE Reset(t)
  <2>1. /\ Goto(t, "idle") /\ num_items_' = 0
        /\ UNCHANGED <<freq_array_, min_key_index_, mutex_, arg, at>>
    BY <1>4 DEF Reset
  <2> QED BY <1>1, <2>1, ReporterStep
<1> QED BY <1>2, <1>3, <1>4

(***************************************************************************)
(* The bounds are inductive.                                               *)
(***************************************************************************)
LEMMA BoundsNext == BInv /\ [RaceNext]_raceVars => BInv'
<1> SUFFICES ASSUME BInv, [RaceNext]_raceVars PROVE BInv'
  OBVIOUS
<1>1. ASSUME NEW t \in Flusher, Lock(t) PROVE BInv'
  BY <1>1, BoundsLock
<1>2. ASSUME NEW t \in Flusher,
             \/ Unlock(t) \/ \E k \in Key : Search(t, k)
             \/ Count(t) \/ FillSlot(t) \/ Grow(t) \/ Replace(t) \/ FindMin(t)
      PROVE  BInv'
  BY <1>2, BoundsFlusher
<1>3. ASSUME NEW t \in Reporter, ZeroMin(t) \/ SortAndCopy(t) \/ Reset(t) PROVE BInv'
  BY <1>3, BoundsReporter
<1>4. CASE UNCHANGED raceVars
  BY <1>4 DEF raceVars, vars, BInv, RaceTypeOK, IndexesInBounds, OneFlusher, FillingInBounds
<1> QED BY <1>1, <1>2, <1>3, <1>4 DEF RaceNext

(***************************************************************************)
(* However PurgeObsoleteFiles and ReportTopk interleave, the bounds hold,  *)
(* for every m_ and every number of threads.                               *)
(***************************************************************************)
THEOREM BoundsHold == RaceSpec => []BInv
<1>1. RaceInit => BInv
  BY BoundsInit
<1>2. BInv /\ [RaceNext]_raceVars => BInv'
  BY BoundsNext
<1> QED BY <1>1, <1>2, PTL DEF RaceSpec

----------------------------------------------------------------------------

\* Where the thread that holds mutex_ is, and the key and slot it is about.
stage == IF mutex_ = NoThread THEN "idle" ELSE pc[mutex_]
itsKey == arg[mutex_]
itsSlot == at[mutex_]

(***************************************************************************)
(* NeverUndercounts for a history s of the stream, against every slot and  *)
(* not only the minimum.                                                   *)
(***************************************************************************)
Covers(s) ==
    /\ \A i \in InUse : s[freq_array_[i].key] <= freq_array_[i].count
    /\ \A k \in Key \ Monitored :
          IF num_items_ < M THEN s[k] = 0
                            ELSE \A i \in InUse : s[k] <= freq_array_[i].count

\* The stream without the key that a thread has read and not yet counted.
Counted == [seen EXCEPT ![itsKey] = @ - 1]

KeyPending == seen[itsKey] >= 1 /\ Covers(Counted)

(***************************************************************************)
(* The summary at each place of the thread that holds mutex_: consistent   *)
(* outside ProcessKey, and in between short of one key or with a minimum   *)
(* that is one too high.                                                   *)
(***************************************************************************)
StageInv ==
    /\ stage \in {"idle", "next_record"} => MinIsArgmin /\ Covers(seen)
    /\ stage = "hit" => /\ MinIsArgmin /\ KeyPending
                        /\ itsSlot \in InUse /\ freq_array_[itsSlot].key = itsKey
    /\ stage = "add" => /\ MinIsArgmin /\ KeyPending /\ itsKey \notin Monitored
                        /\ itsSlot = num_items_ /\ num_items_ < M
    /\ stage = "grow" => /\ KeyPending /\ itsKey \notin Monitored
                         /\ itsSlot = num_items_ /\ num_items_ < M
                         /\ min_key_index_ = num_items_
                         /\ freq_array_[num_items_] = [key |-> itsKey, count |-> 1]
    /\ stage = "evict" => /\ MinIsArgmin /\ KeyPending /\ itsKey \notin Monitored
                          /\ num_items_ = M
    /\ stage = "set_min" => /\ Covers(seen) /\ min_key_index_ \in InUse
                            /\ \A i \in InUse : freq_array_[min_key_index_].count - 1
                                                  <= freq_array_[i].count

\* What mutex_ protects as long as nobody reports.
LockedInv ==
    /\ \A t \in Reporter : pc[t] = "idle"
    /\ OneSlotPerKey /\ CountsPositive /\ StageInv

\* The inductive invariant of the summary, relative to BInv.
SInv ==
    /\ seen \in [Key -> Nat] /\ reports \in Nat
    /\ reports = 0 => LockedInv

(***************************************************************************)
(* The thread that takes a step inside the critical section is the one     *)
(* stage, itsKey and itsSlot are about.                                    *)
(***************************************************************************)
LEMMA StageNow ==
    ASSUME BInv, NEW t \in Flusher, pc[t] # "idle"
    PROVE  mutex_ = t /\ stage = pc[t] /\ itsKey = arg[t] /\ itsSlot = at[t]
BY Alone, ThreadAssumption DEF stage, itsKey, itsSlot

(***************************************************************************)
(* A step of the thread that holds mutex_ moves the stage and no reporter. *)
(***************************************************************************)
LEMMA StageNext ==
    ASSUME BInv, NEW t \in Flusher, mutex_' = t, NEW label \in FlusherLabel, Goto(t, label)
    PROVE  /\ stage' = label /\ itsKey' = arg'[t] /\ itsSlot' = at'[t]
           /\ \A r \in Reporter : pc'[r] = pc[r]
<1>1. t \in Thread /\ \A r \in Reporter : r \in Thread /\ r # t
  BY ThreadAssumption DEF Thread
<1>2. pc'[t] = label /\ \A r \in Reporter : pc'[r] = pc[r]
  BY <1>1 DEF Goto, BInv, RaceTypeOK
<1> QED BY <1>2, ThreadAssumption DEF stage, itsKey, itsSlot

(***************************************************************************)
(* The search keeps the summary as it was, with one key pending.           *)
(***************************************************************************)
LEMMA SearchStage ==
    ASSUME BInv, seen \in [Key -> Nat], LockedInv, NEW t \in Flusher, NEW k \in Key,
           Search(t, k)
    PROVE  LockedInv'
<1>1. /\ pc[t] = "next_record" /\ arg \in [Flusher -> Key] /\ arg'[t] = k
      /\ at \in [Flusher -> Nat]
      /\ UNCHANGED <<freq_array_, num_items_, min_key_index_, mutex_>>
      /\ seen' = [seen EXCEPT ![k] = @ + 1]
  BY DEF Search, BInv, RaceTypeOK
<1>2. InUse' = InUse /\ Monitored' = Monitored /\ num_items_ \in 0 .. M
  BY SMT, <1>1, MAssumption DEF InUse, Monitored, BInv, RaceTypeOK, IndexesInBounds
<1>3. mutex_' = t /\ stage = "next_record"
  BY <1>1, StageNow
<1>4. MinIsArgmin /\ Covers(seen) /\ OneSlotPerKey /\ CountsPositive
  BY <1>3 DEF LockedInv, StageInv
<1>5. MinIsArgmin' /\ OneSlotPerKey' /\ CountsPositive'
  BY <1>1, <1>2, <1>4 DEF MinIsArgmin, OneSlotPerKey, CountsPositive
<1>6. itsKey' = k
  BY <1>1, <1>3 DEF itsKey
<1>7. KeyPending'
  <2>1. seen'[k] >= 1 /\ [seen' EXCEPT ![k] = @ - 1] = seen
    <3> DEFINE f == [seen' EXCEPT ![k] = @ - 1]
    <3>1. seen' \in [Key -> Nat] /\ seen'[k] = seen[k] + 1 /\ seen[k] \in Nat
          /\ \A x \in Key \ {k} : seen'[x] = seen[x]
      BY SMT, <1>1
    <3>2. \A x \in Key : f[x] = seen[x]
      BY SMT, <3>1
    <3>3. f = [x \in Key |-> f[x]]
      BY <3>1
    <3> QED BY SMT, <3>1, <3>2, <3>3
  <2>2. Counted' = seen
    BY <2>1, <1>6 DEF Counted
  <2> QED BY <1>1, <1>2, <1>4, <1>6, <2>1, <2>2 DEF KeyPending, Covers
<1> DEFINE Rest == (\A r \in Reporter : pc[r] = "idle")
<1>8. Rest
  BY DEF LockedInv
<1>9. CASE /\ Holding(k) # {}
           /\ at' = [at EXCEPT ![t] = Min(Holding(k))]
           /\ Goto(t, "hit")
  <2>1. Holding(k) \subseteq Nat
    BY SMT, <1>2 DEF Holding, InUse
  <2>2. Min(Holding(k)) \in Holding(k)
    BY <1>9, <2>1, MinProperty
  <2>3. /\ stage' = "hit" /\ itsSlot' = Min(Holding(k)) /\ Rest'
    BY <1>1, <1>3, <1>8, <1>9, StageNext DEF FlusherLabel
  <2>4. itsSlot' \in InUse /\ freq_array_[itsSlot'].key = k
    BY <2>2, <2>3 DEF Holding
  <2> QED BY <1>1, <1>2, <1>5, <1>6, <1>7, <2>3, <2>4 DEF LockedInv, StageInv
<1>10. CASE /\ Holding(k) = {} /\ num_items_ < M
            /\ at' = [at EXCEPT ![t] = num_items_]
            /\ Goto(t, "add")
  <2>1. /\ stage' = "add" /\ itsSlot' = num_items_ /\ Rest'
    BY <1>1, <1>3, <1>8, <1>10, StageNext DEF FlusherLabel
  <2>2. k \notin Monitored
    BY <1>10 DEF Holding, Monitored
  <2> QED BY <1>1, <1>2, <1>5, <1>6, <1>7, <1>10, <2>1, <2>2 DEF LockedInv, StageInv
<1>11. CASE Holding(k) = {} /\ ~(num_items_ < M) /\ UNCHANGED at /\ Goto(t, "evict")
  <2>1. stage' = "evict" /\ Rest'
    BY <1>1, <1>3, <1>8, <1>11, StageNext DEF FlusherLabel
  <2>2. k \notin Monitored /\ num_items_ = M
    BY SMT, <1>2, <1>11, MAssumption DEF Holding, Monitored
  <2> QED BY <1>1, <1>2, <1>5, <1>6, <1>7, <2>1, <2>2 DEF LockedInv, StageInv
<1> QED BY <1>9, <1>10, <1>11 DEF Search

(***************************************************************************)
(* Types that the steps use.                                               *)
(***************************************************************************)
LEMMA LockedTypes ==
    ASSUME BInv, seen \in [Key -> Nat]
    PROVE  /\ freq_array_ \in [Slot -> Entry] /\ num_items_ \in 0 .. M
           /\ InUse \subseteq Slot /\ InUse = 0 .. num_items_ - 1
           /\ \A i \in Slot : freq_array_[i].count \in Nat /\ freq_array_[i].key \in Key
           /\ arg \in [Flusher -> Key]
BY SMT, MAssumption DEF BInv, RaceTypeOK, IndexesInBounds, InUse, Slot, Entry

(***************************************************************************)
(* A pending key came once more than the slots account for.                *)
(***************************************************************************)
LEMMA PendingCounts ==
    ASSUME seen \in [Key -> Nat], itsKey \in Key
    PROVE  /\ Counted[itsKey] = seen[itsKey] - 1
           /\ \A k \in Key \ {itsKey} : Counted[k] = seen[k]
BY DEF Counted

(***************************************************************************)
(* Counting the pending key; if its slot was the minimum, that is now at   *)
(* most one too high.                                                      *)
(***************************************************************************)
LEMMA CountStage ==
    ASSUME BInv, seen \in [Key -> Nat], LockedInv, NEW t \in Flusher, Count(t)
    PROVE  LockedInv'
<1> DEFINE h == at[t]  k == arg[t]  m == min_key_index_
<1>1. /\ pc[t] = "hit"
      /\ UNCHANGED <<num_items_, min_key_index_, seen, mutex_, arg, at>>
      /\ freq_array_' = [freq_array_ EXCEPT ![h].count = @ + 1]
      /\ Goto(t, IF k = freq_array_[m].key THEN "set_min" ELSE "next_record")
  BY DEF Count
<1>2. mutex_ = t /\ stage = "hit" /\ itsKey = k /\ itsSlot = h
  BY <1>1, StageNow
<1>3. /\ MinIsArgmin /\ KeyPending /\ h \in InUse /\ freq_array_[h].key = k
      /\ OneSlotPerKey /\ CountsPositive /\ \A r \in Reporter : pc[r] = "idle"
  BY <1>2 DEF LockedInv, StageInv
<1>4. /\ freq_array_ \in [Slot -> Entry] /\ num_items_ \in 0 .. M
      /\ InUse \subseteq Slot /\ InUse = 0 .. num_items_ - 1 /\ InUse' = InUse
      /\ k \in Key /\ h \in Slot
      /\ \A i \in Slot : freq_array_[i].count \in Nat /\ freq_array_[i].key \in Key
  BY <1>1, <1>3, LockedTypes DEF InUse
<1>5. m \in InUse /\ \A i \in InUse : freq_array_[m].count <= freq_array_[i].count
  <2>1. num_items_ > 0
    BY SMT, <1>3, <1>4
  <2> QED BY <1>3, <2>1 DEF MinIsArgmin
<1> HIDE DEF h, k, m
<1>6. /\ freq_array_'[h].count = freq_array_[h].count + 1
      /\ \A i \in Slot \ {h} : freq_array_'[i] = freq_array_[i]
      /\ \A i \in Slot : freq_array_'[i].key = freq_array_[i].key
      /\ freq_array_' \in [Slot -> Entry]
  <2>1. freq_array_' = [freq_array_ EXCEPT ![h].count = @ + 1] /\ h \in Slot
    BY <1>1, <1>4
  <2>2. freq_array_ \in [Slot -> Entry]
    BY <1>4
  <2> QED BY SMT, <2>1, <2>2 DEF Entry
<1>7. \A i \in Slot : /\ freq_array_'[i].count \in Nat
                      /\ freq_array_[i].count <= freq_array_'[i].count
  BY SMT, <1>4, <1>6
<1>8. Monitored' = Monitored
  BY SMTT(30), <1>4, <1>6 DEF Monitored
<1>9. OneSlotPerKey' /\ CountsPositive'
  <2>1. OneSlotPerKey'
    BY SMT, <1>3, <1>4, <1>6 DEF OneSlotPerKey
  <2>2. ASSUME NEW i \in InUse PROVE freq_array_'[i].count >= 1
    <3>1. i \in Slot /\ freq_array_[i].count >= 1
      BY <1>3, <1>4 DEF CountsPositive
    <3> QED BY SMT, <3>1, <1>4, <1>7
  <2> QED BY <2>1, <2>2, <1>4 DEF CountsPositive
<1>10. \A i \in InUse \ {h} : freq_array_[i].key # k
  BY <1>3 DEF OneSlotPerKey
<1>11. /\ Counted[k] = seen[k] - 1
       /\ \A x \in Key \ {k} : Counted[x] = seen[x]
  BY <1>2, <1>4, PendingCounts
<1>12. Covers(seen)'
  <2>1. ASSUME NEW i \in InUse PROVE seen[freq_array_'[i].key] <= freq_array_'[i].count
    <3>1. Counted[freq_array_[i].key] <= freq_array_[i].count /\ i \in Slot
      BY <1>3, <1>4 DEF KeyPending, Covers
    <3>2. CASE i = h
      BY SMT, <3>1, <3>2, <1>3, <1>4, <1>6, <1>11
    <3>3. CASE i # h
      BY SMT, <3>1, <3>3, <1>4, <1>6, <1>10, <1>11
    <3> QED BY <3>2, <3>3
  <2>2. ASSUME NEW x \in Key \ Monitored
        PROVE  /\ seen[x] = Counted[x]
               /\ num_items_ < M => seen[x] = 0
               /\ ~(num_items_ < M) => \A i \in InUse : seen[x] <= freq_array_[i].count
    <3>1. x # k
      BY <1>3 DEF Monitored
    <3> QED BY <3>1, <1>3, <1>11 DEF KeyPending, Covers
  <2>3. ASSUME NEW x \in Key \ Monitored, ~(num_items_ < M), NEW i \in InUse
        PROVE  seen[x] <= freq_array_'[i].count
    <3>1. seen[x] <= freq_array_[i].count /\ seen[x] \in Nat /\ i \in Slot
      BY <2>2, <2>3, <1>4
    <3> QED BY SMT, <3>1, <1>4, <1>7
  <2> QED BY <2>1, <2>2, <2>3, <1>1, <1>4, <1>8 DEF Covers
<1>13. CASE k = freq_array_[m].key
  <2>1. Goto(t, "set_min") /\ h = m
    BY <1>1, <1>5, <1>10, <1>13
  <2>2. stage' = "set_min" /\ \A r \in Reporter : pc'[r] = "idle"
    BY <1>1, <1>2, <1>3, <2>1, StageNext DEF FlusherLabel
  <2>3. ASSUME NEW i \in InUse PROVE freq_array_'[m].count - 1 <= freq_array_'[i].count
    <3>1. i \in Slot /\ m \in Slot /\ freq_array_'[m].count = freq_array_[m].count + 1
      BY <2>1, <1>4, <1>5, <1>6
    <3>2. freq_array_[m].count <= freq_array_[i].count
      BY <1>5
    <3> QED BY SMTT(30), <3>1, <3>2, <1>4, <1>7
  <2> QED BY <2>2, <2>3, <1>1, <1>4, <1>5, <1>9, <1>12 DEF LockedInv, StageInv, m
<1>14. CASE k # freq_array_[m].key
  <2>1. Goto(t, "next_record") /\ h # m
    BY <1>1, <1>3, <1>14
  <2>2. stage' = "next_record" /\ \A r \in Reporter : pc'[r] = "idle"
    BY <1>1, <1>2, <1>3, <2>1, StageNext DEF FlusherLabel
  <2>3. ASSUME NEW i \in InUse PROVE freq_array_'[m].count <= freq_array_'[i].count
    <3>1. i \in Slot /\ m \in Slot /\ freq_array_'[m] = freq_array_[m]
      BY <2>1, <1>4, <1>5, <1>6
    <3>2. freq_array_[m].count <= freq_array_[i].count
      BY <1>5
    <3> QED BY SMT, <3>1, <3>2, <1>4, <1>7
  <2>4. MinIsArgmin'
    BY <2>3, <1>1, <1>4, <1>5 DEF MinIsArgmin, m
  <2> QED BY <2>2, <2>4, <1>9, <1>12 DEF LockedInv, StageInv
<1> QED BY <1>13, <1>14

(***************************************************************************)
(* Filling the first free slot changes none in use.                        *)
(***************************************************************************)
LEMMA FillSlotStage ==
    ASSUME BInv, seen \in [Key -> Nat], LockedInv, NEW t \in Flusher, FillSlot(t)
    PROVE  LockedInv'
<1>1. /\ pc[t] = "add" /\ Goto(t, "grow") /\ min_key_index_' = at[t]
      /\ UNCHANGED <<num_items_, seen, mutex_, arg, at>>
      /\ freq_array_' = [freq_array_ EXCEPT ![at[t]] = [key |-> arg[t], count |-> 1]]
  BY DEF FillSlot
<1>2. mutex_ = t /\ stage = "add" /\ itsKey = arg[t] /\ itsSlot = at[t]
  BY <1>1, StageNow
<1>3. /\ KeyPending /\ itsKey \notin Monitored /\ at[t] = num_items_ /\ num_items_ < M
      /\ OneSlotPerKey /\ CountsPositive /\ \A r \in Reporter : pc[r] = "idle"
  BY <1>2 DEF LockedInv, StageInv
<1>4. /\ freq_array_ \in [Slot -> Entry] /\ num_items_ \in 0 .. M
      /\ InUse \subseteq Slot /\ InUse = 0 .. num_items_ - 1
  BY LockedTypes
<1>5. num_items_ \in Slot /\ num_items_ \notin InUse /\ InUse' = InUse
  BY SMT, <1>1, <1>3, <1>4, MAssumption DEF Slot, InUse
<1>6. /\ \A i \in InUse : freq_array_'[i] = freq_array_[i]
      /\ freq_array_'[num_items_] = [key |-> itsKey, count |-> 1]
  BY <1>1, <1>2, <1>3, <1>4, <1>5
<1>7. /\ stage' = "grow" /\ itsKey' = itsKey /\ itsSlot' = num_items_
      /\ \A r \in Reporter : pc'[r] = "idle"
  BY <1>1, <1>2, <1>3, StageNext DEF FlusherLabel
<1>8. Monitored' = Monitored
  BY <1>5, <1>6 DEF Monitored
<1>9. KeyPending'
  <2>1. Counted' = Counted
    BY <1>1, <1>7 DEF Counted
  <2> QED BY <2>1, <1>1, <1>3, <1>5, <1>6, <1>7, <1>8 DEF KeyPending, Covers
<1>10. OneSlotPerKey' /\ CountsPositive'
  <2>1. OneSlotPerKey'
    BY SMT, <1>3, <1>5, <1>6 DEF OneSlotPerKey
  <2>2. CountsPositive'
    BY <1>3, <1>5, <1>6 DEF CountsPositive
  <2> QED BY <2>1, <2>2
<1> QED BY <1>1, <1>3, <1>6, <1>7, <1>8, <1>9, <1>10 DEF LockedInv, StageInv

(***************************************************************************)
(* Taking the filled slot into use: a count of 1 is a smallest count.      *)
(***************************************************************************)
LEMMA GrowStage ==
    ASSUME BInv, seen \in [Key -> Nat], LockedInv, NEW t \in Flusher, Grow(t)
    PROVE  LockedInv'
<1> DEFINE n == num_items_
<1>1. /\ pc[t] = "grow" /\ Goto(t, "next_record") /\ num_items_' \in {n + 1, at[t] + 1}
      /\ UNCHANGED <<freq_array_, min_key_index_, seen, mutex_, arg, at>>
  BY DEF Grow
<1>2. mutex_ = t /\ stage = "grow" /\ itsKey = arg[t] /\ itsSlot = at[t]
  BY <1>1, StageNow
<1>3. /\ KeyPending /\ itsKey \notin Monitored /\ at[t] = n /\ n < M
      /\ min_key_index_ = n /\ freq_array_[n] = [key |-> itsKey, count |-> 1]
      /\ OneSlotPerKey /\ CountsPositive /\ \A r \in Reporter : pc[r] = "idle"
  BY <1>2 DEF LockedInv, StageInv
<1>4. /\ freq_array_ \in [Slot -> Entry] /\ n \in 0 .. M
      /\ InUse \subseteq Slot /\ InUse = 0 .. n - 1 /\ itsKey \in Key
      /\ \A i \in Slot : freq_array_[i].count \in Nat /\ freq_array_[i].key \in Key
  BY <1>2, LockedTypes
<1>5. /\ num_items_' = n + 1 /\ InUse' = InUse \cup {n} /\ n \notin InUse /\ n \in Slot
  BY SMT, <1>1, <1>3, <1>4, MAssumption DEF InUse, Slot
<1>6. stage' = "next_record" /\ \A r \in Reporter : pc'[r] = "idle"
  BY <1>1, <1>2, <1>3, StageNext DEF FlusherLabel
<1> HIDE DEF n
<1>7. \A i \in InUse : freq_array_[i].key # itsKey /\ freq_array_[i].count >= 1
  BY <1>3 DEF Monitored, CountsPositive
<1>8. OneSlotPerKey' /\ CountsPositive'
  <2>1. OneSlotPerKey'
    BY SMT, <1>1, <1>3, <1>5, <1>7 DEF OneSlotPerKey
  <2>2. CountsPositive'
    BY SMT, <1>1, <1>3, <1>5, <1>7 DEF CountsPositive
  <2> QED BY <2>1, <2>2
<1>9. MinIsArgmin'
  <2>1. \A i \in InUse \cup {n} : freq_array_[n].count <= freq_array_[i].count
    BY SMT, <1>3, <1>4, <1>7
  <2> QED BY <2>1, <1>1, <1>3, <1>5 DEF MinIsArgmin
<1>10. Counted[itsKey] = seen[itsKey] - 1
       /\ \A x \in Key \ {itsKey} : Counted[x] = seen[x]
  BY <1>4, PendingCounts
<1>11. \A x \in Key \ Monitored : Counted[x] = 0
  BY <1>3 DEF KeyPending, Covers, n
<1>12. Covers(seen)'
  <2>1. ASSUME NEW i \in InUse \cup {n}
        PROVE  seen[freq_array_[i].key] <= freq_array_[i].count
    <3>1. CASE i = n
      <4>1. seen[itsKey] = 1
        BY SMT, <1>3, <1>4, <1>10, <1>11
      <4> QED BY SMT, <3>1, <4>1, <1>3
    <3>2. CASE i # n
      <4>1. i \in InUse /\ freq_array_[i].key \in Key \ {itsKey}
        BY <3>2, <1>4, <1>7
      <4>2. Counted[freq_array_[i].key] <= freq_array_[i].count
        BY <4>1, <1>3 DEF KeyPending, Covers
      <4> QED BY <4>1, <4>2, <1>10
    <3> QED BY <3>1, <3>2
  <2>2. Monitored' = Monitored \cup {itsKey}
    BY SMT, <1>1, <1>3, <1>5 DEF Monitored
  <2>3. \A x \in Key \ Monitored' : seen[x] = 0
    BY <2>2, <1>10, <1>11
  <2>4. \A i \in InUse \cup {n} : 0 <= freq_array_[i].count
    BY SMT, <1>4, <1>5
  <2>5. \A i \in InUse' : seen'[freq_array_'[i].key] <= freq_array_'[i].count
    BY <2>1, <1>1, <1>5
  <2>6. \A x \in Key \ Monitored' :
           seen'[x] = 0 /\ \A i \in InUse' : seen'[x] <= freq_array_'[i].count
    BY <2>3, <2>4, <1>1, <1>5
  <2> QED BY <2>5, <2>6 DEF Covers
<1> QED BY <1>6, <1>8, <1>9, <1>12 DEF LockedInv, StageInv

(***************************************************************************)
(* Replacing the minimum: the evicted key came at most as often as any     *)
(* count that is left says.                                                *)
(***************************************************************************)
LEMMA ReplaceStage ==
    ASSUME BInv, seen \in [Key -> Nat], LockedInv, NEW t \in Flusher, Replace(t)
    PROVE  LockedInv'
<1> DEFINE m == min_key_index_
<1>1. /\ pc[t] = "evict" /\ Goto(t, "set_min")
      /\ UNCHANGED <<num_items_, min_key_index_, seen, mutex_, arg, at>>
      /\ freq_array_' = [freq_array_ EXCEPT
                           ![m] = [key |-> arg[t], count |-> freq_array_[m].count + 1]]
  BY DEF Replace
<1>2. mutex_ = t /\ stage = "evict" /\ itsKey = arg[t]
  BY <1>1, StageNow
<1>3. /\ MinIsArgmin /\ KeyPending /\ itsKey \notin Monitored /\ num_items_ = M
      /\ OneSlotPerKey /\ CountsPositive /\ \A r \in Reporter : pc[r] = "idle"
  BY <1>2 DEF LockedInv, StageInv
<1>4. /\ freq_array_ \in [Slot -> Entry] /\ InUse = Slot /\ InUse' = Slot /\ itsKey \in Key
      /\ \A i \in Slot : freq_array_[i].count \in Nat /\ freq_array_[i].key \in Key
  BY <1>1, <1>2, <1>3, LockedTypes DEF InUse, Slot
<1>5. m \in Slot /\ \A i \in Slot : freq_array_[m].count <= freq_array_[i].count
  BY SMT, <1>3, <1>4, MAssumption DEF MinIsArgmin
<1>6. stage' = "set_min" /\ \A r \in Reporter : pc'[r] = "idle"
  BY <1>1, <1>2, <1>3, StageNext DEF FlusherLabel
<1> HIDE DEF m
<1>7. /\ freq_array_'[m].key = itsKey /\ freq_array_'[m].count = freq_array_[m].count + 1
      /\ \A i \in Slot \ {m} : freq_array_'[i] = freq_array_[i]
  BY <1>1, <1>2, <1>4, <1>5
<1>8. \A i \in Slot : /\ freq_array_'[i].count \in Nat
                      /\ freq_array_[i].count <= freq_array_'[i].count
  BY SMT, <1>4, <1>5, <1>7
<1>9. \A i \in Slot : freq_array_[i].key # itsKey /\ freq_array_[i].count >= 1
  BY <1>3, <1>4 DEF Monitored, CountsPositive
<1>10. OneSlotPerKey' /\ CountsPositive'
  <2>1. OneSlotPerKey'
    BY SMT, <1>3, <1>4, <1>7, <1>9 DEF OneSlotPerKey
  <2>2. \A i \in Slot : freq_array_'[i].count >= 1
    BY SMT, <1>4, <1>8, <1>9
  <2> QED BY <2>1, <2>2, <1>4 DEF CountsPositive
<1>11. /\ Counted[itsKey] = seen[itsKey] - 1 /\ seen[itsKey] \in Nat
       /\ \A x \in Key \ {itsKey} : Counted[x] = seen[x] /\ seen[x] \in Nat
  BY <1>4, PendingCounts
<1>12. \A x \in Key \ Monitored : \A i \in Slot : Counted[x] <= freq_array_[i].count
  BY SMT, <1>3, <1>4, MAssumption DEF KeyPending, Covers
<1>13. \A i \in Slot : seen[freq_array_[i].key] <= freq_array_[i].count
  BY <1>3, <1>4, <1>9, <1>11 DEF KeyPending, Covers
<1>14. ASSUME NEW i \in Slot
       PROVE  seen[freq_array_'[i].key] <= freq_array_'[i].count
  <2>1. CASE i = m
    <3>1. Counted[itsKey] <= freq_array_[m].count
      BY <1>3, <1>4, <1>5, <1>12
    <3> QED BY SMT, <2>1, <3>1, <1>4, <1>5, <1>7, <1>11
  <2>2. CASE i # m
    BY <2>2, <1>7, <1>13
  <2> QED BY <2>1, <2>2
<1>15. ASSUME NEW x \in Key \ Monitored', NEW i \in Slot
       PROVE  seen[x] <= freq_array_'[i].count
  <2>1. x # itsKey
    BY <1>4, <1>5, <1>7 DEF Monitored
  <2>2. seen[x] <= freq_array_[i].count
    <3>1. CASE x = freq_array_[m].key
      <4>1. seen[x] <= freq_array_[m].count /\ freq_array_[m].count <= freq_array_[i].count
        BY <3>1, <1>5, <1>13
      <4> QED BY SMT, <4>1, <1>4, <1>5, <1>11, <2>1
    <3>2. CASE x # freq_array_[m].key
      <4>1. x \notin Monitored
        BY <3>2, <1>4, <1>7 DEF Monitored
      <4> QED BY <4>1, <2>1, <1>11, <1>12
    <3> QED BY <3>1, <3>2
  <2>3. seen[x] \in Nat
    BY <2>1, <1>11
  <2> QED BY SMT, <2>2, <2>3, <1>4, <1>8
<1>16. Covers(seen)'
  BY SMT, <1>1, <1>3, <1>4, <1>14, <1>15, MAssumption DEF Covers
<1>17. \A i \in Slot : freq_array_'[m].count - 1 <= freq_array_'[i].count
  <2> TAKE i \in Slot
  <2>1. freq_array_[m].count <= freq_array_[i].count
    BY <1>5
  <2> QED BY SMT, <2>1, <1>4, <1>5, <1>7, <1>8
<1> QED BY <1>1, <1>4, <1>5, <1>6, <1>10, <1>16, <1>17 DEF LockedInv, StageInv, m

(***************************************************************************)
(* SetMin mends a minimum that is one too high.                            *)
(***************************************************************************)
LEMMA FindMinStage ==
    ASSUME BInv, seen \in [Key -> Nat], LockedInv, NEW t \in Flusher, FindMin(t)
    PROVE  LockedInv'
<1>1. /\ pc[t] = "set_min" /\ Goto(t, "next_record")
      /\ UNCHANGED <<freq_array_, num_items_, seen, mutex_, arg, at>>
      /\ min_key_index_' = SetMin(freq_array_, num_items_, min_key_index_)
  BY DEF FindMin
<1>2. mutex_ = t /\ stage = "set_min"
  BY <1>1, StageNow
<1>3. /\ Covers(seen) /\ min_key_index_ \in InUse
      /\ \A i \in InUse : freq_array_[min_key_index_].count - 1 <= freq_array_[i].count
      /\ OneSlotPerKey /\ CountsPositive /\ \A r \in Reporter : pc[r] = "idle"
  BY <1>2 DEF LockedInv, StageInv
<1>4. /\ freq_array_ \in [Slot -> Entry] /\ num_items_ \in 0 .. M
      /\ InUse = 0 .. num_items_ - 1 /\ InUse' = InUse /\ Monitored' = Monitored
  BY <1>1, LockedTypes DEF InUse, Monitored
<1>5. /\ min_key_index_' \in InUse
      /\ \A i \in InUse : freq_array_[min_key_index_'].count <= freq_array_[i].count
  BY <1>1, <1>3, <1>4, SetMinAfterIncrement
<1>6. MinIsArgmin'
  BY <1>1, <1>4, <1>5 DEF MinIsArgmin
<1>7. stage' = "next_record" /\ \A r \in Reporter : pc'[r] = "idle"
  BY <1>1, <1>2, <1>3, StageNext DEF FlusherLabel
<1>8. Covers(seen)' /\ OneSlotPerKey' /\ CountsPositive'
  BY <1>1, <1>3, <1>4 DEF Covers, OneSlotPerKey, CountsPositive
<1> QED BY <1>6, <1>7, <1>8 DEF LockedInv, StageInv

(***************************************************************************)
(* Taking and releasing mutex_ leaves the summary alone.                   *)
(***************************************************************************)
LEMMA LockStage ==
    ASSUME BInv, LockedInv, NEW t \in Flusher, Lock(t) \/ Unlock(t)
    PROVE  LockedInv'
<1>1. UNCHANGED vars
  BY DEF Lock, Unlock
<1>2. stage \in {"idle", "next_record"} /\ stage' \in {"idle", "next_record"}
      /\ \A r \in Reporter : pc'[r] = pc[r]
  <2>1. CASE Lock(t)
    BY <2>1, ThreadAssumption, StageNext DEF Lock, stage, FlusherLabel
  <2>2. CASE Unlock(t)
    <3>1. stage = "next_record"
      BY <2>2, StageNow DEF Unlock
    <3>2. stage' = "idle"
      BY <2>2 DEF Unlock, stage
    <3>3. \A r \in Reporter : r # t
      BY ThreadAssumption
    <3> QED BY <2>2, <3>1, <3>2, <3>3 DEF Unlock, Goto, BInv, RaceTypeOK, Thread
  <2> QED BY <2>1, <2>2
<1>3. MinIsArgmin /\ Covers(seen)
  BY <1>2 DEF LockedInv, StageInv
<1>4. InUse' = InUse /\ Monitored' = Monitored
  BY <1>1 DEF vars, InUse, Monitored
<1>5. MinIsArgmin' /\ Covers(seen)'
  BY <1>1, <1>3, <1>4 DEF vars, MinIsArgmin, Covers
<1>6. OneSlotPerKey' /\ CountsPositive'
  BY <1>1, <1>4 DEF vars, LockedInv, OneSlotPerKey, CountsPositive
<1> QED BY <1>2, <1>5, <1>6 DEF LockedInv, StageInv

(***************************************************************************)
(* A new summary, with no thread inside.                                   *)
(***************************************************************************)
LEMMA StageInit == RaceInit => SInv
<1> SUFFICES ASSUME RaceInit PROVE SInv
  OBVIOUS
<1>1. num_items_ = 0 /\ InUse = {} /\ stage = "idle" /\ seen = [k \in Key |-> 0]
      /\ reports = 0 /\ \A t \in Reporter : pc[t] = "idle"
  BY SMT DEF RaceInit, Init, InUse, stage, Thread
<1>2. MinIsArgmin /\ OneSlotPerKey /\ CountsPositive
  BY SMT, <1>1 DEF MinIsArgmin, OneSlotPerKey, CountsPositive
<1>3. Covers(seen)
  BY <1>1, MAssumption DEF Covers
<1>4. StageInv
  BY <1>1, <1>2, <1>3 DEF StageInv
<1>5. LockedInv
  BY <1>1, <1>2, <1>4 DEF LockedInv
<1>6. seen \in [Key -> Nat] /\ reports \in Nat
  BY <1>1
<1> QED BY <1>5, <1>6 DEF SInv

(***************************************************************************)
(* The stages follow each other as long as nobody has called ReportTopk.   *)
(***************************************************************************)
LEMMA StageStep == BInv /\ SInv /\ [RaceNext]_raceVars => SInv'
<1> SUFFICES ASSUME BInv, SInv, [RaceNext]_raceVars PROVE SInv'
  OBVIOUS
<1>1. seen \in [Key -> Nat] /\ reports \in Nat /\ (reports = 0 => LockedInv)
  BY DEF SInv
<1>2. ASSUME NEW t \in Flusher, Lock(t) \/ Unlock(t) PROVE SInv'
  <2>1. UNCHANGED <<seen, reports>>
    BY <1>2 DEF Lock, Unlock, vars
  <2> QED BY <2>1, <1>1, <1>2, LockStage DEF SInv
<1>3. ASSUME NEW t \in Flusher, NEW k \in Key, Search(t, k) PROVE SInv'
  <2>1. seen' \in [Key -> Nat] /\ reports' = reports
    BY SMT, <1>1, <1>3 DEF Search
  <2> QED BY <2>1, <1>1, <1>3, SearchStage DEF SInv
<1>4. ASSUME NEW t \in Flusher,
             Count(t) \/ FillSlot(t) \/ Grow(t) \/ Replace(t) \/ FindMin(t)
      PROVE  SInv'
  <2>1. UNCHANGED <<seen, reports>>
    BY <1>4 DEF Count, FillSlot, Grow, Replace, FindMin
  <2>2. reports = 0 => LockedInv'
    BY <1>1, <1>4, CountStage, FillSlotStage, GrowStage, ReplaceStage, FindMinStage
  <2> QED BY <2>1, <2>2, <1>1 DEF SInv
<1>5. ASSUME NEW t \in Reporter, ZeroMin(t) PROVE SInv'
  BY SMT, <1>1, <1>5 DEF ZeroMin, SInv
<1>6. ASSUME NEW t \in Reporter, SortAndCopy(t) \/ Reset(t) PROVE SInv'
  <2>1. reports # 0
    BY <1>1, <1>6 DEF SortAndCopy, Reset, LockedInv
  <2>2. reports' = reports /\ seen' \in [Key -> Nat]
    BY SMT, <1>1, <1>6 DEF SortAndCopy, Reset
  <2> QED BY <2>1, <2>2, <1>1 DEF SInv
<1>7. CASE UNCHANGED raceVars
  <2>1. UNCHANGED <<InUse, Monitored, stage, itsKey, itsSlot, Counted>>
    BY <1>7 DEF raceVars, vars, InUse, Monitored, stage, itsKey, itsSlot, Counted
  <2>2. /\ StageInv' = StageInv /\ OneSlotPerKey' = OneSlotPerKey
        /\ CountsPositive' = CountsPositive
    BY <1>7, <2>1 DEF raceVars, vars, StageInv, KeyPending, Covers, MinIsArgmin,
                             OneSlotPerKey, CountsPositive
  <2> QED BY <1>1, <1>7, <2>2 DEF raceVars, vars, SInv, LockedInv
<1> QED BY <1>2, <1>3, <1>4, <1>5, <1>6, <1>7 DEF RaceNext

(***************************************************************************)
(* As long as nobody has called ReportTopk, the summary is what the place  *)
(* of the thread that holds mutex_ says, for every m_ and every number of  *)
(* purging threads.                                                        *)
(***************************************************************************)
THEOREM LockedInvariant == RaceSpec => []SInv
<1>1. RaceInit => SInv
  BY StageInit
<1>2. BInv /\ SInv /\ [RaceNext]_raceVars => SInv'
  BY StageStep
<1> QED BY <1>1, <1>2, BoundsHold, PTL DEF RaceSpec

(***************************************************************************)
(* No interleaving of ReportTopk and PurgeObsoleteFiles leaves a field     *)
(* outside its type; in particular no count wraps below zero.              *)
(***************************************************************************)
THEOREM RaceTypesCorrect == RaceSpec => []RaceTypeOK
<1>1. BInv => RaceTypeOK
  BY DEF BInv
<1> QED BY <1>1, BoundsHold, PTL

(***************************************************************************)
(* No interleaving of ReportTopk, which takes no lock, and                 *)
(* PurgeObsoleteFiles makes ProcessKey index outside the array.            *)
(***************************************************************************)
THEOREM RaceStaysInBounds == RaceSpec => []IndexesInBounds
<1>1. BInv => IndexesInBounds
  BY DEF BInv
<1> QED BY <1>1, BoundsHold, PTL

(***************************************************************************)
(* mutex_ is enough for the threads that purge: between their calls the    *)
(* summary is consistent until ReportTopk comes in.                        *)
(***************************************************************************)
THEOREM MutexIsEnough == RaceSpec => []LockedSummary
<1>1. BInv /\ SInv => LockedSummary
  <2> SUFFICES ASSUME BInv, SInv, reports = 0, AtRest
               PROVE  MinIsArgmin /\ OneSlotPerKey /\ NeverUndercounts
    BY DEF LockedSummary, SummaryAtRest
  <2>1. stage = "idle"
    BY DEF AtRest, stage, BInv, RaceTypeOK, Thread
  <2>2. MinIsArgmin /\ OneSlotPerKey /\ Covers(seen)
    BY <2>1 DEF SInv, LockedInv, StageInv
  <2>3. num_items_ \in 0 .. M
    BY LockedTypes DEF SInv
  <2>4. ~(num_items_ < M) => min_key_index_ \in InUse
    BY SMT, <2>2, <2>3, MAssumption DEF MinIsArgmin
  <2> QED BY <2>2, <2>4 DEF Covers, NeverUndercounts
<1> QED BY <1>1, BoundsHold, LockedInvariant, PTL
============================================================================
