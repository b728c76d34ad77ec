-------------------------- MODULE WriteOrderProofs -------------------------
(***************************************************************************)
(* What follows from WriteOrder, for any number of writes.                 *)
(***************************************************************************)
EXTENDS WriteOrder, TLAPS

Types ==
    /\ log \in Seq(Batch) /\ synced \in 0 .. Len(log)
    /\ applied \subseteq Batch /\ visible \in Nat

IInv == Types /\ LogOrdered /\ ReplayAgrees /\ AcknowledgedKept

\* Initially nothing is logged, applied or answered.
LEMMA InitInv == Init => IInv
BY DEF Init, IInv, Types, LogOrdered, ReplayAgrees, AcknowledgedKept

\* Appending to the log keeps what is there in its place, and the synced part grows.
LEMMA LogInv == IInv /\ Log => IInv'
<1> SUFFICES ASSUME IInv, Log PROVE IInv'
  OBVIOUS
<1> USE DEF IInv, Types
<1>1. Batch' = Batch
  BY DEF Log, Batch
<1>2. DOMAIN log = 1 .. Len(log) /\ DOMAIN log' = 1 .. Len(log') /\ DOMAIN log \subseteq DOMAIN log'
  BY DEF Log
<1>3. Types'
  BY <1>1 DEF Log
<1>4. LogOrdered'
  <2> SUFFICES ASSUME NEW i \in DOMAIN log', NEW j \in DOMAIN log', i < j
               PROVE  log'[i].id # log'[j].id /\ log'[i].sequence < log'[j].sequence
    BY DEF LogOrdered
  <2>1. CASE j \in DOMAIN log
    BY <1>2, <2>1 DEF Log, LogOrdered
  <2>2. CASE j \notin DOMAIN log
    <3>1. j \in Len(log) + 1 .. Len(log') /\ i \in 1 .. j - 1
      BY <1>2, <2>2
    <3> QED
      BY <3>1 DEF Log
  <2> QED
    BY <2>1, <2>2
<1>5. ReplayAgrees'
  BY <1>2 DEF Log, ReplayAgrees
<1>6. AcknowledgedKept'
  BY <1>2 DEF Log, AcknowledgedKept
<1> QED
  BY <1>3, <1>4, <1>5, <1>6

\* A batch enters the memtables under the number it has in the log.
LEMMA ApplyInv == IInv /\ Apply => IInv'
<1> SUFFICES ASSUME IInv, Apply PROVE IInv'
  OBVIOUS
<1> USE DEF IInv, Types
<1>1. Batch' = Batch
  BY DEF Apply, Batch
<1>2. Types'
  BY <1>1 DEF Apply
<1>3. LogOrdered'
  BY DEF Apply, LogOrdered
<1>4. ReplayAgrees'
  BY DEF Apply, ReplayAgrees
<1>5. AcknowledgedKept'
  BY DEF Apply, AcknowledgedKept
<1> QED
  BY <1>2, <1>3, <1>4, <1>5

LEMMA PublishInv == IInv /\ Publish => IInv'
<1> SUFFICES ASSUME IInv, Publish PROVE IInv'
  OBVIOUS
<1> USE DEF IInv, Types
<1>1. Types' /\ LogOrdered' /\ ReplayAgrees'
  BY DEF Publish, LogOrdered, ReplayAgrees, Batch
<1>2. AcknowledgedKept'
  BY DEF Publish, AcknowledgedKept, Batch
<1> QED
  BY <1>1, <1>2

LEMMA AnswerInv == IInv /\ Answer => IInv'
<1> SUFFICES ASSUME IInv, Answer PROVE IInv'
  OBVIOUS
<1> USE DEF IInv, Types
<1>1. Types' /\ LogOrdered' /\ ReplayAgrees'
  BY DEF Answer, LogOrdered, ReplayAgrees, Batch
<1>2. AcknowledgedKept'
  BY DEF Answer, AcknowledgedKept
<1> QED
  BY <1>1, <1>2

\* IInv is an invariant.
LEMMA Invariant == Spec => []IInv
<1>1. IInv /\ UNCHANGED vars => IInv'
  BY DEF IInv, Types, LogOrdered, ReplayAgrees, AcknowledgedKept, vars, Batch
<1>2. IInv /\ [Next]_vars => IInv'
  BY <1>1, LogInv, ApplyInv, PublishInv, AnswerInv DEF Next
<1> QED
  BY <1>2, InitInv, PTL DEF Spec

\* The log is in the order of sequence numbers, without repetition.
THEOREM LogIsOrdered == Spec => []LogOrdered
BY Invariant, PTL DEF IInv

\* Replaying the log reproduces the sequence numbers of the memtables.
THEOREM ReplayIsFaithful == Spec => []ReplayAgrees
BY Invariant, PTL DEF IInv

\* Acknowledged writes are never lost.
THEOREM AcknowledgedWritesKept == Spec => []AcknowledgedKept
BY Invariant, PTL DEF IInv

\* What readers see below a published sequence number does not change.
THEOREM PublishedStays == Spec => ReadersUndisturbed
<1>1. IInv /\ [Next]_vars =>
        [/\ visible' >= visible
         /\ \A b \in applied \cup applied' : b.sequence <= visible => b \in applied \cap applied']_vars
  BY DEF IInv, Types, Batch, Next, Log, Apply, Publish, Answer, vars
<1> QED
  BY <1>1, Invariant, PTL DEF Spec, ReadersUndisturbed
============================================================================
