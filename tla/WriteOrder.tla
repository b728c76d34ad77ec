---------------------------- MODULE WriteOrder -----------------------------
(***************************************************************************)
(* What concurrent writes are promised, without groups, leaders or lists:  *)
(* batches get increasing sequence numbers in the order of the log, what a *)
(* reader at a published sequence number sees never changes, and a write   *)
(* is answered with success only when it is logged (and synced) as its     *)
(* options ask and readers see it.                                         *)
(***************************************************************************)
EXTENDS Integers, Sequences

VARIABLES
    request,    \* for each write: whether it is to be logged, and synced
    log,        \* the batches in the log: id and sequence number
    synced,     \* how many of them are on stable storage
    applied,    \* the batches in the memtables: id and sequence number
    visible,    \* the sequence number readers read at
    answered    \* the writes that have returned: id and success

vars == <<request, log, synced, applied, visible, answered>>

Batch == [id : DOMAIN request, sequence : Nat]

Answered(id) == \E a \in answered : a.id = id

Init ==
    /\ log = <<>> /\ synced = 0 /\ applied = {} /\ visible = 0 /\ answered = {}

\* Unanswered writes are logged as one record, perhaps with a sync.
Log ==
    /\ log' \in Seq(Batch) /\ Len(log') >= Len(log)
    /\ \A i \in DOMAIN log : log'[i] = log[i]
    /\ \A i \in Len(log) + 1 .. Len(log') :
        /\ ~Answered(log'[i].id) /\ \A b \in applied : b.id # log'[i].id
        /\ \A j \in 1 .. i - 1 : log'[j].id # log'[i].id /\ log'[j].sequence < log'[i].sequence
    /\ synced' \in {synced, Len(log')}
    /\ UNCHANGED <<request, applied, visible, answered>>

\* Batches enter the memtables beyond what readers see, under the sequence
\* numbers they have in the log, no two under the same.
Apply ==
    /\ applied \subseteq applied' /\ applied' \subseteq Batch
    /\ \A b \in applied' \ applied :
        /\ ~Answered(b.id)
        /\ b.sequence > visible
        /\ \A c \in applied' : c.id = b.id <=> c.sequence = b.sequence
        /\ \A i \in DOMAIN log : log[i].id = b.id => log[i].sequence = b.sequence
    /\ UNCHANGED <<request, log, synced, visible, answered>>

Publish ==
    /\ visible' \in Nat /\ visible' > visible
    /\ UNCHANGED <<request, log, synced, applied, answered>>

\* A write may fail at any time.  It succeeds only when it is logged and synced as
\* requested, applied and visible.
Answer ==
    /\ answered \subseteq answered'
    /\ \A a \in answered' \ answered :
        /\ ~Answered(a.id)
        /\ a.ok =>
            /\ request[a.id].log => \E i \in DOMAIN log :
                    log[i].id = a.id /\ (request[a.id].sync => i <= synced)
            /\ \E b \in applied : b.id = a.id /\ b.sequence <= visible
    /\ UNCHANGED <<request, log, synced, applied, visible>>

Next == Log \/ Apply \/ Publish \/ Answer

Spec == Init /\ [][Next]_vars

----------------------------------------------------------------------------

\* The log has no batch twice, and its sequence numbers increase.
LogOrdered ==
    \A i, j \in DOMAIN log :
        i < j => log[i].id # log[j].id /\ log[i].sequence < log[j].sequence

\* Replaying the log gives every batch the sequence number it has in the memtables,
\* and these hold no batch and no sequence number twice.
ReplayAgrees ==
    /\ \A b \in applied : \A i \in DOMAIN log : log[i].id = b.id => log[i].sequence = b.sequence
    /\ \A b, c \in applied : c.id = b.id <=> c.sequence = b.sequence

\* A write that was answered with success stays in the log, if it asked for it, and
\* in the part a crash cannot take, if it asked for a sync; readers see it.
AcknowledgedKept ==
    \A a \in answered : a.ok =>
        /\ request[a.id].log => \E i \in DOMAIN log :
                log[i].id = a.id /\ (request[a.id].sync => i <= synced)
        /\ \E b \in applied : b.id = a.id /\ b.sequence <= visible

\* What a reader at a published sequence number sees does not change.
ReadersUndisturbed ==
    [][/\ visible' >= visible
       /\ \A b \in applied \cup applied' : b.sequence <= visible => b \in applied \cap applied']_vars
============================================================================
