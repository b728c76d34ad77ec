---------------------------- MODULE WriteThread ----------------------------
(***************************************************************************)
(* Group commit: db/write_thread.cc and its callers WriteImpl and          *)
(* PipelinedWriteImpl in db/db_impl_write.cc.  Writers link themselves     *)
(* into a lock-free list; the oldest is the leader, who writes the log for *)
(* a group of writers and applies the batches to the memtable alone, in    *)
(* parallel with its followers, or (pipelined) hands them over to a second *)
(* list of memtable writers.                                               *)
(*                                                                         *)
(* A writer is the address of the Writer object on the stack of a thread   *)
(* that calls Write once or several times.  One step is one atomic access  *)
(* to a list head, one SetState, or code between two of them that touches  *)
(* only what the leader owns.  Batches have one key each; their sizes are  *)
(* left open, so a group may end after any of the writers it could take.   *)
(***************************************************************************)
EXTENDS Integers, Sequences, FiniteSets, SequencesExt

CONSTANTS
    Writer,       \* addresses of Writer objects, one per calling thread
    Null,         \* nullptr
    Stall,        \* write_stall_dummy_
    Dummy,        \* the dummy ExitAsBatchGroupLeader puts at the tail
    Drain,        \* the Writer of WaitForMemTableWriters
    Scenarios,    \* the databases and workloads considered: see Scenario
    MaxStalls     \* bound: write stalls

Node == Writer \cup {Stall, Dummy, Drain}

\* WriteOptions and what else of a write decides its way; a request without
\* a batch is a call of EnterUnbatched.
Request ==
    [batch : BOOLEAN, sync : BOOLEAN, disable_wal : BOOLEAN, no_slowdown : BOOLEAN,
     callback : {"none", "fails", "alone"},   \* "alone": AllowWriteBatching() is false
     merge : BOOLEAN,                         \* HasMerge()
     bad : BOOLEAN]                           \* names a column family that is missing

Scenario ==
    [pipelined : BOOLEAN, concurrent : BOOLEAN, failures : BOOLEAN, stalls : BOOLEAN,
     switches : BOOLEAN, calls : [Writer -> Nat], req : [Writer -> Request]]

ASSUME NodeAssumption ==
    /\ IsFiniteSet(Writer)
    /\ Cardinality(Node) = Cardinality(Writer) + 3
    /\ Null \notin Node
\* WriteImpl rejects synchronous writes without a log.
ASSUME ScenarioAssumption ==
    /\ \A sc \in Scenarios : sc \in Scenario
    /\ \A sc \in Scenarios, w \in Writer : ~(sc.req[w].sync /\ sc.req[w].disable_wal)
ASSUME StallAssumption == MaxStalls \in Nat

State == {"INIT", "GROUP_LEADER", "MEMTABLE_WRITER_LEADER",
          "PARALLEL_MEMTABLE_WRITER", "COMPLETED", "LOCKED_WAITING"}

Status == {"ok", "stall", "error", "insert"}

VARIABLES
    opt,            \* the scenario; never changes
    newest_writer, newest_memtable_writer,   \* heads of the two lists
    link_older, link_newer,
    wr,             \* Writer objects: state, write_group (its owner), status,
                    \* callback (failed), sequence
    th,             \* threads: pc, ret (where to go on after draining), cur (the
                    \* writer a loop is at), last (last_writer), status, last_sequence
    group,          \* the WriteGroup on the stack of each thread
    wal, synced,    \* the log's batches, how many of them are synced
    mem,            \* the batches in the memtables with their sequence numbers
    last_sequence,  \* VersionSet::LastSequence()
    allocated,      \* WriteThread::last_sequence_, pipelined writes only
    bg_error,       \* a background error stops the database
    calls,          \* writes begun by each thread
    results,        \* history: finished writes and whether they succeeded
    stalls          \* stalls begun

lists == <<newest_writer, newest_memtable_writer, link_older, link_newer>>
db == <<wal, synced, mem, last_sequence, allocated, bg_error>>
history == <<calls, results, stalls>>
vars == <<opt, lists, wr, th, group, db, history>>

Id(w) == <<w, calls[w]>>

NewWriter == [state |-> "INIT", write_group |-> Null, status |-> "ok",
              callback |-> FALSE, sequence |-> 0]

NewThread == [pc |-> "Idle", ret |-> "Idle", cur |-> Null, last |-> Null,
              status |-> "ok", last_sequence |-> 0]

NewGroup == [leader |-> Null, last_writer |-> Null, size |-> 0, status |-> "ok",
             running |-> 0, last_sequence |-> 0]

Init ==
    /\ opt \in Scenarios
    /\ newest_writer = Null /\ newest_memtable_writer = Null
    /\ link_older = [n \in Node |-> Null] /\ link_newer = [n \in Node |-> Null]
    /\ wr = [n \in Node |-> NewWriter]
    /\ th = [w \in Writer |-> NewThread]
    /\ group = [w \in Writer |-> NewGroup]
    /\ wal = <<>> /\ synced = 0 /\ mem = {}
    /\ last_sequence = 0 /\ allocated = 0 /\ bg_error = FALSE
    /\ calls = [w \in Writer |-> 0] /\ results = {} /\ stalls = 0

Req(w) == opt.req[w]

ShouldWriteToMemtable(w) == wr[w].status = "ok" /\ ~wr[w].callback

Go(w, l) == th' = [th EXCEPT ![w].pc = l]

----------------------------------------------------------------------------
\* Walks along the lists.  None is longer than the number of nodes.

MaxWalk == Cardinality(Node) + 1

\* The nodes met from n on along link, Null after the end.
Walk(link, n) ==
    LET at[i \in 1 .. MaxWalk] ==
            IF i = 1 THEN n ELSE IF at[i - 1] = Null THEN Null ELSE link[at[i - 1]]
    IN  [i \in 1 .. MaxWalk |-> at[i]]

\* The first index of a walk with property P (the last index if there is none).
FirstOf(P(_)) == CHOOSE i \in 1 .. MaxWalk :
    /\ P(i) \/ i = MaxWalk
    /\ \A j \in 1 .. i - 1 : ~P(j)

\* link_newer after CreateMissingNewerLinks(head)
CreateMissingNewerLinks(head) ==
    LET at == Walk(link_older, head)
        Ends(i) == at[i] = Null \/ (i > 1 /\ link_newer[at[i]] # Null)
        last == FirstOf(Ends) - 1
    IN  [n \in Node |->
            IF \E i \in 2 .. last : at[i] = n
            THEN at[(CHOOSE i \in 2 .. last : at[i] = n) - 1]
            ELSE link_newer[n]]

\* FindNextLeader: the node whose link_older is the boundary.
FindNextLeader(from, boundary) ==
    LET at == Walk(link_older, from)
        Reached(i) == at[i] # Null /\ link_older[at[i]] = boundary
    IN  at[FirstOf(Reached)]

\* The writers of a group, oldest first (WriteGroup::Iterator).
Members(g) == SubSeq(Walk(link_newer, g.leader), 1, g.size)

----------------------------------------------------------------------------
\* Waiting and waking.

\* The thread after its writer was made leader: EnterUnbatched, and a callback
\* that does not want batching, first wait for the memtable writers.
Lead(w) ==
    LET next == IF Req(w).batch THEN "Leader" ELSE "Unbatched"
        drains == opt.pipelined /\ (~Req(w).batch \/ Req(w).callback = "alone")
    IN  [th[w] EXCEPT !.pc = IF drains THEN "Drain" ELSE next, !.ret = next,
                      !.last_sequence = last_sequence]

\* LinkOne on newest_writer_, called by JoinBatchGroup and EnterUnbatched.
LinkOne(w) ==
    /\ th[w].pc = "Link" \/ (th[w].pc = "Idle" /\ calls[w] < opt.calls[w])
    /\ calls' = IF th[w].pc = "Idle" THEN [calls EXCEPT ![w] = @ + 1] ELSE calls
    /\ \/ /\ newest_writer = Stall /\ Req(w).no_slowdown
          /\ wr' = [wr EXCEPT ![w].status = "stall", ![w].state = "COMPLETED"]
          /\ Go(w, "Join")
          /\ UNCHANGED lists
       \/ /\ newest_writer = Stall /\ ~Req(w).no_slowdown
          /\ Go(w, "StallWait")
          /\ UNCHANGED <<lists, wr>>
       \/ /\ newest_writer # Stall
          /\ newest_writer' = w
          /\ link_older' = [link_older EXCEPT ![w] = newest_writer]
          /\ IF newest_writer = Null
             THEN /\ th' = [th EXCEPT ![w] = Lead(w)]
                  /\ wr' = [wr EXCEPT ![w].state = IF Req(w).batch THEN "GROUP_LEADER" ELSE @]
             ELSE Go(w, "Join") /\ UNCHANGED wr
          /\ UNCHANGED <<newest_memtable_writer, link_newer>>
    /\ UNCHANGED <<opt, group, db, results, stalls>>

\* goal_mask of each call of AwaitState
Goal(w) ==
    CASE th[w].pc = "Join" ->
            IF Req(w).batch
            THEN {"GROUP_LEADER", "MEMTABLE_WRITER_LEADER", "PARALLEL_MEMTABLE_WRITER", "COMPLETED"}
            ELSE {"GROUP_LEADER"}
      [] th[w].pc = "MemWait" ->
            {"MEMTABLE_WRITER_LEADER", "PARALLEL_MEMTABLE_WRITER", "COMPLETED"}
      [] th[w].pc = "PWait" -> {"COMPLETED"}
      [] th[w].pc = "DrainWait" -> {"MEMTABLE_WRITER_LEADER"}
      [] OTHER -> {}

Awaited(w) == IF th[w].pc = "DrainWait" THEN Drain ELSE w

\* AwaitState returns because the goal is met, seen while spinning or when woken.
AwaitState(w) ==
    /\ th[w].pc \in {"Join", "MemWait", "PWait"}
    /\ wr[w].state \in Goal(w)
    /\ th' = [th EXCEPT ![w] =
                CASE wr[w].state = "GROUP_LEADER" -> Lead(w)
                  [] wr[w].state = "MEMTABLE_WRITER_LEADER" -> [@ EXCEPT !.pc = "EnterMem"]
                  [] wr[w].state = "PARALLEL_MEMTABLE_WRITER" -> [@ EXCEPT !.pc = "PInsert"]
                  [] OTHER -> [@ EXCEPT !.pc = "Return"]]
    /\ UNCHANGED <<opt, lists, wr, group, db, history>>

\* The waiting thread stops spinning: it announces that it blocks, unless the
\* state has changed, in which case the compare-and-swap fails.
BlockingAwaitState(w) ==
    /\ Goal(w) # {}
    /\ wr[Awaited(w)].state \notin Goal(w) \cup {"LOCKED_WAITING"}
    /\ wr' = [wr EXCEPT ![Awaited(w)].state = "LOCKED_WAITING"]
    /\ UNCHANGED <<opt, lists, th, group, db, history>>

\* SetState of the writers in ws
SetState(ws, s) == [n \in Node |-> IF n \in ws THEN [wr[n] EXCEPT !.state = s] ELSE wr[n]]

----------------------------------------------------------------------------
\* The leader of a batch group up to the log.

\* PreprocessWrite ends: with the background error, with the error of DelayWrite
\* for a write that does not wait for stalls, or well.
PreprocessWrite(w) ==
    /\ th[w].pc \in {"Leader", "Switched", "Delayed"}
    /\ \E s \in Status \ {"insert"} :
        /\ th[w].pc # "Switched" => ((s = "error") <=> bg_error)
        /\ th[w].pc = "Switched" => s # "error"
        /\ s = "stall" => opt.stalls /\ Req(w).no_slowdown
        /\ th' = [th EXCEPT ![w].pc = "Enter", ![w].status = s]
    /\ UNCHANGED <<opt, lists, wr, group, db, history>>

\* PreprocessWrite calls SwitchMemtable, which with pipelined writes waits for
\* the memtable writers first.
SwitchMemtable(w) ==
    /\ th[w].pc = "Leader" /\ opt.switches /\ ~bg_error
    /\ th' = [th EXCEPT ![w].pc = IF opt.pipelined THEN "Drain" ELSE "Switch",
                        ![w].ret = "Switch"]
    /\ UNCHANGED <<opt, lists, wr, group, db, history>>

SwitchDone(w) ==
    /\ th[w].pc = "Switch"
    /\ Go(w, "Switched")
    /\ UNCHANGED <<opt, lists, wr, group, db, history>>

\* DelayWrite calls BeginWriteStall: the dummy closes the list and pending
\* writers that do not wait for stalls are taken out of it and fail.
BeginWriteStall(w) ==
    /\ th[w].pc \in {"Leader", "Switched", "Delayed"}
    /\ opt.stalls /\ ~bg_error /\ ~Req(w).no_slowdown
    /\ stalls < MaxStalls
    /\ LET at == Walk(link_older, newest_writer)
           Ends(i) == at[i] = Null \/ wr[at[i]].write_group # Null
           n == FirstOf(Ends) - 1
           failed == {x \in Writer : Req(x).no_slowdown /\ \E i \in 1 .. n : at[i] = x}
           kept == SelectSeq(<<Stall>> \o SubSeq(at, 1, n), LAMBDA x : x \notin failed)
       IN  /\ link_older' = [x \in Node |->
                IF \E i \in DOMAIN kept : kept[i] = x
                THEN (kept \o <<at[n + 1]>>)[(CHOOSE i \in DOMAIN kept : kept[i] = x) + 1]
                ELSE link_older[x]]
           /\ wr' = [x \in Node |->
                IF x \in failed
                THEN [wr[x] EXCEPT !.status = "stall", !.state = "COMPLETED"] ELSE wr[x]]
    /\ newest_writer' = Stall
    /\ stalls' = stalls + 1
    /\ Go(w, "Stalled")
    /\ UNCHANGED <<opt, newest_memtable_writer, link_newer, group, db, calls, results>>

\* EndWriteStall; DelayWrite then looks again whether writes are stopped.
EndWriteStall(w) ==
    /\ th[w].pc = "Stalled"
    /\ newest_writer' = link_older[Stall]
    /\ th' = [x \in Writer |->
                IF x = w THEN [th[x] EXCEPT !.pc = "Delayed"]
                ELSE IF th[x].pc = "StallWait" THEN [th[x] EXCEPT !.pc = "Link"] ELSE th[x]]
    /\ UNCHANGED <<opt, newest_memtable_writer, link_older, link_newer, wr, group, db, history>>

\* EnterAsBatchGroupLeader takes x into the group of w.
CanJoin(w, x) ==
    /\ x \in Writer
    /\ Req(x).sync => Req(w).sync
    /\ Req(x).no_slowdown = Req(w).no_slowdown
    /\ Req(w).disable_wal => Req(x).disable_wal
    /\ Req(x).batch
    /\ Req(x).callback # "alone"

\* The group of w when it takes the first n writers of the list at.
Gather(w, at, n) ==
    LET taken == {at[i] : i \in 1 .. n}
    IN  /\ wr' = [x \in Node |->
                    IF x \in taken THEN [wr[x] EXCEPT !.write_group = w] ELSE wr[x]]
        /\ group' = [group EXCEPT ![w] =
                        [NewGroup EXCEPT !.leader = w, !.last_writer = at[n], !.size = n]]

\* The leader takes the writers after it as far as their requests agree with its
\* own and the group does not get too big.
EnterAsBatchGroupLeader(w) ==
    /\ th[w].pc = "Enter"
    /\ link_newer' = CreateMissingNewerLinks(newest_writer)
    /\ LET at == Walk(link_newer', w)
       IN  \E n \in 1 .. Cardinality(Writer) :
            /\ \A i \in 2 .. n : at[i] # Null /\ CanJoin(w, at[i])
            /\ \A i \in 1 .. n - 1 : at[i] # newest_writer
            /\ Gather(w, at, n)
    /\ th' = [th EXCEPT ![w].cur = group'[w].last_writer, ![w].last = group'[w].last_writer,
                        ![w].pc = IF th[w].status = "ok" THEN "WAL"
                                  ELSE IF opt.pipelined THEN "Drop" ELSE "Handoff"]
    /\ UNCHANGED <<opt, newest_writer, newest_memtable_writer, link_older, db, history>>

\* A member of the group whose callback, called by the leader, did not fail
Passes(x) == Req(x).callback # "fails"

Batches(ws, first) == [i \in DOMAIN ws |-> [id |-> Id(ws[i]), sequence |-> first + i - 1]]

\* Faulty WriteToWAL: without the sync.
AppendOnly(w, recs, s) ==
    /\ s = "error" => opt.failures
    /\ wal' \in IF s = "ok" THEN {wal \o recs} ELSE {wal, wal \o recs}
    /\ bg_error' = (bg_error \/ (s = "error" /\ Passes(w)))
    /\ UNCHANGED synced

\* Faulty WriteToWAL: the log counts as synced although the append failed.
SyncRegardless(w, recs, s) ==
    /\ s = "error" => opt.failures
    /\ wal' \in IF s = "ok" THEN {wal \o recs} ELSE {wal, wal \o recs}
    /\ synced' = IF Req(w).sync THEN Len(wal \o recs) ELSE synced
    /\ bg_error' = (bg_error \/ (s = "error" /\ Passes(w)))

\* WriteToWAL and WriteStatusCheck with outcome s: the batches go to the log as
\* one record.  When writing or syncing fails the record may be there or not, and
\* the database stops, unless the leader's own callback has failed.
WriteToWAL(w, recs, s) ==
    /\ s = "error" => opt.failures
    /\ wal' \in IF s = "ok" THEN {wal \o recs} ELSE {wal, wal \o recs}
    /\ synced' = IF s = "ok" /\ Req(w).sync THEN Len(wal') ELSE synced
    /\ bg_error' = (bg_error \/ (s = "error" /\ Passes(w)))

\* The leader has called the callbacks of the writers ms and numbered the
\* batches of those in ws from first on.
Number(ms, ws, first) ==
    [x \in Node |->
        IF \E i \in DOMAIN ws : ws[i] = x
        THEN [wr[x] EXCEPT !.sequence = first - 1 + CHOOSE i \in DOMAIN ws : ws[i] = x]
        ELSE IF \E i \in DOMAIN ms : ms[i] = x THEN [wr[x] EXCEPT !.callback = TRUE] ELSE wr[x]]

\* WriteImpl from the callbacks to the choice between a parallel and a
\* sequential insert.
WriteGroupToWAL(w) ==
    /\ th[w].pc = "WAL" /\ ~opt.pipelined
    /\ LET ms == Members(group[w])
           ws == SelectSeq(ms, Passes)
           first == th[w].last_sequence + 1
           parallel == /\ opt.concurrent /\ Len(ms) > 1
                       /\ \A i \in DOMAIN ws : ~Req(ws[i]).merge
       IN  \E s \in {"ok", "error"} :
            /\ IF Req(w).disable_wal
               THEN s = "ok" /\ UNCHANGED <<wal, synced, bg_error>>
               ELSE WriteToWAL(w, Batches(ws, first), s)
            /\ wr' = Number(ms, ws, first)
            /\ group' = [group EXCEPT ![w].last_sequence = first + Len(ws) - 1,
                                      ![w].running = Len(ms)]
            /\ th' = [th EXCEPT ![w].status = s, ![w].cur = w,
                                ![w].pc = IF s = "error" THEN "Handoff"
                                          ELSE IF parallel THEN "Launch" ELSE "Insert"]
    /\ UNCHANGED <<opt, lists, mem, last_sequence, allocated, history>>

\* The same part of PipelinedWriteImpl: sequence numbers are handed out before
\* the memtable writes of earlier groups are published, and the log is written
\* if the leader itself ShouldWriteToWAL().
WritePipelinedGroupToWAL(w) ==
    /\ th[w].pc = "WAL" /\ opt.pipelined
    /\ LET ms == Members(group[w])
           ws == SelectSeq(ms, Passes)
           first == 1 + IF last_sequence > allocated THEN last_sequence ELSE allocated
       IN  \E s \in {"ok", "error"} :
            /\ IF Req(w).disable_wal \/ ~Passes(w)
               THEN s = "ok" /\ UNCHANGED <<wal, synced, bg_error>>
               ELSE WriteToWAL(w, Batches(ws, first), s)
            /\ wr' = Number(ms, ws, first)
            /\ allocated' = first + Len(ws) - 1
            /\ th' = [th EXCEPT ![w].status = s, ![w].pc = "Drop"]
    /\ UNCHANGED <<opt, lists, group, mem, last_sequence, history>>

----------------------------------------------------------------------------
\* Memtable writes.

\* InsertInto for a whole group by its leader: batches are numbered on from the
\* first one, and the first batch that fails ends it.  WriteImpl keeps the result
\* in the leader's status, PipelinedWriteImpl in the group's.
Insert(w) ==
    /\ th[w].pc = "Insert"
    /\ LET ms == Members(group[w])
           ws == SelectSeq(ms, ShouldWriteToMemtable)
           fails == {i \in DOMAIN ws : Req(ws[i]).bad}
           done == {i \in DOMAIN ws : \A j \in fails : i < j}
           first == IF opt.pipelined THEN wr[w].sequence ELSE th[w].last_sequence + 1
           hurt == {ws[i] : i \in {i \in fails : \A j \in fails : i <= j}}
                     \cup IF opt.pipelined \/ fails = {} THEN {} ELSE {w}
       IN  /\ mem' = mem \cup {[id |-> Id(ws[i]), sequence |-> first + i - 1] : i \in done}
           /\ wr' = [x \in Node |-> IF x \in hurt THEN [wr[x] EXCEPT !.status = "insert"] ELSE wr[x]]
           /\ group' = [group EXCEPT ![w].status =
                            IF opt.pipelined /\ fails # {} THEN "insert" ELSE @]
    /\ Go(w, IF opt.pipelined THEN "MemPublish" ELSE "Publish")
    /\ UNCHANGED <<opt, lists, wal, synced, last_sequence, allocated, bg_error, history>>

\* The loop of LaunchParallelMemTableWriters wakes a writer
LaunchParallelMemTableWriters(w) ==
    /\ th[w].pc = "Launch"
    /\ wr' = SetState({th[w].cur}, "PARALLEL_MEMTABLE_WRITER")
    /\ Go(w, "LaunchNext")
    /\ UNCHANGED <<opt, lists, group, db, history>>

\* and only then reads its link_newer, in operator++ of the iterator.
LaunchNext(w) ==
    /\ th[w].pc = "LaunchNext"
    /\ th' = IF th[w].cur = group[w].last_writer
             THEN [th EXCEPT ![w].cur = Null, ![w].pc = "PInsert"]
             ELSE [th EXCEPT ![w].cur = link_newer[@], ![w].pc = "Launch"]
    /\ UNCHANGED <<opt, lists, wr, group, db, history>>

\* A parallel writer, leader or follower, inserts its own batch.
ParallelInsert(w) ==
    /\ th[w].pc = "PInsert"
    /\ LET writes == ShouldWriteToMemtable(w) IN
        /\ mem' = IF writes /\ ~Req(w).bad
                  THEN mem \cup {[id |-> Id(w), sequence |-> wr[w].sequence]} ELSE mem
        /\ wr' = [wr EXCEPT ![w].status = IF writes /\ Req(w).bad THEN "insert" ELSE @]
    /\ Go(w, "PComplete")
    /\ UNCHANGED <<opt, lists, group, wal, synced, last_sequence, allocated, bg_error, history>>

\* CompleteParallelMemTableWriter: the last one goes on to the exit duties.
CompleteParallelMemTableWriter(w) ==
    LET o == wr[w].write_group
        s == IF wr[w].status = "ok" THEN group[o].status ELSE wr[w].status
    IN  /\ th[w].pc = "PComplete"
        /\ group' = [group EXCEPT ![o].status = s, ![o].running = @ - 1]
        /\ IF group[o].running > 1
           THEN Go(w, "PWait") /\ UNCHANGED wr
           ELSE Go(w, "Publish") /\ wr' = [wr EXCEPT ![w].status = s]
        /\ UNCHANGED <<opt, lists, db, history>>

\* SetLastSequence and MemTableInsertStatusCheck; the latter is not called after
\* a sequential insert of PipelinedWriteImpl.
Publish(w) ==
    /\ th[w].pc \in {"Publish", "MemPublish"}
    /\ last_sequence' = group[wr[w].write_group].last_sequence
    /\ bg_error' = (bg_error \/ (th[w].pc = "Publish" /\ wr[w].status # "ok"))
    /\ Go(w, IF opt.pipelined THEN "MemHandoff" ELSE "Handoff")
    /\ UNCHANGED <<opt, lists, wr, group, wal, synced, mem, allocated, history>>

----------------------------------------------------------------------------
\* Leaving a batch group without pipelining.

\* Faulty Promote: a writer blocked in BlockingAwaitState is not woken.
PromoteSpinning(newest, last, s) ==
    /\ link_newer' = CreateMissingNewerLinks(newest)
    /\ link_older' = [link_older EXCEPT ![link_newer'[last]] = Null]
    /\ wr' = IF wr[link_newer'[last]].state = "LOCKED_WAITING" THEN wr
             ELSE SetState({link_newer'[last]}, s)

\* The writer after last becomes leader of the rest of the list at newest.
Promote(newest, last, s) ==
    /\ link_newer' = CreateMissingNewerLinks(newest)
    /\ link_older' = [link_older EXCEPT ![link_newer'[last]] = Null]
    /\ wr' = SetState({link_newer'[last]}, s)

\* ExitAsBatchGroupLeader, called by the leader or through
\* ExitAsBatchGroupFollower by the last parallel writer: empty the list or wake
\* the next leader.
Handoff(w) ==
    LET g == group[wr[w].write_group] IN
    /\ th[w].pc = "Handoff"
    /\ IF newest_writer = g.last_writer
       THEN newest_writer' = Null /\ UNCHANGED <<link_older, link_newer, wr>>
       ELSE Promote(newest_writer, g.last_writer, "GROUP_LEADER") /\ UNCHANGED newest_writer
    /\ th' = [th EXCEPT ![w].pc = "Followers", ![w].cur = g.last_writer]
    /\ UNCHANGED <<opt, newest_memtable_writer, group, db, history>>

\* Then the followers are told the outcome, newest first; a follower that does
\* this tells the leader at last.
CompleteFollowers(w) ==
    LET g == group[wr[w].write_group]
        s == IF th[w].status = "ok" THEN g.status ELSE th[w].status
        x == th[w].cur
    IN  /\ th[w].pc = "Followers"
        /\ IF x # g.leader
           THEN /\ wr' = [wr EXCEPT ![x].status = s, ![x].state = "COMPLETED"]
                /\ th' = [th EXCEPT ![w].cur = link_older[x]]
           ELSE /\ wr' = IF w = x THEN wr ELSE SetState({x}, "COMPLETED")
                /\ Go(w, "Return")
        /\ UNCHANGED <<opt, lists, group, db, history>>

\* ExitUnbatched
ExitUnbatched(w) ==
    /\ th[w].pc = "Unbatched"
    /\ IF newest_writer = w
       THEN newest_writer' = Null /\ UNCHANGED <<link_older, link_newer, wr>>
       ELSE Promote(newest_writer, w, "GROUP_LEADER") /\ UNCHANGED newest_writer
    /\ Go(w, "Return")
    /\ UNCHANGED <<opt, newest_memtable_writer, group, db, history>>

\* The write returns and its Writer and WriteGroup are destroyed.
Return(w) ==
    /\ th[w].pc = "Return"
    /\ results' = IF ~Req(w).batch THEN results
                  ELSE results \cup {[id |-> Id(w),
                                      ok |-> th[w].status = "ok" /\ ShouldWriteToMemtable(w)]}
    /\ wr' = [wr EXCEPT ![w] = NewWriter]
    /\ th' = [th EXCEPT ![w] = NewThread]
    /\ group' = [group EXCEPT ![w] = NewGroup]
    /\ link_older' = [link_older EXCEPT ![w] = Null]
    /\ link_newer' = [link_newer EXCEPT ![w] = Null]
    /\ UNCHANGED <<opt, newest_writer, newest_memtable_writer, db, calls, stalls>>

----------------------------------------------------------------------------
\* Leaving a batch group with pipelining: ExitAsBatchGroupLeader.

\* CompleteFollower(x): x leaves the group of w.
CompleteFollower(w, x) ==
    LET o == link_older[x]
        n == link_newer[x]
    IN  /\ IF x = group[w].last_writer
           THEN /\ link_newer' = [link_newer EXCEPT ![o] = Null]
                /\ group' = [group EXCEPT ![w].last_writer = o, ![w].size = @ - 1]
                /\ UNCHANGED link_older
           ELSE /\ link_newer' = [link_newer EXCEPT ![o] = n]
                /\ link_older' = [link_older EXCEPT ![n] = o]
                /\ group' = [group EXCEPT ![w].size = @ - 1]
        /\ wr' = [wr EXCEPT ![x].status = th[w].status, ![x].state = "COMPLETED"]

\* CompleteLeader
CompleteLeader(w) ==
    LET n == link_newer[w] IN
    /\ IF group[w].size = 1
       THEN /\ group' = [group EXCEPT ![w].leader = Null, ![w].last_writer = Null, ![w].size = 0]
            /\ UNCHANGED link_older
       ELSE /\ group' = [group EXCEPT ![w].leader = n, ![w].size = @ - 1]
            /\ link_older' = [link_older EXCEPT ![n] = Null]
    /\ wr' = [wr EXCEPT ![w].status = th[w].status, ![w].state = "COMPLETED"]
    /\ UNCHANGED link_newer

\* Writers that have nothing to write to the memtable are done, newest first.
DropFromGroup(w) ==
    LET x == th[w].cur
        stays == th[w].status = "ok" /\ ShouldWriteToMemtable(x)
    IN  /\ th[w].pc = "Drop"
        /\ IF stays THEN /\ wr' = [wr EXCEPT ![x].status = th[w].status]
                         /\ UNCHANGED <<link_older, link_newer, group>>
           ELSE IF x = w THEN CompleteLeader(w) ELSE CompleteFollower(w, x)
        /\ th' = [th EXCEPT ![w].cur = IF x = w THEN Null ELSE link_older[x],
                            ![w].pc = IF x = w THEN "Dummy" ELSE @]
        /\ UNCHANGED <<opt, newest_writer, newest_memtable_writer, db, history>>

\* Mark the boundary of the group with a dummy if nobody came after it, else
\* find the next leader.
InsertDummy(w) ==
    /\ th[w].pc = "Dummy"
    /\ IF newest_writer = th[w].last
       THEN newest_writer' = Dummy /\ Go(w, "LinkGroup")
       ELSE /\ th' = [th EXCEPT ![w].pc = "LinkGroup",
                                ![w].cur = FindNextLeader(newest_writer, th[w].last)]
            /\ UNCHANGED newest_writer
    /\ UNCHANGED <<opt, newest_memtable_writer, link_older, link_newer, wr, group, db, history>>

\* Faulty LinkGroup: links made in the writer list are kept.
LinkWithOldLinks(w) ==
    LET g == group[w]
        ms == {Members(g)[i] : i \in 1 .. g.size}
        first == newest_memtable_writer = Null
    IN  /\ th[w].pc = "LinkGroup" /\ g.size > 0
        /\ newest_memtable_writer' = g.last_writer
        /\ link_older' = [link_older EXCEPT ![g.leader] = newest_memtable_writer]
        /\ wr' = [n \in Node |->
                    IF n \notin ms THEN wr[n]
                    ELSE [wr[n] EXCEPT !.write_group = Null,
                                       !.state = IF first /\ n = g.leader
                                                 THEN "MEMTABLE_WRITER_LEADER" ELSE @]]
        /\ Go(w, "NextLeader")
        /\ UNCHANGED <<opt, newest_writer, link_newer, group, db, history>>

\* LinkGroup: what is left of the group joins the memtable writers; if they were
\* none its oldest writer is their leader.
LinkGroup(w) ==
    LET g == group[w]
        ms == {Members(g)[i] : i \in 1 .. g.size}
        first == newest_memtable_writer = Null
    IN  /\ th[w].pc = "LinkGroup"
        /\ IF g.size = 0 THEN UNCHANGED <<lists, wr>>
           ELSE /\ newest_memtable_writer' = g.last_writer
                /\ link_older' = [link_older EXCEPT ![g.leader] = newest_memtable_writer]
                /\ link_newer' = [n \in Node |-> IF n \in ms THEN Null ELSE link_newer[n]]
                /\ wr' = [n \in Node |->
                            IF n \notin ms THEN wr[n]
                            ELSE [wr[n] EXCEPT !.write_group = Null,
                                               !.state = IF first /\ n = g.leader
                                                         THEN "MEMTABLE_WRITER_LEADER" ELSE @]]
                /\ UNCHANGED newest_writer
        /\ Go(w, "NextLeader")
        /\ UNCHANGED <<opt, group, db, history>>

\* Take the dummy away, look again for a next leader if there was none, wake it.
WakeNextLeader(w) ==
    LET alone == th[w].cur = Null /\ newest_writer = Dummy
        next == IF th[w].cur # Null THEN th[w].cur ELSE FindNextLeader(newest_writer, Dummy)
    IN  /\ th[w].pc = "NextLeader"
        /\ IF alone THEN newest_writer' = Null /\ UNCHANGED <<link_older, wr>>
           ELSE /\ link_older' = [link_older EXCEPT ![next] = Null]
                /\ wr' = SetState({next}, "GROUP_LEADER")
                /\ UNCHANGED newest_writer
        /\ Go(w, "MemWait")
        /\ UNCHANGED <<opt, newest_memtable_writer, link_newer, group, db, history>>

----------------------------------------------------------------------------
\* The memtable writers.

\* EnterAsMemTableWriter: with concurrent inserts all pending writers up to the
\* next merge join, else as many as do not make the group too big.
EnterAsMemTableWriter(w) ==
    LET alone == opt.concurrent /\ Req(w).merge
        Joins(x) == x \in Writer /\ ~Req(x).merge
    IN  /\ th[w].pc = "EnterMem"
        /\ link_newer' = IF alone THEN link_newer
                         ELSE CreateMissingNewerLinks(newest_memtable_writer)
        /\ \E n \in 1 .. Cardinality(Writer) :
            LET at == Walk(link_newer', w)
                more == ~alone /\ at[n] # newest_memtable_writer /\ Joins(at[n + 1])
            IN  /\ alone => n = 1
                /\ \A i \in 2 .. n : at[i - 1] # newest_memtable_writer /\ Joins(at[i])
                /\ opt.concurrent => ~more
                /\ wr' = [x \in Node |-> IF \E i \in 1 .. n : at[i] = x
                                         THEN [wr[x] EXCEPT !.write_group = w] ELSE wr[x]]
                /\ group' = [group EXCEPT ![w] =
                        [leader |-> w, last_writer |-> at[n], size |-> n, status |-> "ok",
                         running |-> n, last_sequence |-> wr[at[n]].sequence]]
                /\ th' = [th EXCEPT ![w].cur = w,
                            ![w].pc = IF n > 1 /\ opt.concurrent THEN "Launch" ELSE "Insert"]
        /\ UNCHANGED <<opt, newest_writer, newest_memtable_writer, link_older, db, history>>

\* ExitAsMemTableWriter: empty the list or wake the next leader.
MemHandoff(w) ==
    LET g == group[wr[w].write_group] IN
    /\ th[w].pc = "MemHandoff"
    /\ IF newest_memtable_writer = g.last_writer
       THEN newest_memtable_writer' = Null /\ UNCHANGED <<link_older, link_newer, wr>>
       ELSE /\ Promote(newest_memtable_writer, g.last_writer, "MEMTABLE_WRITER_LEADER")
            /\ UNCHANGED newest_memtable_writer
    /\ th' = [th EXCEPT ![w].pc = "MemFollowers", ![w].cur = g.leader]
    /\ UNCHANGED <<opt, newest_writer, group, db, history>>

\* Faulty CompleteMemFollowers: the leader, who owns the group, does not exit last.
CompleteLeaderFirst(w) ==
    LET g == group[wr[w].write_group]
        x == th[w].cur
    IN  /\ th[w].pc = "MemFollowers"
        /\ wr' = [wr EXCEPT ![x].state = "COMPLETED"]
        /\ th' = [th EXCEPT ![w].cur = link_newer[x],
                            ![w].pc = IF x = g.last_writer THEN "Return" ELSE @]
        /\ UNCHANGED <<opt, lists, group, db, history>>

\* Then tell the members the outcome, oldest first but the leader last.
CompleteMemFollowers(w) ==
    LET g == group[wr[w].write_group]
        x == th[w].cur
    IN  /\ th[w].pc = "MemFollowers"
        /\ IF x = Null
           THEN wr' = SetState({g.leader}, "COMPLETED") /\ Go(w, "Return")
           ELSE /\ wr' = [wr EXCEPT ![x].status = IF g.status # "ok" THEN g.status ELSE @,
                                    ![x].state = IF x # g.leader THEN "COMPLETED" ELSE @]
                /\ th' = [th EXCEPT ![w].cur = IF x = g.last_writer THEN Null ELSE link_newer[x]]
        /\ UNCHANGED <<opt, lists, group, db, history>>

\* Faulty WaitForMemTableWriters: nobody is waited for.
WaitForNobody(w) ==
    /\ th[w].pc = "Drain"
    /\ Go(w, th[w].ret)
    /\ UNCHANGED <<opt, lists, wr, group, db, history>>

\* WaitForMemTableWriters: nothing to do, or link a Writer of one's own behind them,
WaitForMemTableWriters(w) ==
    /\ th[w].pc = "Drain"
    /\ Go(w, IF newest_memtable_writer = Null THEN th[w].ret ELSE "DrainLink")
    /\ UNCHANGED <<opt, lists, wr, group, db, history>>

DrainLink(w) ==
    /\ th[w].pc = "DrainLink"
    /\ link_older' = [link_older EXCEPT ![Drain] = newest_memtable_writer]
    /\ newest_memtable_writer' = Drain
    /\ Go(w, IF newest_memtable_writer = Null THEN "Drained" ELSE "DrainWait")
    /\ UNCHANGED <<opt, newest_writer, link_newer, wr, group, db, history>>

\* wait until it leads, and empty the list.
DrainDone(w) ==
    /\ \/ th[w].pc = "Drained"
       \/ th[w].pc = "DrainWait" /\ wr[Drain].state \in Goal(w)
    /\ newest_memtable_writer' = Null
    /\ wr' = [wr EXCEPT ![Drain] = NewWriter]
    /\ link_older' = [link_older EXCEPT ![Drain] = Null]
    /\ link_newer' = [link_newer EXCEPT ![Drain] = Null]
    /\ Go(w, th[w].ret)
    /\ UNCHANGED <<opt, newest_writer, group, db, history>>

----------------------------------------------------------------------------

\* What the thread does once it has called Write or EnterUnbatched.
Step(w) ==
    \/ th[w].pc # "Idle" /\ LinkOne(w)
    \/ AwaitState(w) \/ BlockingAwaitState(w)
    \/ PreprocessWrite(w) \/ SwitchMemtable(w) \/ SwitchDone(w)
    \/ BeginWriteStall(w) \/ EndWriteStall(w)
    \/ EnterAsBatchGroupLeader(w)
    \/ WriteGroupToWAL(w) \/ WritePipelinedGroupToWAL(w)
    \/ Insert(w) \/ LaunchParallelMemTableWriters(w) \/ LaunchNext(w)
    \/ ParallelInsert(w) \/ CompleteParallelMemTableWriter(w) \/ Publish(w)
    \/ Handoff(w) \/ CompleteFollowers(w) \/ ExitUnbatched(w) \/ Return(w)
    \/ DropFromGroup(w) \/ InsertDummy(w) \/ LinkGroup(w) \/ WakeNextLeader(w)
    \/ EnterAsMemTableWriter(w) \/ MemHandoff(w) \/ CompleteMemFollowers(w)
    \/ WaitForMemTableWriters(w) \/ DrainLink(w) \/ DrainDone(w)

Next == \E w \in Writer : LinkOne(w) \/ Step(w)

Fairness == WF_vars(\E w \in Writer : Step(w))

Spec == Init /\ [][Next]_vars /\ Fairness

----------------------------------------------------------------------------

\* Types of the lists, of Writer objects, threads and groups, and of the store.
TypeOK ==
    /\ opt \in Scenarios
    /\ {newest_writer, newest_memtable_writer} \subseteq Node \cup {Null}
    /\ link_older \in [Node -> Node \cup {Null}]
    /\ link_newer \in [Node -> Node \cup {Null}]
    /\ wr \in [Node -> [state : State, write_group : Writer \cup {Null}, status : Status,
                        callback : BOOLEAN, sequence : Nat]]
    /\ th \in [Writer -> [pc : STRING, ret : STRING, cur : Node \cup {Null},
                          last : Writer \cup {Null}, status : Status, last_sequence : Nat]]
    /\ group \in [Writer -> [leader : Writer \cup {Null}, last_writer : Writer \cup {Null},
                             size : Nat, status : Status, running : Nat, last_sequence : Nat]]
    /\ synced \in 0 .. Len(wal)
    /\ {last_sequence, allocated} \subseteq Nat /\ bg_error \in BOOLEAN

Alive(w) == th[w].pc # "Idle"

\* Threads in the part of a write that only the one leader may run.
Leading ==
    {w \in Writer :
        \/ th[w].pc \in {"Leader", "Delayed", "Stalled", "Switch", "Switched", "Enter", "WAL",
                         "Drop", "Dummy", "LinkGroup", "NextLeader", "Drain", "DrainLink",
                         "DrainWait", "Drained", "Unbatched"}
        \/ ~opt.pipelined /\ th[w].pc \in {"Insert", "Launch", "LaunchNext", "Publish",
                                             "Handoff"}}

\* Writers whose batches are going to the memtable, or will without a further leader.
WritingToMemtable ==
    {w \in Writer :
        \/ th[w].pc \in {"EnterMem", "Insert", "Launch", "LaunchNext", "PInsert", "PComplete",
                         "Publish", "MemPublish"}
        \/ \E i \in 1 .. MaxWalk : Walk(link_older, newest_memtable_writer)[i] = w}

(***************************************************************************)
(* "Correctness is maintained by ensuring that only a single thread is a   *)
(* leader at a time" (db/write_thread.h).  A leader that switches memtables*)
(* and a thread that has entered unbatched, say to switch them, also have  *)
(* no memtable writers next to them, pipelined or parallel.                *)
(***************************************************************************)
LeaderIsAlone ==
    /\ Cardinality(Leading) <= 1
    /\ \A w \in Leading : th[w].pc \in {"Switch", "Unbatched"} => WritingToMemtable = {}

(***************************************************************************)
(* No thread follows a pointer to a Writer or a WriteGroup whose owner has *)
(* returned: loops over a group read the next link before they complete    *)
(* its writer, parallel writers wait for the one that is still waking      *)
(* others, and the owner of a WriteGroup is completed last.                *)
(***************************************************************************)
OnlyLiveWritersTouched ==
    \A w \in Writer :
        LET loops == th[w].pc \in {"Launch", "LaunchNext", "Followers", "Drop", "MemFollowers",
                                   "LinkGroup", "NextLeader"}
            exits == th[w].pc \in {"PComplete", "Publish", "MemPublish", "Handoff", "Followers",
                                   "MemHandoff", "MemFollowers"}
            owner == wr[w].write_group
        IN  /\ loops /\ th[w].cur \in Writer => Alive(th[w].cur)
            /\ exits => Alive(owner) /\ group[owner].size > 0

(***************************************************************************)
(* The assertion of CreateMissingNewerLinks, in both lists: a link_newer   *)
(* that was created earlier agrees with link_older, although LinkGroup     *)
(* moves writers with links of the one list to the other.  (The dummy of a *)
(* stall has left the list before links are created again.)                *)
(***************************************************************************)
LinksAgree ==
    \A head \in {newest_writer, newest_memtable_writer} \cap Node :
        LET at == Walk(link_older, head) IN
        \A i \in 1 .. MaxWalk - 1 :
            at[i] \notin {Null, Stall} /\ at[i + 1] # Null
                => link_newer[at[i + 1]] \in {Null, at[i]}

\* Every write returns: nobody sleeps through its wake-up, in the list, in a
\* stall, in a parallel group or behind the memtable writers.
WritesReturn == []<>(\A w \in Writer : ~Alive(w))

\* Group commit keeps the promise made to each single write.
Order == INSTANCE WriteOrder WITH
    request <- [id \in UNION {{w} \X (1 .. opt.calls[w]) : w \in Writer} |->
                    [log |-> ~Req(id[1]).disable_wal, sync |-> Req(id[1]).sync]],
    log <- wal, applied <- mem, visible <- last_sequence,
    answered <- results

(***************************************************************************)
(* The write thread implements WriteOrder: the log and the memtables agree *)
(* on sequence numbers, nothing appears below a published sequence number, *)
(* and successful writes are logged, synced and visible as requested.      *)
(***************************************************************************)
ImplementsWriteOrder == Order!Spec
============================================================================
