--------------------------- MODULE MCWriteThread ---------------------------
(***************************************************************************)
(* Three threads and the scenarios TLC explores: a scenario fixes the      *)
(* options of the database, what each thread asks for, how often, and what *)
(* may go wrong.                                                           *)
(***************************************************************************)
EXTENDS WriteThread, TLC

CONSTANTS w1, w2, w3

Plain == [batch |-> TRUE, sync |-> FALSE, disable_wal |-> FALSE, no_slowdown |-> FALSE,
          callback |-> "none", merge |-> FALSE, bad |-> FALSE]
Unbatched == [Plain EXCEPT !.batch = FALSE]
Sync == [Plain EXCEPT !.sync = TRUE]
NoWal == [Plain EXCEPT !.disable_wal = TRUE]
NoSlowdown == [Plain EXCEPT !.no_slowdown = TRUE]
Merge == [Plain EXCEPT !.merge = TRUE]
Bad == [Plain EXCEPT !.bad = TRUE]
CallbackFails == [Plain EXCEPT !.callback = "fails"]
CallbackAlone == [Plain EXCEPT !.callback = "alone"]

With(a, b, c) == w1 :> a @@ w2 :> b @@ w3 :> c

Default == [pipelined |-> FALSE, concurrent |-> TRUE, failures |-> FALSE, stalls |-> FALSE,
            switches |-> FALSE, calls |-> With(1, 1, 1), req |-> With(Plain, Plain, Plain)]
Pipelined == [Default EXCEPT !.pipelined = TRUE]

\* Without pipelining: log failures and sequential inserts after a merge; inserts
\* that fail; stalls with a writer that does not wait for them; unbatched threads,
\* callbacks and unlogged writes next to memtable switches; a thread whose second
\* Writer has the address of its first.
UnpipelinedScenarios ==
    {[Default EXCEPT !.req = With(Sync, Plain, Merge), !.failures = TRUE],
     [Default EXCEPT !.req = With(Plain, Bad, Plain)],
     [Default EXCEPT !.req = With(NoSlowdown, Plain, Plain), !.stalls = TRUE],
     [Default EXCEPT !.req = With(Unbatched, CallbackFails, NoWal), !.switches = TRUE],
     [Default EXCEPT !.calls = With(2, 1, 1)]}

\* With pipelining, each thread writing once: callbacks that fail without the log,
\* log failures and a thread that drains the memtable writers, inserts that fail,
\* merges and a callback that wants no batching, memtable switches.
PipelinedScenarios ==
    {[Pipelined EXCEPT !.req = With([NoWal EXCEPT !.callback = "fails"], NoWal, NoWal)],
     [Pipelined EXCEPT !.req = With(Unbatched, Sync, Plain), !.failures = TRUE],
     [Pipelined EXCEPT !.req = With(Plain, Bad, Plain), !.calls = With(1, 1, 0),
                       !.concurrent = FALSE],
     [Pipelined EXCEPT !.req = With(CallbackAlone, Merge, Plain)],
     [Pipelined EXCEPT !.req = With(Merge, Plain, Plain), !.calls = With(1, 1, 0),
                       !.switches = TRUE]}

MCScenarios == UnpipelinedScenarios \cup PipelinedScenarios

\* Without pipelining, the leader inserts for all and an insert fails.
MCSequentialInsertFails ==
    {[Default EXCEPT !.req = With(Plain, Bad, Plain), !.concurrent = FALSE]}
============================================================================
