------------------------------ MODULE Cluster ------------------------------
(***************************************************************************)
(* The cluster of cc/: the coordinator with its puts thread and its server *)
(* for handle_repartition, the instances with db_srv and pa_srv, and the   *)
(* partitioner.  rpclib is external: a call is a request in the FIFO of    *)
(* the one connection the coordinator has to an instance, a synchronous    *)
(* call waits until the request was served.                                *)
(*                                                                         *)
(* What repartition decides is any member of ExceptionLists here; module   *)
(* Partitioner says how it is computed.                                    *)
(***************************************************************************)
EXTENDS Integers, Sequences, FiniteSets

CONSTANTS
    Num,              \* number of instances
    Key,              \* the keys that come on stdin
    ExceptionLists,   \* the key_to_instance maps a partitioner may send
    MaxPuts,          \* bound: lines on stdin
    MaxRounds         \* bound: partitioner processes started, one after another

Instance == 0 .. Num - 1

\* With fewer instances clients[item.first % 3] is out of bounds.
ASSUME NumAssumption == Num \in Nat /\ Num >= 3
ASSUME KeyAssumption == Key \subseteq Nat
ASSUME ListAssumption == \A ex \in ExceptionLists :
    DOMAIN ex \subseteq Key /\ \A key \in DOMAIN ex : ex[key] \in Instance
ASSUME BoundAssumption == MaxPuts \in Nat /\ MaxRounds \in Nat

VARIABLES
    exceptions,    \* Coordinator::exceptions
    except_lock,   \* held by the handler ("handler") or free ("free")
    puts,          \* the puts thread: pc, key and instance of its call, and
                   \* whether its lookup came after the last repartition
    lines,         \* lines read from stdin
    handler,       \* handle_repartition: pc and keys still to delete
    queue,         \* per instance: requests sent to db_srv, not yet served
    stored,        \* per instance: the keys in its database
    running,       \* per instance: the process has not exited
    partitioner,   \* the partitioner: pc and the instances that have answered
    rounds,        \* partitioner processes started
    inbox,         \* calls of handle_repartition not yet taken by the server
    fresh          \* history: keys put that no repartition since then concerns

vars == <<exceptions, except_lock, puts, lines, handler, queue, stored, running,
          partitioner, rounds, inbox, fresh>>

\* Faulty Home: the modulo is left out.
HomeUnreduced(key) == key

Home(key) == key % Num

\* Faulty Lookup: the exceptions are ignored.
LookupHome(key) == Home(key)

\* Coordinator::lookup
Lookup(key) == IF key \in DOMAIN exceptions THEN exceptions[key] ELSE Home(key)

Request(op, key) == [op |-> op, key |-> key]

Send(i, req) == queue' = [queue EXCEPT ![i] = Append(@, req)]

Init ==
    /\ exceptions = <<>>
    /\ except_lock = "free"
    /\ puts = [pc |-> "read", key |-> 0, inst |-> 0, current |-> TRUE]
    /\ lines = 0
    /\ handler = [pc |-> "idle", todo |-> {}]
    /\ queue = [i \in Instance |-> <<>>]
    /\ stored = [i \in Instance |-> {}]
    /\ running = [i \in Instance |-> TRUE]
    /\ partitioner = [pc |-> "idle", answers |-> {}]
    /\ rounds = 0
    /\ inbox = <<>>
    /\ fresh = {}

----------------------------------------------------------------------------
(* The puts thread of the coordinator.                                     *)

ReadLine(key) ==
    /\ puts.pc = "read" /\ lines < MaxPuts
    /\ puts' = [puts EXCEPT !.pc = "lookup", !.key = key]
    /\ lines' = lines + 1
    /\ UNCHANGED <<exceptions, except_lock, handler, queue, stored, running,
                   partitioner, rounds, inbox, fresh>>

\* lookup holds except_lock only while it reads the map.
LookupKey ==
    /\ puts.pc = "lookup"
    /\ except_lock = "free"
    /\ puts' = [puts EXCEPT !.pc = "send", !.inst = Lookup(puts.key), !.current = TRUE]
    /\ UNCHANGED <<exceptions, except_lock, lines, handler, queue, stored, running,
                   partitioner, rounds, inbox, fresh>>

\* call("put", key), after except_lock was released.
SendPut ==
    /\ puts.pc = "send"
    /\ Send(puts.inst, Request("put", puts.key))
    /\ puts' = [puts EXCEPT !.pc = "wait"]
    /\ UNCHANGED <<exceptions, except_lock, lines, handler, stored, running,
                   partitioner, rounds, inbox, fresh>>

\* End of input: report_stats calls one instance after the other.
EndOfInput ==
    /\ puts.pc = "read"
    /\ puts' = [puts EXCEPT !.pc = "stats", !.inst = 0]
    /\ UNCHANGED <<exceptions, except_lock, lines, handler, queue, stored,
                   running, partitioner, rounds, inbox, fresh>>

SendStats ==
    /\ puts.pc = "stats" /\ puts.inst \in Instance
    /\ Send(puts.inst, Request("report_dbstats", 0))
    /\ puts' = [puts EXCEPT !.pc = "wait_stats"]
    /\ UNCHANGED <<exceptions, except_lock, lines, handler, stored, running,
                   partitioner, rounds, inbox, fresh>>

\* stop(): async_call("stop_db_srv") to every instance, then sleep.
Stop ==
    /\ puts.pc = "stats" /\ puts.inst \notin Instance
    /\ queue' = [i \in Instance |-> Append(queue[i], Request("stop_db_srv", 0))]
    /\ puts' = [puts EXCEPT !.pc = "sleep"]
    /\ UNCHANGED <<exceptions, except_lock, lines, handler, stored, running,
                   partitioner, rounds, inbox, fresh>>

\* exit(0) ends the process, the server thread and its handler included.
Exit ==
    /\ puts.pc = "sleep"
    /\ puts' = [puts EXCEPT !.pc = "exited"]
    /\ UNCHANGED <<exceptions, except_lock, lines, handler, queue, stored,
                   running, partitioner, rounds, inbox, fresh>>

PutsThread ==
    \/ \E key \in Key : ReadLine(key)
    \/ LookupKey \/ SendPut \/ EndOfInput \/ SendStats \/ Stop \/ Exit

----------------------------------------------------------------------------
(* handle_repartition, on the server thread of the coordinator.            *)

CoordinatorUp == puts.pc # "exited"

\* "item.first % 3", for any number of instances.
Origin(key) == key % 3

(***************************************************************************)
(* The keys a repartition with list ex does not concern: lookup sends them *)
(* to the same instance as before, and that is not where they are deleted. *)
(***************************************************************************)
Spared(ex) ==
    {key \in Key : IF key \in DOMAIN ex
                   THEN ex[key] = Lookup(key) /\ ex[key] # Origin(key)
                   ELSE Home(key) = Lookup(key)}

HandleRepartition ==
    /\ CoordinatorUp
    /\ handler.pc = "idle" /\ inbox # <<>>
    /\ except_lock = "free"
    /\ except_lock' = "handler"
    /\ exceptions' = Head(inbox)
    /\ inbox' = Tail(inbox)
    /\ handler' = [pc |-> "loop", todo |-> DOMAIN Head(inbox)]
    /\ fresh' = fresh \cap Spared(Head(inbox))
    /\ puts' = [puts EXCEPT !.current = FALSE]
    /\ UNCHANGED <<lines, queue, stored, running, partitioner, rounds>>

\* The order of the map is arbitrary.
SendDelete(key) ==
    /\ CoordinatorUp
    /\ handler.pc = "loop" /\ key \in handler.todo
    /\ Send(Origin(key), Request("delete", key))
    /\ handler' = [pc |-> "wait", todo |-> handler.todo \ {key}]
    /\ UNCHANGED <<exceptions, except_lock, puts, lines, stored, running,
                   partitioner, rounds, inbox, fresh>>

\* Faulty Finish: the lock is released before the deletes are sent.
FinishEarly ==
    /\ CoordinatorUp
    /\ except_lock = "handler"
    /\ except_lock' = "free"
    /\ handler' = [handler EXCEPT !.pc = IF handler.todo = {} THEN "idle" ELSE @]
    /\ UNCHANGED <<exceptions, puts, lines, queue, stored, running, partitioner,
                   rounds, inbox, fresh>>

\* Faulty Finish: the lock is kept.
FinishKeepsLock ==
    /\ CoordinatorUp
    /\ handler.pc = "loop" /\ handler.todo = {}
    /\ handler' = [handler EXCEPT !.pc = "idle"]
    /\ UNCHANGED <<exceptions, except_lock, puts, lines, queue, stored, running,
                   partitioner, rounds, inbox, fresh>>

\* The guard's destructor releases except_lock.
Finish ==
    /\ CoordinatorUp
    /\ handler.pc = "loop" /\ handler.todo = {}
    /\ except_lock' = "free"
    /\ handler' = [handler EXCEPT !.pc = "idle"]
    /\ UNCHANGED <<exceptions, puts, lines, queue, stored, running, partitioner,
                   rounds, inbox, fresh>>

Handler == HandleRepartition \/ (\E key \in Key : SendDelete(key)) \/ Finish

----------------------------------------------------------------------------
(* The instances.  db_srv serves one request at a time, in order.          *)

Reply(i, req) ==
    CASE req.op = "put" ->
            /\ stored' = [stored EXCEPT ![i] = @ \cup {req.key}]
            /\ puts' = [puts EXCEPT !.pc = "read"]
            /\ fresh' = IF puts.current THEN fresh \cup {req.key} ELSE fresh
            /\ UNCHANGED <<handler, running>>
      [] req.op = "delete" ->
            /\ stored' = [stored EXCEPT ![i] = @ \ {req.key}]
            /\ handler' = [handler EXCEPT !.pc = "loop"]
            /\ UNCHANGED <<puts, fresh, running>>
      [] req.op = "report_dbstats" ->
            /\ puts' = [puts EXCEPT !.pc = "stats", !.inst = @ + 1]
            /\ UNCHANGED <<stored, handler, fresh, running>>
      [] req.op = "stop_db_srv" ->
            /\ running' = [running EXCEPT ![i] = FALSE]
            /\ UNCHANGED <<stored, puts, handler, fresh>>

Serve(i) ==
    /\ running[i] /\ queue[i] # <<>>
    /\ queue' = [queue EXCEPT ![i] = Tail(@)]
    /\ Reply(i, Head(queue[i]))
    /\ UNCHANGED <<exceptions, except_lock, lines, partitioner, rounds, inbox>>

\* pa_srv answers report_topk on a thread of its own.
ServeTopk(i) ==
    /\ running[i]
    /\ partitioner.pc = "waiting" /\ i \notin partitioner.answers
    /\ partitioner' = [partitioner EXCEPT !.answers = @ \cup {i}]
    /\ UNCHANGED <<exceptions, except_lock, puts, lines, handler, queue, stored,
                   running, rounds, inbox, fresh>>

----------------------------------------------------------------------------
(* The partitioner: one round of Partitioner::run per process.             *)

StartRound ==
    /\ partitioner.pc = "idle" /\ rounds < MaxRounds
    /\ rounds' = rounds + 1
    /\ partitioner' = [pc |-> "waiting", answers |-> {}]
    /\ UNCHANGED <<exceptions, except_lock, puts, lines, handler, queue, stored,
                   running, inbox, fresh>>

\* All futures are ready.  The call is not waited for: if the process ends before
\* it is on its way, or the coordinator has exited, nobody notices its loss.
SendExceptions(ex) ==
    /\ partitioner.pc = "waiting" /\ partitioner.answers = Instance
    /\ \/ CoordinatorUp /\ inbox' = Append(inbox, ex)
       \/ UNCHANGED inbox
    /\ partitioner' = [partitioner EXCEPT !.pc = "idle"]
    /\ UNCHANGED <<exceptions, except_lock, puts, lines, handler, queue, stored,
                   running, rounds, fresh>>

Next ==
    \/ PutsThread
    \/ Handler
    \/ \E i \in Instance : Serve(i) \/ ServeTopk(i)
    \/ StartRound
    \/ \E ex \in ExceptionLists : SendExceptions(ex)

(***************************************************************************)
(* Each thread that can take a step eventually takes one: the threads are  *)
(* the operating system's.  Nothing is assumed of the partitioner, which   *)
(* the user starts.                                                        *)
(***************************************************************************)
Fairness ==
    /\ WF_vars(PutsThread)
    /\ WF_vars(Handler)
    /\ \A i \in Instance : WF_vars(Serve(i))

Spec == Init /\ [][Next]_vars /\ Fairness

----------------------------------------------------------------------------

\* Types; every key an instance holds or is sent is addressed to an existing instance.
TypeOK ==
    /\ DOMAIN exceptions \subseteq Key
    /\ \A key \in DOMAIN exceptions : exceptions[key] \in Instance
    /\ except_lock \in {"free", "handler"}
    /\ puts \in [pc : {"read", "lookup", "send", "wait", "stats", "wait_stats",
                       "sleep", "exited"},
                 key : Nat, inst : 0 .. Num, current : BOOLEAN]
    /\ lines \in 0 .. MaxPuts
    /\ handler \in [pc : {"idle", "loop", "wait"}, todo : SUBSET Key]
    /\ queue \in [Instance -> Seq([op : {"put", "delete", "report_dbstats",
                                         "stop_db_srv"}, key : Nat])]
    /\ stored \in [Instance -> SUBSET Key]
    /\ running \in [Instance -> BOOLEAN]
    /\ partitioner \in [pc : {"idle", "waiting"}, answers : SUBSET Instance]
    /\ rounds \in 0 .. MaxRounds
    /\ inbox \in Seq(ExceptionLists)
    /\ fresh \subseteq Key

(***************************************************************************)
(* A key that was put is in the database lookup sends readers to, until a  *)
(* repartition moves it (handle_repartition copies nothing) or names the   *)
(* instance that has it and deletes it there.  Neither the deletes of      *)
(* other keys nor those of a repartition whose list the put has seen take  *)
(* it away: except_lock is held until the last delete was served.          *)
(***************************************************************************)
FreshPutsReachable == \A key \in fresh : key \in stored[Lookup(key)]

\* Rerouted keys that also are in the database of their home instance.
Strays ==
    {key \in DOMAIN exceptions :
        exceptions[key] # Home(key) /\ key \in stored[Home(key)]}

(***************************************************************************)
(* When handle_repartition has returned, at most one rerouted key still    *)
(* has a copy at its home instance: put looks up and calls without holding *)
(* except_lock in between, but there is one puts thread.                   *)
(***************************************************************************)
AtMostOneStray == handler.pc = "idle" => Cardinality(Strays) <= 1

(***************************************************************************)
(* A delete of handle_repartition goes to the instance that held the key   *)
(* before it was rerouted (README: `number-of-instances` is a parameter).  *)
(***************************************************************************)
DeletesGoHome ==
    \A i \in Instance : \A n \in DOMAIN queue[i] :
        queue[i][n].op = "delete" => i = Home(queue[i][n].key)

(***************************************************************************)
(* The coordinator always exits: the puts thread cannot be kept from its   *)
(* lock for ever by a handler that waits for an instance which the puts    *)
(* thread itself has stopped.                                              *)
(***************************************************************************)
CoordinatorExits == <>(puts.pc = "exited")
============================================================================
