--------------------------- MODULE ClusterProofs ---------------------------
(***************************************************************************)
(* The safety properties of Cluster, for any keys, any exception lists and *)
(* any number of puts and repartitions.  Types and reachability hold for   *)
(* any number of instances, what is said about stray copies for three.     *)
(***************************************************************************)
EXTENDS Cluster, FiniteSetTheorems, SequenceTheorems, TLAPS

Requests == [op : {"put", "delete", "report_dbstats", "stop_db_srv"}, key : Nat]

\* What a request in a queue tells about the thread that waits for its answer.
Waited(i, req) ==
    /\ req.op = "put" =>
        puts.pc = "wait" /\ i = puts.inst /\ req.key = puts.key
    /\ req.op = "report_dbstats" => puts.pc = "wait_stats"
    /\ req.op = "delete" =>
        /\ handler.pc = "wait" /\ i = Origin(req.key)
        /\ req.key \in Key \cap DOMAIN exceptions

AllWaited ==
    \A i \in Instance : \A n \in DOMAIN queue[i] : Waited(i, queue[i][n])

\* The two threads of the coordinator that wait for answers.
SameCaller(op1, op2) ==
    \/ op1 \in {"put", "report_dbstats"} /\ op2 \in {"put", "report_dbstats"}
    \/ op1 = "delete" /\ op2 = "delete"

\* A synchronous call is the only one of its thread.
OneCallEach ==
    \A i, j \in Instance : \A n \in DOMAIN queue[i], m \in DOMAIN queue[j] :
        SameCaller(queue[i][n].op, queue[j][m].op) => i = j /\ n = m

\* The puts thread has a key and an instance to call.
PutsTyped ==
    /\ puts.pc \in {"lookup", "send", "wait"} => puts.key \in Key
    /\ puts.pc \in {"send", "wait", "wait_stats"} => puts.inst \in Instance

\* except_lock is held as long as handle_repartition runs, so nothing is looked up
\* before its last delete; and it deletes no key of fresh where that is.
LockHeld ==
    /\ handler.pc # "idle" => except_lock = "handler" /\ puts.current = FALSE
    /\ handler.pc # "idle" =>
        \A key \in fresh \cap DOMAIN exceptions : exceptions[key] # Origin(key)
    /\ handler.pc = "idle" => handler.todo = {}
    /\ handler.todo \subseteq DOMAIN exceptions

\* What lookup returned is right until the next repartition.
LookupCurrent ==
    puts.current = TRUE /\ puts.pc \in {"send", "wait"} => puts.inst = Lookup(puts.key)

\* The inductive invariant behind FreshPutsReachable.
Inv ==
    /\ TypeOK /\ AllWaited /\ OneCallEach /\ PutsTyped /\ LockHeld
    /\ LookupCurrent /\ FreshPutsReachable

\* The keys handle_repartition has not yet deleted at their origin.
Undeleted ==
    handler.todo \cup {key \in Key :
        \E i \in Instance : \E n \in DOMAIN queue[i] : queue[i][n] = Request("delete", key)}

\* The put whose lookup came before the repartition and which is not yet served.
Straddling == puts.current = FALSE /\ puts.pc \in {"send", "wait"}

(***************************************************************************)
(* The inductive invariant behind AtMostOneStray: a stray not about to be  *)
(* deleted was put by the one straddling put.                              *)
(***************************************************************************)
StraysAccounted ==
    \E stray \in Nat :
        /\ Strays \subseteq Undeleted \cup {stray}
        /\ Straddling => Strays \subseteq Undeleted

----------------------------------------------------------------------------
(* What the actions do to the queues.                                      *)

\* A request sent comes last in its queue and changes no other.
LEMMA SendAppends ==
    ASSUME TypeOK, NEW i \in Instance, NEW req \in Requests, Send(i, req)
    PROVE  /\ queue' \in [Instance -> Seq(Requests)]
           /\ \A j \in Instance : \A n \in DOMAIN queue'[j] :
                \/ n \in DOMAIN queue[j] /\ queue'[j][n] = queue[j][n]
                \/ j = i /\ n = Len(queue[i]) + 1 /\ queue'[j][n] = req
<1>1. queue \in [Instance -> Seq(Requests)]
  BY DEF TypeOK, Requests
<1>2. queue' = [queue EXCEPT ![i] = Append(queue[i], req)]
  BY DEF Send
<1>3. /\ Append(queue[i], req) \in Seq(Requests)
      /\ Len(Append(queue[i], req)) = Len(queue[i]) + 1
      /\ \A n \in 1 .. Len(queue[i]) : Append(queue[i], req)[n] = queue[i][n]
      /\ Append(queue[i], req)[Len(queue[i]) + 1] = req
  BY <1>1, AppendProperties
<1>4. queue' \in [Instance -> Seq(Requests)]
  BY <1>1, <1>2, <1>3
<1>5. ASSUME NEW j \in Instance, NEW n \in DOMAIN queue'[j]
      PROVE  \/ n \in DOMAIN queue[j] /\ queue'[j][n] = queue[j][n]
             \/ j = i /\ n = Len(queue[i]) + 1 /\ queue'[j][n] = req
  <2>1. CASE j = i
    <3>1. queue'[j] = Append(queue[i], req)
      BY <1>1, <1>2, <2>1
    <3>2. DOMAIN queue'[j] = 1 .. Len(queue[i]) + 1 /\ DOMAIN queue[i] = 1 .. Len(queue[i])
          /\ Len(queue[i]) \in Nat
      BY <1>1, <1>3, <3>1, LenProperties
    <3> QED BY <1>3, <2>1, <3>1, <3>2
  <2>2. CASE j # i
    BY <1>1, <1>2, <2>2
  <2> QED BY <2>1, <2>2
<1> QED BY <1>4, <1>5

\* A request served was first in its queue; the others keep their order.
LEMMA ServeTakes ==
    ASSUME TypeOK, NEW i \in Instance, queue[i] # <<>>,
           queue' = [queue EXCEPT ![i] = Tail(@)]
    PROVE  /\ queue' \in [Instance -> Seq(Requests)]
           /\ 1 \in DOMAIN queue[i] /\ Head(queue[i]) = queue[i][1]
           /\ queue[i][1] \in Requests
           /\ \A j \in Instance : \A n \in DOMAIN queue'[j] :
                \/ j # i /\ n \in DOMAIN queue[j] /\ queue'[j][n] = queue[j][n]
                \/ j = i /\ n \in Nat \ {0} /\ n + 1 \in DOMAIN queue[j]
                         /\ queue'[j][n] = queue[j][n + 1]
<1>1. queue \in [Instance -> Seq(Requests)]
  BY DEF TypeOK, Requests
<1> DEFINE q == queue[i]
<1>2. /\ q \in Seq(Requests) /\ q # <<>>
      /\ Tail(q) \in Seq(Requests) /\ Len(Tail(q)) = Len(q) - 1
      /\ \A n \in 1 .. Len(Tail(q)) : Tail(q)[n] = q[n + 1]
  BY <1>1, HeadTailProperties
<1>3. Len(q) \in Nat /\ DOMAIN q = 1 .. Len(q) /\ DOMAIN Tail(q) = 1 .. Len(q) - 1
  BY <1>2, LenProperties
<1>4. 1 \in DOMAIN q /\ Head(q) = q[1] /\ q[1] \in Requests
  <2>1. Len(q) # 0
    BY <1>2, EmptySeq
  <2>2. Len(q) >= 1
    BY <1>3, <2>1
  <2> QED BY <1>2, <1>3, <2>2, ElementOfSeq
<1>5. queue' \in [Instance -> Seq(Requests)]
  BY <1>1, <1>2
<1>6. ASSUME NEW j \in Instance, NEW n \in DOMAIN queue'[j]
      PROVE  \/ j # i /\ n \in DOMAIN queue[j] /\ queue'[j][n] = queue[j][n]
             \/ j = i /\ n \in Nat \ {0} /\ n + 1 \in DOMAIN queue[j]
                      /\ queue'[j][n] = queue[j][n + 1]
  <2>1. CASE j = i
    <3>1. queue'[j] = Tail(q) /\ queue[j] = q
      BY <1>1, <2>1
    <3> HIDE DEF q
    <3> QED BY <1>2, <1>3, <2>1, <3>1
  <2>2. CASE j # i
    BY <1>1, <2>2
  <2> QED BY <2>1, <2>2
<1> QED BY <1>4, <1>5, <1>6
\* What is sent by stop() needs no answer.
LEMMA StopAppends ==
    ASSUME TypeOK, Stop
    PROVE  /\ queue' \in [Instance -> Seq(Requests)]
           /\ \A j \in Instance : \A n \in DOMAIN queue'[j] :
                \/ n \in DOMAIN queue[j] /\ queue'[j][n] = queue[j][n]
                \/ queue'[j][n].op = "stop_db_srv"
<1> DEFINE req == Request("stop_db_srv", 0)
<1>1. queue \in [Instance -> Seq(Requests)] /\ req \in Requests /\ req.op = "stop_db_srv"
  BY DEF TypeOK, Requests, Request
<1> HIDE DEF req
<1>2. queue' = [i \in Instance |-> Append(queue[i], req)]
  BY DEF Stop, req
<1>3. \A j \in Instance :
        /\ Append(queue[j], req) \in Seq(Requests)
        /\ Len(Append(queue[j], req)) = Len(queue[j]) + 1
        /\ \A n \in 1 .. Len(queue[j]) : Append(queue[j], req)[n] = queue[j][n]
        /\ Append(queue[j], req)[Len(queue[j]) + 1] = req
  BY <1>1, AppendProperties
<1>4. ASSUME NEW j \in Instance, NEW n \in DOMAIN queue'[j]
      PROVE  \/ n \in DOMAIN queue[j] /\ queue'[j][n] = queue[j][n]
             \/ queue'[j][n].op = "stop_db_srv"
  <2>1. queue'[j] = Append(queue[j], req)
    BY <1>2
  <2>2. DOMAIN queue'[j] = 1 .. Len(queue[j]) + 1 /\ DOMAIN queue[j] = 1 .. Len(queue[j])
        /\ Len(queue[j]) \in Nat
    BY <1>1, <1>3, <2>1, LenProperties
  <2> QED BY <1>1, <1>3, <2>1, <2>2
<1> QED BY <1>2, <1>3, <1>4

\* The answers of db_srv, one operation at a time.
LEMMA ReplyCases ==
    ASSUME NEW i, NEW req, Reply(i, req)
    PROVE  /\ req.op = "put" =>
                /\ stored' = [stored EXCEPT ![i] = stored[i] \cup {req.key}]
                /\ puts' = [puts EXCEPT !.pc = "read"]
                /\ fresh' = IF puts.current THEN fresh \cup {req.key} ELSE fresh
                /\ handler' = handler /\ running' = running
           /\ req.op = "delete" =>
                /\ stored' = [stored EXCEPT ![i] = stored[i] \ {req.key}]
                /\ handler' = [handler EXCEPT !.pc = "loop"]
                /\ puts' = puts /\ fresh' = fresh /\ running' = running
           /\ req.op = "report_dbstats" =>
                /\ puts' = [puts EXCEPT !.pc = "stats", !.inst = puts.inst + 1]
                /\ stored' = stored /\ handler' = handler /\ fresh' = fresh /\ running' = running
           /\ req.op = "stop_db_srv" =>
                /\ running' = [running EXCEPT ![i] = FALSE]
                /\ stored' = stored /\ puts' = puts /\ handler' = handler /\ fresh' = fresh
BY Zenon DEF Reply

----------------------------------------------------------------------------
(* Types.                                                                  *)

\* Both remainders name an instance, there being three at least.
LEMMA HomeType == \A key \in Nat : Home(key) \in Instance /\ Origin(key) \in Instance
BY NumAssumption DEF Home, Origin, Instance

\* lookup returns an instance.
LEMMA LookupType ==
    ASSUME TypeOK, NEW key \in Key
    PROVE  Lookup(key) \in Instance
BY KeyAssumption, HomeType DEF TypeOK, Lookup

\* The invariant holds when the coordinator starts.
LEMMA InvInit == Init => Inv
<1> SUFFICES ASSUME Init PROVE Inv
  OBVIOUS
<1>1. TypeOK
  BY NumAssumption, BoundAssumption DEF Init, TypeOK, Instance
<1>2. AllWaited /\ OneCallEach
  BY DEF Init, AllWaited, OneCallEach
<1>3. PutsTyped /\ LockHeld /\ LookupCurrent /\ FreshPutsReachable
  BY DEF Init, PutsTyped, LockHeld, LookupCurrent, FreshPutsReachable
<1> QED BY <1>1, <1>2, <1>3 DEF Inv

\* Every step keeps the types: what is sent, stored and looked up is addressed.
LEMMA TypeNext == Inv /\ [Next]_vars => TypeOK'
<1> SUFFICES ASSUME Inv, [Next]_vars PROVE TypeOK'
  OBVIOUS
<1> USE DEF Inv
<1>1. ASSUME NEW key \in Key, ReadLine(key) PROVE TypeOK'
  <2>1. key \in Nat /\ lines' \in 0 .. MaxPuts
    BY SMTT(30), <1>1, KeyAssumption, BoundAssumption DEF ReadLine, TypeOK
  <2> QED BY Zenon, <1>1, <2>1 DEF ReadLine, TypeOK
<1>2. CASE LookupKey
  <2>1. Lookup(puts.key) \in 0 .. Num
    BY <1>2, LookupType, NumAssumption DEF LookupKey, PutsTyped, Instance
  <2> QED BY Zenon, <1>2, <2>1 DEF LookupKey, TypeOK
<1>3. CASE SendPut
  <2>1. puts.inst \in Instance /\ Request("put", puts.key) \in Requests
    BY <1>3 DEF SendPut, PutsTyped, TypeOK, Request, Requests
  <2>2. queue' \in [Instance -> Seq(Requests)]
    BY <1>3, <2>1, SendAppends DEF SendPut
  <2> QED BY Zenon, <1>3, <2>2 DEF SendPut, TypeOK, Requests
<1>4. CASE EndOfInput
  <2>1. 0 \in 0 .. Num
    BY NumAssumption
  <2> QED BY Zenon, <1>4, <2>1 DEF EndOfInput, TypeOK
<1>5. CASE SendStats
  <2>1. puts.inst \in Instance /\ Request("report_dbstats", 0) \in Requests
    BY <1>5 DEF SendStats, Request, Requests
  <2>2. queue' \in [Instance -> Seq(Requests)]
    BY <1>5, <2>1, SendAppends DEF SendStats
  <2> QED BY Zenon, <1>5, <2>2 DEF SendStats, TypeOK, Requests
<1>6. CASE Stop
  <2>1. queue' \in [Instance -> Seq(Requests)]
    BY <1>6, StopAppends
  <2> QED BY Zenon, <1>6, <2>1 DEF Stop, TypeOK, Requests
<1>7. CASE Exit
  BY Zenon, <1>7 DEF Exit, TypeOK
<1>8. CASE HandleRepartition
  <2>1. Head(inbox) \in ExceptionLists /\ Tail(inbox) \in Seq(ExceptionLists)
    BY <1>8, HeadTailProperties DEF HandleRepartition, TypeOK
  <2> QED BY Zenon, <1>8, <2>1, ListAssumption DEF HandleRepartition, TypeOK
<1>9. ASSUME NEW key \in Key, SendDelete(key) PROVE TypeOK'
  <2>1. Origin(key) \in Instance /\ Request("delete", key) \in Requests
    BY KeyAssumption, HomeType DEF Request, Requests
  <2>2. queue' \in [Instance -> Seq(Requests)]
    BY <1>9, <2>1, SendAppends DEF SendDelete
  <2> QED BY <1>9, <2>2 DEF SendDelete, TypeOK, Requests
<1>10. CASE Finish
  BY SMTT(30), <1>10 DEF Finish, TypeOK
<1>11. ASSUME NEW i \in Instance, Serve(i) PROVE TypeOK'
  <2> DEFINE req == queue[i][1]
  <2>1. /\ queue' \in [Instance -> Seq(Requests)] /\ 1 \in DOMAIN queue[i]
        /\ req \in Requests /\ Reply(i, req)
    BY Zenon, <1>11, ServeTakes DEF Serve
  <2>2. Waited(i, req)
    BY <2>1 DEF AllWaited
  <2> HIDE DEF req
  <2>3. TypeOK /\ UNCHANGED <<exceptions, except_lock, lines, partitioner, rounds, inbox>>
    BY <1>11 DEF Serve
  <2>4. CASE req.op = "put"
    <3>1. req.key \in Key
      BY <2>2, <2>4 DEF Waited, PutsTyped
    <3>2. /\ stored' = [stored EXCEPT ![i] = stored[i] \cup {req.key}]
          /\ fresh' \in {fresh, fresh \cup {req.key}}
          /\ puts' = [puts EXCEPT !.pc = "read"] /\ handler' = handler /\ running' = running
      BY <2>1, <2>4, ReplyCases
    <3>3. stored' \in [Instance -> SUBSET Key] /\ fresh' \subseteq Key
      BY <3>1, <3>2 DEF TypeOK
    <3> QED BY Zenon, <2>1, <2>3, <3>2, <3>3 DEF TypeOK, Requests
  <2>5. CASE req.op = "delete"
    <3>1. /\ stored' = [stored EXCEPT ![i] = stored[i] \ {req.key}]
          /\ handler' = [handler EXCEPT !.pc = "loop"]
          /\ puts' = puts /\ fresh' = fresh /\ running' = running
      BY <2>1, <2>5, ReplyCases
    <3>2. stored' \in [Instance -> SUBSET Key]
      BY <3>1 DEF TypeOK
    <3> QED BY Zenon, <2>1, <2>3, <3>1, <3>2 DEF TypeOK, Requests
  <2>6. CASE req.op = "report_dbstats"
    <3>1. puts.inst \in Instance
      BY <2>2, <2>6 DEF Waited, PutsTyped
    <3>2. puts.inst + 1 \in 0 .. Num
      BY <3>1, NumAssumption DEF Instance
    <3>3. /\ puts' = [puts EXCEPT !.pc = "stats", !.inst = puts.inst + 1]
          /\ stored' = stored /\ handler' = handler /\ fresh' = fresh /\ running' = running
      BY <2>1, <2>6, ReplyCases
    <3> QED BY Zenon, <2>1, <2>3, <3>2, <3>3 DEF TypeOK, Requests
  <2>7. CASE req.op = "stop_db_srv"
    <3>1. /\ running' = [running EXCEPT ![i] = FALSE]
          /\ stored' = stored /\ puts' = puts /\ handler' = handler /\ fresh' = fresh
      BY <2>1, <2>7, ReplyCases
    <3> QED BY SMTT(30), <2>1, <2>3, <3>1 DEF TypeOK, Requests
  <2> QED BY <2>1, <2>4, <2>5, <2>6, <2>7 DEF Requests
<1>12. ASSUME NEW i \in Instance, ServeTopk(i) PROVE TypeOK'
  BY <1>12 DEF ServeTopk, TypeOK
<1>13. CASE StartRound
  BY <1>13, BoundAssumption DEF StartRound, TypeOK
<1>14. ASSUME NEW ex \in ExceptionLists, SendExceptions(ex) PROVE TypeOK'
  <2>1. inbox' \in Seq(ExceptionLists)
    <3>1. inbox \in Seq(ExceptionLists) /\ Append(inbox, ex) \in Seq(ExceptionLists)
      BY AppendProperties DEF TypeOK
    <3> QED BY <1>14, <3>1 DEF SendExceptions
  <2> QED BY Zenon, <1>14, <2>1 DEF SendExceptions, TypeOK
<1>15. CASE UNCHANGED vars
  BY <1>15 DEF vars, TypeOK
<1> QED BY SMTT(30), <1>1, <1>2, <1>3, <1>4, <1>5, <1>6, <1>7, <1>8, <1>9, <1>10, <1>11,
           <1>12, <1>13, <1>14, <1>15 DEF Next, PutsThread, Handler
----------------------------------------------------------------------------
(* The calls in the queues.                                                *)

\* What is queued is a request.
LEMMA QueuedType ==
    ASSUME TypeOK
    PROVE  \A j \in Instance : \A n \in DOMAIN queue[j] : queue[j][n] \in Requests
<1> SUFFICES ASSUME NEW j \in Instance, NEW n \in DOMAIN queue[j]
             PROVE  queue[j][n] \in Requests
  OBVIOUS
<1>1. queue[j] \in Seq(Requests)
  BY DEF TypeOK, Requests
<1>2. n \in 1 .. Len(queue[j])
  BY <1>1, LenProperties
<1> QED BY <1>1, <1>2, ElementOfSeq

\* A step that sends no call which is waited for keeps what is known of the calls,
\* if it keeps what each of them says.
LEMMA CallsKept ==
    ASSUME TypeOK, AllWaited, OneCallEach,
           \A j \in Instance : \A n \in DOMAIN queue'[j] :
                \/ n \in DOMAIN queue[j] /\ queue'[j][n] = queue[j][n]
                \/ queue'[j][n].op = "stop_db_srv",
           \A j \in Instance, req \in Requests : Waited(j, req) => Waited(j, req)'
    PROVE  AllWaited' /\ OneCallEach'
<1>1. \A j \in Instance : \A n \in DOMAIN queue[j] : queue[j][n] \in Requests
  BY QueuedType
<1>2. AllWaited'
  BY <1>1 DEF AllWaited, Waited
<1>3. OneCallEach'
  BY DEF OneCallEach, SameCaller
<1> QED BY <1>2, <1>3

\* A call of a thread that has none in the queues.
LEMMA CallSent ==
    ASSUME TypeOK, AllWaited, OneCallEach, NEW i \in Instance, NEW req \in Requests,
           Send(i, req),
           \A j \in Instance : \A n \in DOMAIN queue[j] : ~SameCaller(queue[j][n].op, req.op),
           Waited(i, req)',
           \A j \in Instance, r \in Requests :
                Waited(j, r) /\ ~SameCaller(r.op, req.op) => Waited(j, r)'
    PROVE  AllWaited' /\ OneCallEach'
<1>1. \A j \in Instance : \A n \in DOMAIN queue[j] : queue[j][n] \in Requests
  BY QueuedType
<1>2. \A j \in Instance : \A n \in DOMAIN queue'[j] :
        \/ n \in DOMAIN queue[j] /\ queue'[j][n] = queue[j][n]
        \/ j = i /\ n = Len(queue[i]) + 1 /\ queue'[j][n] = req
  BY SendAppends
<1>3. AllWaited'
  BY <1>1, <1>2 DEF AllWaited, Waited
<1>4. OneCallEach'
  BY <1>2 DEF OneCallEach, SameCaller
<1> QED BY <1>3, <1>4

\* Serving the one call of a thread leaves none of that thread.
LEMMA CallServed ==
    ASSUME TypeOK, AllWaited, OneCallEach, NEW i \in Instance, Serve(i),
           \A j \in Instance, r \in Requests :
                Waited(j, r) /\ ~SameCaller(r.op, queue[i][1].op) => Waited(j, r)'
    PROVE  AllWaited' /\ OneCallEach'
<1>1. \A j \in Instance : \A n \in DOMAIN queue[j] : queue[j][n] \in Requests
  BY QueuedType
<1>2. /\ 1 \in DOMAIN queue[i]
      /\ \A j \in Instance : \A n \in DOMAIN queue'[j] :
            \/ j # i /\ n \in DOMAIN queue[j] /\ queue'[j][n] = queue[j][n]
            \/ j = i /\ n \in Nat \ {0} /\ n + 1 \in DOMAIN queue[j]
                     /\ queue'[j][n] = queue[j][n + 1]
  BY Zenon, ServeTakes DEF Serve
<1>3. ASSUME NEW j \in Instance, NEW n \in DOMAIN queue'[j], NEW r, r = queue'[j][n]
      PROVE  Waited(j, r)'
  <2>1. PICK m \in DOMAIN queue[j] : queue'[j][n] = queue[j][m] /\ (j = i => m # 1)
    BY <1>2
  <2>2. ~SameCaller(queue[j][m].op, queue[i][1].op)
    BY <1>2, <2>1 DEF OneCallEach
  <2>3. Waited(j, queue[j][m]) /\ queue[j][m] \in Requests
    BY <1>1, <2>1 DEF AllWaited
  <2>4. r \in Requests /\ Waited(j, r) /\ ~SameCaller(r.op, queue[i][1].op)
    BY <1>3, <2>1, <2>2, <2>3
  <2> QED BY <2>4
<1>4. AllWaited'
  BY <1>3 DEF AllWaited, Waited
<1>5. OneCallEach'
  <2> SUFFICES ASSUME NEW j1 \in Instance, NEW j2 \in Instance,
                      NEW n1 \in DOMAIN queue'[j1], NEW n2 \in DOMAIN queue'[j2],
                      SameCaller(queue'[j1][n1].op, queue'[j2][n2].op)
               PROVE  j1 = j2 /\ n1 = n2
    BY DEF OneCallEach, SameCaller
  <2>1. CASE j1 = i /\ j2 = i
    <3>1. /\ n1 \in Nat /\ n1 + 1 \in DOMAIN queue[i] /\ queue'[i][n1] = queue[i][n1 + 1]
          /\ n2 \in Nat /\ n2 + 1 \in DOMAIN queue[i] /\ queue'[i][n2] = queue[i][n2 + 1]
      BY <1>2, <2>1
    <3>2. n1 + 1 = n2 + 1
      BY <2>1, <3>1 DEF OneCallEach
    <3> QED BY <2>1, <3>1, <3>2
  <2>2. CASE j1 # i \/ j2 # i
    <3>1. PICK m1 \in DOMAIN queue[j1] : queue'[j1][n1] = queue[j1][m1] /\ (j1 # i => m1 = n1)
      BY <1>2
    <3>2. PICK m2 \in DOMAIN queue[j2] : queue'[j2][n2] = queue[j2][m2] /\ (j2 # i => m2 = n2)
      BY <1>2
    <3>3. j1 = j2 /\ m1 = m2
      BY <3>1, <3>2 DEF OneCallEach
    <3> QED BY <2>2, <3>1, <3>2, <3>3
  <2> QED BY <2>1, <2>2
<1> QED BY <1>4, <1>5
\* Every action keeps what is known of the calls.
LEMMA CallsNext == Inv /\ [Next]_vars => AllWaited' /\ OneCallEach'
<1> SUFFICES ASSUME Inv, [Next]_vars PROVE AllWaited' /\ OneCallEach'
  OBVIOUS
<1> USE DEF Inv
<1> DEFINE kept == \A j \in Instance, req \in Requests : Waited(j, req) => Waited(j, req)'
<1>0. ASSUME UNCHANGED queue, kept PROVE AllWaited' /\ OneCallEach'
  BY <1>0, CallsKept
<1>1. ASSUME NEW key \in Key, ReadLine(key) PROVE AllWaited' /\ OneCallEach'
  <2>1. UNCHANGED queue /\ kept
    BY <1>1 DEF ReadLine, Waited, TypeOK
  <2> QED BY <1>0, <2>1
<1>2. CASE LookupKey
  <2>1. UNCHANGED queue /\ kept
    BY <1>2 DEF LookupKey, Waited, TypeOK
  <2> QED BY <1>0, <2>1
<1>3. CASE SendPut
  <2> DEFINE req == Request("put", puts.key)
  <2>1. puts.inst \in Instance /\ req \in Requests /\ req.op = "put" /\ req.key = puts.key
    BY <1>3 DEF SendPut, PutsTyped, TypeOK, Request, Requests
  <2>2. Send(puts.inst, req) /\ puts.pc = "send" /\ UNCHANGED <<handler, exceptions>>
        /\ puts' = [puts EXCEPT !.pc = "wait"]
    BY <1>3 DEF SendPut
  <2> HIDE DEF req
  <2>3. puts'.pc = "wait" /\ puts'.inst = puts.inst /\ puts'.key = puts.key
    BY <2>2 DEF TypeOK
  <2>4. \A j \in Instance : \A n \in DOMAIN queue[j] : ~SameCaller(queue[j][n].op, req.op)
    BY <2>1, <2>2 DEF AllWaited, Waited, SameCaller
  <2>5. \A j \in Instance, r \in Requests :
            Waited(j, r) /\ ~SameCaller(r.op, req.op) => Waited(j, r)'
    BY <2>1, <2>2, <2>3 DEF Waited, SameCaller
  <2>6. ASSUME NEW i \in Instance, NEW r \in Requests, i = puts.inst, r = req
        PROVE  AllWaited' /\ OneCallEach'
    <3>1. Waited(i, r)'
      BY <2>1, <2>3, <2>6 DEF Waited
    <3> QED BY <2>2, <2>4, <2>5, <2>6, <3>1, CallSent
  <2> QED BY <2>1, <2>6
<1>4. CASE EndOfInput
  <2>1. UNCHANGED queue /\ kept
    BY <1>4 DEF EndOfInput, Waited, TypeOK
  <2> QED BY <1>0, <2>1
<1>5. CASE SendStats
  <2> DEFINE req == Request("report_dbstats", 0)
  <2>1. req \in Requests /\ req.op = "report_dbstats"
    BY DEF Request, Requests
  <2>2. Send(puts.inst, req) /\ puts.pc = "stats" /\ puts.inst \in Instance
        /\ UNCHANGED <<handler, exceptions>> /\ puts' = [puts EXCEPT !.pc = "wait_stats"]
    BY <1>5 DEF SendStats
  <2> HIDE DEF req
  <2>3. puts'.pc = "wait_stats"
    BY <2>2 DEF TypeOK
  <2>4. \A j \in Instance : \A n \in DOMAIN queue[j] : ~SameCaller(queue[j][n].op, req.op)
    BY <2>1, <2>2 DEF AllWaited, Waited, SameCaller
  <2>5. \A j \in Instance, r \in Requests :
            Waited(j, r) /\ ~SameCaller(r.op, req.op) => Waited(j, r)'
    BY <2>1, <2>2 DEF Waited, SameCaller
  <2>6. ASSUME NEW i \in Instance, NEW r \in Requests, i = puts.inst, r = req
        PROVE  AllWaited' /\ OneCallEach'
    <3>1. Waited(i, r)'
      BY <2>1, <2>3, <2>6 DEF Waited
    <3> QED BY <2>2, <2>4, <2>5, <2>6, <3>1, CallSent
  <2> QED BY <2>1, <2>2, <2>6
<1>6. CASE Stop
  <2>1. kept
    BY <1>6 DEF Stop, Waited, TypeOK
  <2> QED BY <1>6, <2>1, StopAppends, CallsKept
<1>7. CASE Exit
  <2>1. UNCHANGED queue /\ kept
    BY <1>7 DEF Exit, Waited, TypeOK
  <2> QED BY <1>0, <2>1
<1>8. CASE HandleRepartition
  <2>1. UNCHANGED queue /\ kept
    BY <1>8 DEF HandleRepartition, Waited, TypeOK
  <2> QED BY <1>0, <2>1
<1>9. ASSUME NEW key \in Key, SendDelete(key) PROVE AllWaited' /\ OneCallEach'
  <2> DEFINE req == Request("delete", key)
  <2>1. req \in Requests /\ req.op = "delete" /\ req.key = key /\ Origin(key) \in Instance
    BY KeyAssumption, HomeType DEF Request, Requests
  <2>2. Send(Origin(key), req) /\ handler.pc = "loop" /\ handler'.pc = "wait"
        /\ key \in DOMAIN exceptions /\ UNCHANGED <<puts, exceptions>>
    BY <1>9 DEF SendDelete, LockHeld
  <2> HIDE DEF req
  <2>3. \A j \in Instance : \A n \in DOMAIN queue[j] : ~SameCaller(queue[j][n].op, req.op)
    BY <2>1, <2>2 DEF AllWaited, Waited, SameCaller
  <2>4. \A j \in Instance, r \in Requests :
            Waited(j, r) /\ ~SameCaller(r.op, req.op) => Waited(j, r)'
    BY <2>1, <2>2 DEF Waited, SameCaller
  <2>5. Waited(Origin(key), req)'
    BY <2>1, <2>2 DEF Waited, req, Request, Origin
  <2> QED BY <2>1, <2>2, <2>3, <2>4, <2>5, CallSent
<1>10. CASE Finish
  <2>1. UNCHANGED queue /\ kept
    BY <1>10 DEF Finish, Waited, TypeOK
  <2> QED BY <1>0, <2>1
<1>11. ASSUME NEW i \in Instance, Serve(i) PROVE AllWaited' /\ OneCallEach'
  <2> DEFINE req == queue[i][1]
  <2>1. req \in Requests /\ Reply(i, req) /\ exceptions' = exceptions
    BY Zenon, <1>11, ServeTakes DEF Serve
  <2>2. \A j \in Instance, r \in Requests :
            Waited(j, r) /\ ~SameCaller(r.op, req.op) => Waited(j, r)'
    <3> HIDE DEF req
    <3>1. CASE req.op = "put"
      BY <2>1, <3>1, ReplyCases DEF Waited, SameCaller
    <3>2. CASE req.op = "delete"
      BY <2>1, <3>2, ReplyCases DEF Waited, SameCaller
    <3>3. CASE req.op = "report_dbstats"
      BY <2>1, <3>3, ReplyCases DEF Waited, SameCaller
    <3>4. CASE req.op = "stop_db_srv"
      BY <2>1, <3>4, ReplyCases DEF Waited, SameCaller
    <3> QED BY <2>1, <3>1, <3>2, <3>3, <3>4 DEF Requests
  <2> QED BY <1>11, <2>2, CallServed
<1>12. ASSUME NEW i \in Instance, ServeTopk(i) PROVE AllWaited' /\ OneCallEach'
  <2>1. UNCHANGED queue /\ kept
    BY <1>12 DEF ServeTopk, Waited
  <2> QED BY <1>0, <2>1
<1>13. CASE StartRound
  <2>1. UNCHANGED queue /\ kept
    BY <1>13 DEF StartRound, Waited
  <2> QED BY <1>0, <2>1
<1>14. ASSUME NEW ex \in ExceptionLists, SendExceptions(ex) PROVE AllWaited' /\ OneCallEach'
  <2>1. UNCHANGED queue /\ kept
    BY <1>14 DEF SendExceptions, Waited
  <2> QED BY <1>0, <2>1
<1>15. CASE UNCHANGED vars
  <2>1. UNCHANGED queue /\ kept
    BY <1>15 DEF vars, Waited
  <2> QED BY <1>0, <2>1
<1> QED BY SMTT(30), <1>1, <1>2, <1>3, <1>4, <1>5, <1>6, <1>7, <1>8, <1>9, <1>10, <1>11,
           <1>12, <1>13, <1>14, <1>15 DEF Next, PutsThread, Handler
----------------------------------------------------------------------------
(* The lock, lookups and what was put since the last repartition.          *)

\* The part of Inv that says so.
Rest == PutsTyped /\ LockHeld /\ LookupCurrent /\ FreshPutsReachable

\* Every action keeps the rest of the invariant.
LEMMA RestNext == Inv /\ [Next]_vars => Rest'
<1> SUFFICES ASSUME Inv, [Next]_vars PROVE Rest'
  OBVIOUS
<1> USE DEF Inv
<1>1. ASSUME NEW key \in Key, ReadLine(key) PROVE Rest'
  BY <1>1 DEF ReadLine, TypeOK, Rest, PutsTyped, LockHeld, LookupCurrent,
              FreshPutsReachable, Lookup
<1>2. CASE LookupKey
  <2>1. puts.key \in Key /\ Lookup(puts.key) \in Instance
    BY <1>2, LookupType DEF LookupKey, PutsTyped
  <2>2. handler.pc = "idle"
    BY <1>2 DEF LookupKey, LockHeld
  <2> QED BY <1>2, <2>1, <2>2 DEF LookupKey, TypeOK, Rest, PutsTyped, LockHeld, LookupCurrent,
                                  FreshPutsReachable, Lookup
<1>3. CASE SendPut
  BY <1>3 DEF SendPut, TypeOK, Rest, PutsTyped, LockHeld, LookupCurrent,
              FreshPutsReachable, Lookup
<1>4. CASE EndOfInput
  BY <1>4 DEF EndOfInput, TypeOK, Rest, PutsTyped, LockHeld, LookupCurrent,
              FreshPutsReachable, Lookup
<1>5. CASE SendStats
  BY <1>5 DEF SendStats, TypeOK, Rest, PutsTyped, LockHeld, LookupCurrent,
              FreshPutsReachable, Lookup
<1>6. CASE Stop
  BY <1>6 DEF Stop, TypeOK, Rest, PutsTyped, LockHeld, LookupCurrent,
              FreshPutsReachable, Lookup
<1>7. CASE Exit
  BY <1>7 DEF Exit, TypeOK, Rest, PutsTyped, LockHeld, LookupCurrent,
              FreshPutsReachable, Lookup
<1>8. CASE HandleRepartition
  <2>1. \A key \in fresh' : key \in fresh \cap Spared(exceptions')
    BY <1>8 DEF HandleRepartition
  <2>2. \A key \in fresh' : Lookup(key)' = Lookup(key)
    BY <2>1 DEF Spared, Lookup, Home
  <2>3. FreshPutsReachable'
    BY <1>8, <2>1, <2>2 DEF HandleRepartition, FreshPutsReachable
  <2>4. LockHeld'
    BY <1>8, <2>1 DEF HandleRepartition, TypeOK, LockHeld, Spared, Origin
  <2> QED BY <1>8, <2>3, <2>4 DEF HandleRepartition, TypeOK, Rest, PutsTyped, LookupCurrent
<1>9. ASSUME NEW key \in Key, SendDelete(key) PROVE Rest'
  BY <1>9 DEF SendDelete, Rest, PutsTyped, LockHeld, LookupCurrent,
              FreshPutsReachable, Lookup
<1>10. CASE Finish
  BY <1>10 DEF Finish, TypeOK, Rest, PutsTyped, LockHeld, LookupCurrent,
               FreshPutsReachable, Lookup
<1>11. ASSUME NEW i \in Instance, Serve(i) PROVE Rest'
  <2> DEFINE req == queue[i][1]
  <2>1. 1 \in DOMAIN queue[i] /\ req \in Requests /\ Reply(i, req)
    BY Zenon, <1>11, ServeTakes DEF Serve
  <2>2. Waited(i, req)
    BY <2>1 DEF AllWaited
  <2> HIDE DEF req
  <2>3. UNCHANGED <<exceptions, except_lock>> /\ (\A key : Lookup(key)' = Lookup(key))
    BY <1>11 DEF Serve, Lookup
  <2>4. CASE req.op = "put"
    <3>1. /\ stored' = [stored EXCEPT ![i] = stored[i] \cup {req.key}]
          /\ puts' = [puts EXCEPT !.pc = "read"]
          /\ fresh' = IF puts.current THEN fresh \cup {req.key} ELSE fresh
          /\ handler' = handler
      BY <2>1, <2>4, ReplyCases
    <3>2. req.key \in Key /\ puts.pc = "wait" /\ i = puts.inst /\ req.key = puts.key
      BY <2>2, <2>4 DEF Waited, PutsTyped
    <3>3. PutsTyped' /\ LookupCurrent'
      BY <3>1 DEF TypeOK, PutsTyped, LookupCurrent
    <3>4. LockHeld'
      BY <2>3, <3>1 DEF TypeOK, LockHeld
    <3>5. \A key \in fresh' : key \in stored'[Lookup(key)]
      <4>1. \A key \in fresh : key \in Key /\ Lookup(key) \in Instance /\ key \in stored[Lookup(key)]
        BY LookupType DEF TypeOK, FreshPutsReachable
      <4>2. \A key \in fresh : key \in stored'[Lookup(key)]
        BY <3>1, <4>1 DEF TypeOK
      <4>3. CASE puts.current = TRUE
        <5>1. Lookup(req.key) = i
          BY <3>2, <4>3 DEF LookupCurrent
        <5>2. req.key \in stored'[Lookup(req.key)]
          BY <3>1, <5>1 DEF TypeOK
        <5> QED BY <3>1, <4>2, <5>2
      <4>4. CASE puts.current = FALSE
        BY <3>1, <4>2, <4>4
      <4> QED BY Zenon, <4>3, <4>4 DEF TypeOK
    <3>6. FreshPutsReachable'
      BY <2>3, <3>5 DEF FreshPutsReachable
    <3> QED BY <3>3, <3>4, <3>6 DEF Rest
  <2>5. CASE req.op = "delete"
    <3>1. /\ handler' = [handler EXCEPT !.pc = "loop"]
          /\ stored' = [stored EXCEPT ![i] = stored[i] \ {req.key}]
          /\ puts' = puts /\ fresh' = fresh
      BY <2>1, <2>5, ReplyCases
    <3>2. handler.pc = "wait" /\ i = Origin(req.key) /\ req.key \in DOMAIN exceptions
      BY <2>2, <2>5 DEF Waited
    <3>3. req.key \in fresh => Lookup(req.key) # i
      BY <3>2 DEF LockHeld, Lookup
    <3>4. \A key \in fresh : Lookup(key) \in Instance /\ key \in stored[Lookup(key)]
      BY LookupType DEF TypeOK, FreshPutsReachable
    <3>5. \A key \in fresh : key \in stored'[Lookup(key)]
      BY <3>1, <3>3, <3>4 DEF TypeOK
    <3>6. FreshPutsReachable'
      BY <2>3, <3>1, <3>5 DEF FreshPutsReachable
    <3>7. LockHeld'
      BY <2>3, <3>1, <3>2 DEF TypeOK, LockHeld, Origin
    <3> QED BY <2>3, <3>1, <3>6, <3>7 DEF TypeOK, Rest, PutsTyped, LookupCurrent
  <2>6. CASE req.op = "report_dbstats"
    <3>1. /\ puts' = [puts EXCEPT !.pc = "stats", !.inst = puts.inst + 1]
          /\ stored' = stored /\ handler' = handler /\ fresh' = fresh
      BY <2>1, <2>6, ReplyCases
    <3> QED BY <2>3, <3>1 DEF TypeOK, Rest, PutsTyped, LockHeld, LookupCurrent,
                              FreshPutsReachable
  <2>7. CASE req.op = "stop_db_srv"
    <3>1. stored' = stored /\ puts' = puts /\ handler' = handler /\ fresh' = fresh
      BY <2>1, <2>7, ReplyCases
    <3> QED BY <2>3, <3>1 DEF Rest, PutsTyped, LockHeld, LookupCurrent, FreshPutsReachable
  <2> QED BY <2>1, <2>4, <2>5, <2>6, <2>7 DEF Requests
<1>12. ASSUME NEW i \in Instance, ServeTopk(i) PROVE Rest'
  BY <1>12 DEF ServeTopk, Rest, PutsTyped, LockHeld, LookupCurrent, FreshPutsReachable, Lookup
<1>13. CASE StartRound
  BY <1>13 DEF StartRound, Rest, PutsTyped, LockHeld, LookupCurrent, FreshPutsReachable, Lookup
<1>14. ASSUME NEW ex \in ExceptionLists, SendExceptions(ex) PROVE Rest'
  BY <1>14 DEF SendExceptions, Rest, PutsTyped, LockHeld, LookupCurrent, FreshPutsReachable,
               Lookup
<1>15. CASE UNCHANGED vars
  BY <1>15 DEF vars, Rest, PutsTyped, LockHeld, LookupCurrent, FreshPutsReachable, Lookup
<1> QED BY SMTT(30), <1>1, <1>2, <1>3, <1>4, <1>5, <1>6, <1>7, <1>8, <1>9, <1>10, <1>11,
           <1>12, <1>13, <1>14, <1>15 DEF Next, PutsThread, Handler

\* The invariant is inductive.
LEMMA InvNext == Inv /\ [Next]_vars => Inv'
BY TypeNext, CallsNext, RestNext DEF Inv, Rest

(***************************************************************************)
(* Types are kept: with at least three instances every put, delete and     *)
(* report_dbstats of the coordinator goes to an instance that exists.      *)
(***************************************************************************)
THEOREM CoordinatorTypes == Spec => []TypeOK
<1>1. Inv => TypeOK
  BY DEF Inv
<1> QED BY InvInit, InvNext, <1>1, PTL DEF Spec

(***************************************************************************)
(* A key that was put is where lookup looks for it until a repartition     *)
(* moves it or deletes it there: other deletes do not reach it, because    *)
(* handle_repartition releases except_lock after its last delete only.     *)
(***************************************************************************)
THEOREM FreshPutsStayReachable == Spec => []FreshPutsReachable
<1>1. Inv => FreshPutsReachable
  BY DEF Inv
<1> QED BY InvInit, InvNext, <1>1, PTL DEF Spec
----------------------------------------------------------------------------
(* Copies left at the home instance, with three instances.                 *)

\* A key in the queues as a delete stays undeleted while no delete is served.
LEMMA UndeletedKept ==
    ASSUME TypeOK, handler'.todo = handler.todo,
           \A j \in Instance : \A n \in DOMAIN queue[j] :
                queue[j][n].op = "delete" =>
                    \E m \in DOMAIN queue'[j] : queue'[j][m] = queue[j][n]
    PROVE  Undeleted \subseteq Undeleted'
BY DEF Undeleted, Request

\* Requests sent keep those before them.
LEMMA SendKeeps ==
    ASSUME TypeOK, NEW i \in Instance, NEW req \in Requests, Send(i, req)
    PROVE  /\ \A j \in Instance : \A n \in DOMAIN queue[j] :
                n \in DOMAIN queue'[j] /\ queue'[j][n] = queue[j][n]
           /\ \E n \in DOMAIN queue'[i] : queue'[i][n] = req
<1>1. queue \in [Instance -> Seq(Requests)]
  BY DEF TypeOK, Requests
<1>2. queue' = [queue EXCEPT ![i] = Append(queue[i], req)]
  BY DEF Send
<1>3. /\ Append(queue[i], req) \in Seq(Requests)
      /\ Len(Append(queue[i], req)) = Len(queue[i]) + 1
      /\ \A n \in 1 .. Len(queue[i]) : Append(queue[i], req)[n] = queue[i][n]
      /\ Append(queue[i], req)[Len(queue[i]) + 1] = req
  BY <1>1, AppendProperties
<1>4. /\ queue'[i] = Append(queue[i], req)
      /\ \A j \in Instance : j # i => queue'[j] = queue[j]
  BY <1>1, <1>2
<1>5. /\ DOMAIN queue'[i] = 1 .. Len(queue[i]) + 1 /\ DOMAIN queue[i] = 1 .. Len(queue[i])
      /\ Len(queue[i]) \in Nat
  BY <1>1, <1>3, <1>4, LenProperties
<1>6. \A n \in DOMAIN queue[i] : n \in DOMAIN queue'[i] /\ queue'[i][n] = queue[i][n]
  BY <1>3, <1>4, <1>5
<1>7. Len(queue[i]) + 1 \in DOMAIN queue'[i] /\ queue'[i][Len(queue[i]) + 1] = req
  BY <1>3, <1>4, <1>5
<1> QED BY <1>4, <1>6, <1>7

\* Requests served leave those behind them.
LEMMA ServeKeeps ==
    ASSUME TypeOK, NEW i \in Instance, queue[i] # <<>>,
           queue' = [queue EXCEPT ![i] = Tail(@)]
    PROVE  \A j \in Instance : \A n \in DOMAIN queue[j] :
                \/ j = i /\ n = 1
                \/ \E m \in DOMAIN queue'[j] : queue'[j][m] = queue[j][n]
<1>1. queue \in [Instance -> Seq(Requests)]
  BY DEF TypeOK, Requests
<1> DEFINE q == queue[i]
<1>2. /\ q \in Seq(Requests) /\ q # <<>>
      /\ Tail(q) \in Seq(Requests) /\ Len(Tail(q)) = Len(q) - 1
      /\ \A n \in 1 .. Len(Tail(q)) : Tail(q)[n] = q[n + 1]
  BY <1>1, HeadTailProperties
<1>3. Len(q) \in Nat /\ DOMAIN q = 1 .. Len(q) /\ DOMAIN Tail(q) = 1 .. Len(q) - 1
  BY <1>2, LenProperties
<1>4. queue'[i] = Tail(q) /\ \A j \in Instance : j # i => queue'[j] = queue[j]
  BY <1>1
<1>5. ASSUME NEW n \in DOMAIN q, n # 1
      PROVE  \E m \in DOMAIN queue'[i] : queue'[i][m] = q[n]
  <2> HIDE DEF q
  <2>1. n - 1 \in DOMAIN Tail(q) /\ Tail(q)[n - 1] = q[(n - 1) + 1] /\ (n - 1) + 1 = n
    BY <1>2, <1>3, <1>5
  <2> QED BY <1>4, <2>1
<1> QED BY <1>4, <1>5
\* The same for what stop() sends.
LEMMA StopKeeps ==
    ASSUME TypeOK, Stop
    PROVE  \A j \in Instance : \A n \in DOMAIN queue[j] :
                n \in DOMAIN queue'[j] /\ queue'[j][n] = queue[j][n]
<1> DEFINE req == Request("stop_db_srv", 0)
<1>1. queue \in [Instance -> Seq(Requests)] /\ req \in Requests
  BY DEF TypeOK, Requests, Request
<1> HIDE DEF req
<1>2. queue' = [i \in Instance |-> Append(queue[i], req)]
  BY DEF Stop, req
<1>3. ASSUME NEW j \in Instance, NEW n \in DOMAIN queue[j]
      PROVE  n \in DOMAIN queue'[j] /\ queue'[j][n] = queue[j][n]
  <2>1. queue'[j] = Append(queue[j], req) /\ queue[j] \in Seq(Requests)
    BY <1>1, <1>2
  <2>2. /\ Append(queue[j], req) \in Seq(Requests)
        /\ Len(Append(queue[j], req)) = Len(queue[j]) + 1
        /\ \A k \in 1 .. Len(queue[j]) : Append(queue[j], req)[k] = queue[j][k]
    BY <1>1, <2>1, AppendProperties
  <2>3. DOMAIN queue'[j] = 1 .. Len(queue[j]) + 1 /\ DOMAIN queue[j] = 1 .. Len(queue[j])
        /\ Len(queue[j]) \in Nat
    BY <2>1, <2>2, LenProperties
  <2> QED BY <2>1, <2>2, <2>3
<1> QED BY <1>3

\* Every action keeps the account of the strays.
LEMMA StraysNext ==
    ASSUME Num = 3, Inv, StraysAccounted, [Next]_vars
    PROVE  StraysAccounted'
<1> USE DEF Inv
<1>0. ASSUME Strays' \subseteq Strays, Undeleted \subseteq Undeleted', Straddling' => Straddling
      PROVE  StraysAccounted'
  BY <1>0 DEF StraysAccounted
<1>a. ASSUME UNCHANGED <<exceptions, stored>> PROVE Strays' \subseteq Strays
  BY <1>a DEF Strays, Home
<1>b. ASSUME UNCHANGED queue, handler'.todo = handler.todo PROVE Undeleted \subseteq Undeleted'
  BY <1>b, UndeletedKept
<1>1. ASSUME NEW key \in Key, ReadLine(key) PROVE StraysAccounted'
  <2>1. ~Straddling'
    BY <1>1 DEF ReadLine, Straddling, TypeOK
  <2> QED BY <1>0, <1>a, <1>b, <1>1, <2>1 DEF ReadLine
<1>2. CASE LookupKey
  <2>1. ~Straddling'
    BY <1>2 DEF LookupKey, Straddling, TypeOK
  <2> QED BY <1>0, <1>a, <1>b, <1>2, <2>1 DEF LookupKey
<1>3. CASE SendPut
  <2>1. Straddling' => Straddling
    BY <1>3 DEF SendPut, Straddling, TypeOK
  <2>2. puts.inst \in Instance /\ Request("put", puts.key) \in Requests
    BY <1>3 DEF SendPut, PutsTyped, TypeOK, Request, Requests
  <2>3. Undeleted \subseteq Undeleted'
    BY <1>3, <2>2, SendKeeps, UndeletedKept DEF SendPut
  <2> QED BY <1>0, <1>a, <1>3, <2>1, <2>3 DEF SendPut
<1>4. CASE EndOfInput
  <2>1. ~Straddling'
    BY <1>4 DEF EndOfInput, Straddling, TypeOK
  <2> QED BY <1>0, <1>a, <1>b, <1>4, <2>1 DEF EndOfInput
<1>5. CASE SendStats
  <2>1. ~Straddling'
    BY <1>5 DEF SendStats, Straddling, TypeOK
  <2>2. puts.inst \in Instance /\ Request("report_dbstats", 0) \in Requests
    BY <1>5 DEF SendStats, Request, Requests
  <2>3. Undeleted \subseteq Undeleted'
    BY <1>5, <2>2, SendKeeps, UndeletedKept DEF SendStats
  <2> QED BY <1>0, <1>a, <1>5, <2>1, <2>3 DEF SendStats
<1>6. CASE Stop
  <2>1. ~Straddling'
    BY <1>6 DEF Stop, Straddling, TypeOK
  <2>2. Undeleted \subseteq Undeleted'
    BY <1>6, StopKeeps, UndeletedKept DEF Stop
  <2> QED BY <1>0, <1>a, <1>6, <2>1, <2>2 DEF Stop
<1>7. CASE Exit
  <2>1. ~Straddling'
    BY <1>7 DEF Exit, Straddling, TypeOK
  <2> QED BY <1>0, <1>a, <1>b, <1>7, <2>1 DEF Exit
<1>8. CASE HandleRepartition
  <2>1. Strays' \subseteq DOMAIN exceptions'
    BY DEF Strays
  <2>2. DOMAIN exceptions' \subseteq Undeleted'
    BY <1>8 DEF HandleRepartition, Undeleted
  <2> QED BY <2>1, <2>2 DEF StraysAccounted
<1>9. ASSUME NEW key \in Key, SendDelete(key) PROVE StraysAccounted'
  <2>1. Straddling' => Straddling
    BY <1>9 DEF SendDelete, Straddling
  <2>2. Origin(key) \in Instance /\ Request("delete", key) \in Requests
    BY KeyAssumption, HomeType DEF Request, Requests
  <2>3. Undeleted \subseteq Undeleted'
    <3>1. /\ \A j \in Instance : \A n \in DOMAIN queue[j] :
                n \in DOMAIN queue'[j] /\ queue'[j][n] = queue[j][n]
          /\ \E n \in DOMAIN queue'[Origin(key)] : queue'[Origin(key)][n] = Request("delete", key)
      BY <1>9, <2>2, SendKeeps DEF SendDelete
    <3>2. handler'.todo = handler.todo \ {key}
      BY <1>9 DEF SendDelete
    <3>3. key \in Undeleted'
      BY <2>2, <3>1 DEF Undeleted, Request, Origin
    <3> QED BY SMTT(30), <3>1, <3>2, <3>3 DEF Undeleted, Request
  <2> QED BY SMTT(30), <1>0, <1>a, <1>9, <2>1, <2>3 DEF SendDelete
<1>10. CASE Finish
  <2>1. (Straddling' => Straddling) /\ handler'.todo = handler.todo
    BY <1>10 DEF Finish, Straddling, TypeOK
  <2> QED BY <1>0, <1>a, <1>b, <1>10, <2>1 DEF Finish
<1>11. ASSUME NEW i \in Instance, Serve(i) PROVE StraysAccounted'
  <2> DEFINE req == queue[i][1]
  <2>1. 1 \in DOMAIN queue[i] /\ req \in Requests /\ Reply(i, req)
    BY Zenon, <1>11, ServeTakes DEF Serve
  <2>2. Waited(i, req) /\ exceptions' = exceptions
    BY <1>11, <2>1 DEF AllWaited, Serve
  <2>3. \A j \in Instance : \A n \in DOMAIN queue[j] :
            \/ j = i /\ n = 1
            \/ \E m \in DOMAIN queue'[j] : queue'[j][m] = queue[j][n]
    BY Zenon, <1>11, ServeKeeps DEF Serve
  <2>4. req.op # "delete" /\ handler' = handler => Undeleted \subseteq Undeleted'
    BY <2>3, UndeletedKept
  <2>5. req.op = "delete" /\ handler'.todo = handler.todo
            => Undeleted \subseteq Undeleted' \cup {req.key}
    BY <2>3 DEF Undeleted, Request
  <2> HIDE DEF req
  <2>6. CASE req.op = "put"
    <3>1. /\ stored' = [stored EXCEPT ![i] = stored[i] \cup {req.key}]
          /\ puts' = [puts EXCEPT !.pc = "read"] /\ handler' = handler
      BY <2>1, <2>6, ReplyCases
    <3>2. Undeleted \subseteq Undeleted' /\ ~Straddling'
      BY <2>4, <2>6, <3>1 DEF Straddling, TypeOK
    <3>3. req.key \in Key /\ req.key \in Nat /\ puts.pc = "wait" /\ i = puts.inst
          /\ req.key = puts.key
      BY Zenon, <2>2, <2>6, KeyAssumption DEF Waited, PutsTyped
    <3>4. Strays' \subseteq Strays \cup {req.key}
      BY <2>2, <3>1 DEF Strays, TypeOK, Home
    <3>5. CASE puts.current = TRUE
      <4>1. i = Lookup(req.key)
        BY <3>3, <3>5 DEF LookupCurrent
      <4>2. Strays' \subseteq Strays
        BY <2>2, <3>1, <4>1 DEF Strays, TypeOK, Home, Lookup
      <4> QED BY <1>0, <3>2, <4>2
    <3>6. CASE puts.current = FALSE
      <4>1. Strays \subseteq Undeleted
        BY <3>3, <3>6 DEF StraysAccounted, Straddling
      <4>2. Strays' \subseteq Undeleted' \cup {req.key}
        BY <3>2, <3>4, <4>1
      <4> QED BY <3>2, <3>3, <4>2 DEF StraysAccounted
    <3> QED BY Zenon, <3>5, <3>6 DEF TypeOK
  <2>7. CASE req.op = "delete"
    <3>1. /\ stored' = [stored EXCEPT ![i] = stored[i] \ {req.key}]
          /\ handler' = [handler EXCEPT !.pc = "loop"] /\ puts' = puts
      BY <2>1, <2>7, ReplyCases
    <3>2. i = Home(req.key)
      BY <2>2, <2>7 DEF Waited, Home, Origin
    <3>3. Strays' \subseteq Strays \ {req.key}
      BY <2>2, <3>1, <3>2 DEF Strays, TypeOK, Home
    <3>4. Undeleted \subseteq Undeleted' \cup {req.key}
      BY <2>5, <2>7, <3>1 DEF TypeOK
    <3>5. Straddling' => Straddling
      BY <3>1 DEF Straddling
    <3> QED BY <3>3, <3>4, <3>5 DEF StraysAccounted
  <2>8. CASE req.op = "report_dbstats"
    <3>1. /\ puts' = [puts EXCEPT !.pc = "stats", !.inst = puts.inst + 1]
          /\ stored' = stored /\ handler' = handler
      BY <2>1, <2>8, ReplyCases
    <3>2. ~Straddling'
      BY <3>1 DEF Straddling, TypeOK
    <3> QED BY <1>0, <1>a, <2>2, <2>4, <2>8, <3>1, <3>2
  <2>9. CASE req.op = "stop_db_srv"
    <3>1. stored' = stored /\ puts' = puts /\ handler' = handler
      BY <2>1, <2>9, ReplyCases
    <3>2. Straddling' => Straddling
      BY <3>1 DEF Straddling
    <3> QED BY <1>0, <1>a, <2>2, <2>4, <2>9, <3>1, <3>2
  <2> QED BY <2>1, <2>6, <2>7, <2>8, <2>9 DEF Requests
<1>12. ASSUME NEW i \in Instance, ServeTopk(i) PROVE StraysAccounted'
  BY Zenon, <1>0, <1>a, <1>b, <1>12 DEF ServeTopk, Straddling
<1>13. CASE StartRound
  BY Zenon, <1>0, <1>a, <1>b, <1>13 DEF StartRound, Straddling
<1>14. ASSUME NEW ex \in ExceptionLists, SendExceptions(ex) PROVE StraysAccounted'
  BY Zenon, <1>0, <1>a, <1>b, <1>14 DEF SendExceptions, Straddling
<1>15. CASE UNCHANGED vars
  BY Zenon, <1>0, <1>a, <1>b, <1>15 DEF vars, Straddling
<1> QED BY SMTT(30), <1>1, <1>2, <1>3, <1>4, <1>5, <1>6, <1>7, <1>8, <1>9, <1>10, <1>11,
           <1>12, <1>13, <1>14, <1>15 DEF Next, PutsThread, Handler

(***************************************************************************)
(* With three instances at most one rerouted key keeps a copy at home when *)
(* handle_repartition has returned, after any number of repartitions: the  *)
(* one the puts thread had looked up before and puts after its delete.     *)
(***************************************************************************)
THEOREM ThreeInstancesOneStray ==
    ASSUME Num = 3
    PROVE  Spec => []AtMostOneStray
<1>1. Init => StraysAccounted
  BY DEF Init, StraysAccounted, Strays
<1>2. Inv /\ StraysAccounted /\ [Next]_vars => StraysAccounted'
  BY StraysNext
<1>3. Inv /\ StraysAccounted => AtMostOneStray
  <2> SUFFICES ASSUME Inv, StraysAccounted, handler.pc = "idle"
               PROVE  Cardinality(Strays) <= 1
    BY DEF AtMostOneStray
  <2>1. Undeleted = {}
    BY DEF Inv, LockHeld, AllWaited, Waited, Undeleted, Request
  <2>2. PICK stray \in Nat : Strays \in SUBSET {stray}
    BY <2>1 DEF StraysAccounted
  <2>3. IsFiniteSet({stray}) /\ Cardinality({stray}) = 1
    BY FS_Singleton
  <2> QED BY Zenon, <2>2, <2>3, FS_Subset
<1> QED BY InvInit, InvNext, <1>1, <1>2, <1>3, PTL DEF Spec
============================================================================
