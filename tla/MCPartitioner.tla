--------------------------- MODULE MCPartitioner ---------------------------
(***************************************************************************)
(* Three instances with k = 2 and every choice of descending counts up to  *)
(* 2.  Instances share some keys, as they do after an earlier              *)
(* repartition.                                                            *)
(***************************************************************************)
EXTENDS Partitioner

MCKey == 0 .. 3

\* The key at an index: a report without a count of 1 names keys in another order.
MCReport ==
    {[i \in Index |-> [key |-> IF \E j \in Index : c[j] = 1 THEN i % 4 ELSE (i + 2) % 4,
                      count |-> c[i]]] :
        c \in {c \in [Index -> 0 .. 2] :
                   \A i \in Index \ {0} : c[i - 1] >= c[i]}}

MCCut == <<2, 4, 5>>
============================================================================
