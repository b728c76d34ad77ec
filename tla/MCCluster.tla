----------------------------- MODULE MCCluster -----------------------------
(***************************************************************************)
(* Three instances (four in MCClusterFour) and keys with two different     *)
(* homes.  The lists reroute two keys away from one home, one key to its   *)
(* own home, or none.                                                      *)
(***************************************************************************)
EXTENDS Cluster, TLC

MCKey == {0, 3, 4}

MCLists == {0 :> 1 @@ 3 :> 1, 3 :> 2 @@ 4 :> 1, <<>>}

MCListsFour == {0 :> 1 @@ 3 :> 1}
============================================================================
