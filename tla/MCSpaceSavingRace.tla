------------------------- MODULE MCSpaceSavingRace -------------------------
(***************************************************************************)
(* Purging threads and a report on a summary of two slots.                 *)
(***************************************************************************)
EXTENDS SpaceSavingRace, TLC

CONSTANTS k0, k1, k2, f1, f2, r1

MCKey == {k0, k1, k2}
Symmetry == Permutations({k1, k2}) \cup Permutations({f1, f2})
============================================================================
