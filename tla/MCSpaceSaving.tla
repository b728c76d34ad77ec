--------------------------- MODULE MCSpaceSaving ---------------------------
(***************************************************************************)
(* SpaceSaving with three slots and four keys: the array fills, evicts and *)
(* is reset with leftovers in it.                                          *)
(***************************************************************************)
EXTENDS SpaceSaving, TLC

CONSTANTS k0, k1, k2, k3

MCKey == {k0, k1, k2, k3}

\* Key 0 is told apart by the untouched slots; the others are alike.
MCSymmetry == Permutations(MCKey \ {k0})
============================================================================
