---------------------------- MODULE MCGiftCards -----------------------------
EXTENDS GiftCards, TLC

CONSTANTS c1, c2, u1, u2, p1, p2, w1

MCInitialVaults == 1 :> New(2, TRUE) @@ 2 :> New(3, FALSE) @@ 3 :> Absent
MCNextVault     == 1 :> 2 @@ 2 :> 0 @@ 3 :> 0
Symmetry        == Permutations(Procs)
==============================================================================
