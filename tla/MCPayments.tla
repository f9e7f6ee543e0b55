----------------------------- MODULE MCPayments -----------------------------
EXTENDS Payments, TLC

CONSTANTS t1, t2, l1, customer, company, p1, p2, w1

MCInitialVaults == 1 :> New(1, TRUE) @@ 2 :> New(2, FALSE)
MCNextVault     == 1 :> 2 @@ 2 :> 0
MCNoThreshold   == -1
MCCustomer      == l1 :> customer
Symmetry        == Permutations(Procs) \cup Permutations(Txs)
==============================================================================
