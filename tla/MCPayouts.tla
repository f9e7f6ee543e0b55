----------------------------- MODULE MCPayouts ------------------------------
EXTENDS Payouts, TLC

CONSTANTS p1, p2

vars == <<payoutVars, requestVars>>
Spec == RequestsInit /\ PayoutsInit /\ [][PayoutsNext]_vars

(* A started handler goes on; Paystack executes what it queued.            *)
FairSpec ==
  /\ Spec
  /\ \A p \in Procs : WF_vars(PayoutStep(p))
  /\ \A i \in PayoutIds : WF_vars(TransferExecutes(i))
==============================================================================
