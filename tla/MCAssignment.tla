----------------------------- MODULE MCAssignment -----------------------------
(* Instances of Assignment for TLC.                                         *)
EXTENDS Assignment, TLC

CONSTANTS r1, r2, v1, v2

AllOps     == {"start", "accept", "decline", "expire", "admin", "cancel", "pickup"}
WashOps    == AllOps \ {"pickup"}
ExpiryOps  == {"start", "expire", "cancel"}
WashKinds  == {"laundry", "choose"}
ProcSymmetry == Permutations(Procs)
===============================================================================
