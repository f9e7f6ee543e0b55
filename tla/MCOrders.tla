------------------------------- MODULE MCOrders -------------------------------
(* Instances of OrderSettlement for TLC.                                    *)
EXTENDS OrderSettlement, FiniteSets, TLC

CONSTANTS o1, o2, alice

AllOps == { "topUp", "confirm", "sweepPaid", "accept", "adminAssign", "transition",
            "log", "failedDelivery", "rate", "disposal", "complete",
            "sweepUncollected", "expire", "cancel" }
PayOps     == { "confirm" }
ExpiryOps  == { "confirm", "expire" }
AbandonOps == AllOps \ { "complete" }

OwnerValue   == [o \in Orders |-> alice]
PriceValue   == [o \in Orders |-> 3]
RepValue     == [o \in Orders |-> 1]
TransportValue == [o \in Orders |-> 1]
Balance2     == [c \in Customers |-> 2]
Balance3     == [c \in Customers |-> 3]
Balance4     == [c \in Customers |-> 4]
Balance6     == [c \in Customers |-> 6]
One          == {1}
ZeroOrOne    == {0, 1}

ProcSymmetry == Permutations(Procs)
===============================================================================
