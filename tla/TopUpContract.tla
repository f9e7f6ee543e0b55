---------------------------- MODULE TopUpContract ----------------------------
(* What buying WashPoints promises: a payment is opened, the customer pays  *)
(* it, and the points of a paid payment reach a wallet once.                *)
EXTENDS Integers

CONSTANTS Payments

VARIABLES payment,  \* "none", "open" or "paid"
          credits   \* how often the points of a payment were credited

topUpVars == <<payment, credits>>

Init == payment = [t \in Payments |-> "none"] /\ credits = [t \in Payments |-> 0]

Open(t) ==
  /\ payment[t] = "none"
  /\ payment' = [payment EXCEPT ![t] = "open"]
  /\ UNCHANGED credits

Pay(t) ==
  /\ payment[t] = "open"
  /\ payment' = [payment EXCEPT ![t] = "paid"]
  /\ UNCHANGED credits

Credit(t) ==
  /\ payment[t] = "paid" /\ credits[t] = 0
  /\ credits' = [credits EXCEPT ![t] = 1]
  /\ UNCHANGED payment

Next == \E t \in Payments : Open(t) \/ Pay(t) \/ Credit(t)
Spec == Init /\ [][Next]_topUpVars
===============================================================================
