---------------------------- MODULE EscrowContract ----------------------------
(***************************************************************************)
(* What paying for an order promises, without requests, rows or statuses:  *)
(* the price leaves the wallet when the money is put in escrow, the escrow *)
(* is settled once, and a refund puts the same price back.  A wallet is    *)
(* therefore what was paid in less what is held or earned.                 *)
(***************************************************************************)
EXTENDS Integers

CONSTANTS Orders, Customers, Owner, TotalWP, InitialBalance, TopUpWP

VARIABLES balance,  \* WashPoints a customer can spend
          funds     \* where the money of an order is

contractVars == <<balance, funds>>

Init ==
  /\ balance = InitialBalance
  /\ funds = [o \in Orders |-> "none"]

Deposit(c) ==
  /\ balance' = [balance EXCEPT ![c] = @ + TopUpWP]
  /\ UNCHANGED funds

Hold(o) ==
  /\ funds[o] = "none"
  /\ balance[Owner[o]] >= TotalWP[o]
  /\ balance' = [balance EXCEPT ![Owner[o]] = @ - TotalWP[o]]
  /\ funds' = [funds EXCEPT ![o] = "held"]

Release(o) ==
  /\ funds[o] = "held"
  /\ funds' = [funds EXCEPT ![o] = "released"]
  /\ UNCHANGED balance

Refund(o) ==
  /\ funds[o] = "held"
  /\ funds' = [funds EXCEPT ![o] = "refunded"]
  /\ balance' = [balance EXCEPT ![Owner[o]] = @ + TotalWP[o]]

Next ==
  \/ \E c \in Customers : Deposit(c)
  \/ \E o \in Orders : Hold(o) \/ Release(o) \/ Refund(o)

Spec == Init /\ [][Next]_contractVars
===============================================================================
