------------------------------- MODULE Payouts -------------------------------
(***************************************************************************)
(* The earnings wallet of a vendor and what leaves it (vendors.service.ts, *)
(* payouts.service.ts): payouts through a Paystack transfer, withheld and  *)
(* released ones, and claim deductions with a response window.  Every      *)
(* handler reads a row, lets others run and saves the row it changed;      *)
(* earningsRaced and payoutRaced remember whether such a copy was outdated *)
(* by another request.                                                     *)
(***************************************************************************)
EXTENDS Requests

CONSTANTS
  PayoutIds, DeductionIds,
  Amount,     \* WashPoints of a payout or a deduction
  Earning,    \* WashPoints an order completion credits
  Overlaps    \* may two requests work on the same payout or deduction at once?

VARIABLES
  earnings,    \* vendor_earnings_wallets: balance, totalEarned
  rows,        \* vendor ledger: credits minus debits
  earningsRaced,
  payout,      \* payout_requests
  deduction,   \* earnings_deductions
  due,         \* holds and response windows that have lapsed
  transfer,    \* Paystack: "none", "queued" or "executed", by payout
  charged,     \* debits minus reversals in the ledger, by payout or deduction
  payoutRaced  \* payouts and deductions two requests worked on at once

payoutVars == <<earnings, rows, earningsRaced, payout, deduction, due, transfer, charged, payoutRaced>>

Charges == PayoutIds \cup DeductionIds

PayoutStatus    == {"none", "pending", "held", "processing", "completed", "failed"}
DeductionStatus == {"none", "pending_response", "cancelled", "applied"}
EarningsWallet  == [balance : Int, earned : Nat]

PayoutCall ==
  [ pc : {"walletRead", "walletSave", "walletRow", "approve", "hold", "release", "transfer",
          "completed", "processing", "failed", "respond", "cancel", "apply", "applied"},
    item : Charges \cup {0}, copy : EarningsWallet, amount : Int,
    then : {"end", "transfer", "applied"} ]

ASSUME PayoutConstantsOK ==
  /\ Amount \in Nat \ {0} /\ Earning \in Nat
  /\ 0 \notin Charges /\ PayoutIds \cap DeductionIds = {}
  /\ IsFiniteSet(Procs) /\ NoCall \notin PayoutCall

PayoutsInit ==
  /\ earnings = [balance |-> 0, earned |-> 0] /\ rows = 0 /\ earningsRaced = FALSE
  /\ payout = [i \in PayoutIds |-> "none"]
  /\ deduction = [i \in DeductionIds |-> "none"]
  /\ due = {} /\ payoutRaced = {}
  /\ transfer = [i \in PayoutIds |-> "none"]
  /\ charged = [i \in Charges |-> 0]

-----------------------------------------------------------------------------
Working(i) == \E p \in Procs : call[p] # NoCall /\ "item" \in DOMAIN call[p] /\ call[p].item = i

(* A request on payout or deduction i enters at pc; copy is the wallet it  *)
(* will have read, then the pc to return to.                               *)
Enter(p, i, pc) ==
  /\ Overlaps \/ ~Working(i)
  /\ Begin(p, [pc |-> pc, item |-> i, copy |-> earnings, amount |-> 0, then |-> "end"])
  /\ payoutRaced' = IF Working(i) THEN payoutRaced \cup {i} ELSE payoutRaced

(* creditWallet and debitWallet, in three steps: read, save the copy,      *)
(* write the ledger row.                                                   *)
CallWallet(p, amount, then) ==
  GotoState(p, [call[p] EXCEPT !.pc = "walletRead", !.amount = amount, !.then = then])

(* Mutant of WalletRead: a debit does not look at the balance.             *)
WalletReadOnly(p) ==
  /\ At(p, "walletRead")
  /\ GotoState(p, [call[p] EXCEPT !.pc = "walletSave", !.copy = earnings])
  /\ UNCHANGED payoutVars

(* debitWallet throws when the balance it reads is too small.              *)
WalletRead(p) ==
  /\ At(p, "walletRead")
  /\ IF earnings.balance + call[p].amount < 0 THEN End(p)
     ELSE GotoState(p, [call[p] EXCEPT !.pc = "walletSave", !.copy = earnings])
  /\ UNCHANGED payoutVars

WalletSave(p) ==
  /\ At(p, "walletSave")
  /\ earnings' = [ balance |-> call[p].copy.balance + call[p].amount,
                   earned  |-> IF call[p].item \in Charges THEN call[p].copy.earned
                               ELSE call[p].copy.earned + call[p].amount ]
  /\ earningsRaced' = (earningsRaced \/ earnings # call[p].copy
                                 \/ \E q \in Procs \ {p} : At(q, "walletSave"))
  /\ Goto(p, "walletRow")
  /\ UNCHANGED <<rows, payout, deduction, due, transfer, charged, payoutRaced>>

WalletRow(p) ==
  /\ At(p, "walletRow")
  /\ rows' = rows + call[p].amount
  /\ charged' = IF call[p].item \in Charges
                THEN [charged EXCEPT ![call[p].item] = @ - call[p].amount] ELSE charged
  /\ IF call[p].then = "end" THEN End(p) ELSE Goto(p, call[p].then)
  /\ UNCHANGED <<earnings, earningsRaced, payout, deduction, due, transfer, payoutRaced>>

(* A completed order credits the vendor (countAsEarning); 0 is no payout.  *)
OrderCompleted(p) ==
  /\ Begin(p, [pc |-> "walletRead", item |-> 0, copy |-> earnings, amount |-> Earning,
               then |-> "end"])
  /\ UNCHANGED payoutVars

-----------------------------------------------------------------------------
SetPayout(i, s)    == payout' = [payout EXCEPT ![i] = s]
SetDeduction(i, s) == deduction' = [deduction EXCEPT ![i] = s]

(* requestPayout: the balance must cover it and is not reserved.           *)
RequestPayout(i) ==
  /\ OneStep
  /\ payout[i] = "none" /\ earnings.balance >= Amount
  /\ SetPayout(i, "pending")
  /\ UNCHANGED <<earnings, rows, earningsRaced, deduction, due, transfer, charged, payoutRaced>>

(* approvePayout, holdPayout and releasePayout read the payout ...         *)
ApprovePayout(p, i) ==
  /\ payout[i] = "pending"
  /\ Enter(p, i, "approve")
  /\ UNCHANGED <<earnings, rows, earningsRaced, payout, deduction, due, transfer, charged>>

HoldPayout(p, i) ==
  /\ payout[i] = "pending"
  /\ Enter(p, i, "hold")
  /\ UNCHANGED <<earnings, rows, earningsRaced, payout, deduction, due, transfer, charged>>

(* ... by an admin at any time, or by the cron once the window has lapsed. *)
ReleasePayout(p, i) ==
  /\ payout[i] = "held"
  /\ Enter(p, i, "release")
  /\ UNCHANGED <<earnings, rows, earningsRaced, payout, deduction, due, transfer, charged>>

(* ... and save their copy of it.  An approval goes on to the wallet, then *)
(* to Paystack.                                                            *)
SaveHold(p) ==
  /\ At(p, "hold") \/ At(p, "release")
  /\ SetPayout(call[p].item, IF At(p, "hold") THEN "held" ELSE "pending")
  /\ due' = due \ {call[p].item}
  /\ End(p)
  /\ UNCHANGED <<earnings, rows, earningsRaced, deduction, transfer, charged, payoutRaced>>

(* Mutant of SaveProcessing: the transfer is sent before the debit.        *)
SaveThenTransfer(p) ==
  /\ At(p, "approve")
  /\ SetPayout(call[p].item, "processing")
  /\ Goto(p, "transfer")
  /\ UNCHANGED <<earnings, rows, earningsRaced, deduction, due, transfer, charged, payoutRaced>>

SaveProcessing(p) ==
  /\ At(p, "approve")
  /\ SetPayout(call[p].item, "processing")
  /\ CallWallet(p, -Amount, "transfer")
  /\ UNCHANGED <<earnings, rows, earningsRaced, deduction, due, transfer, charged, payoutRaced>>

(* createTransferRecipient and initiateTransfer.  Paystack refuses a       *)
(* reference it has seen; its answer to an accepted transfer may be lost.  *)
InitiateTransfer(p) ==
  /\ At(p, "transfer")
  /\ LET i == call[p].item
     IN \/ /\ transfer[i] = "none"
           /\ \E t \in {"queued", "executed"}, answered \in BOOLEAN :
                /\ transfer' = [transfer EXCEPT ![i] = t]
                /\ Goto(p, IF ~answered THEN "failed"
                           ELSE IF t = "executed" THEN "completed" ELSE "processing")
        \/ Goto(p, "failed") /\ UNCHANGED transfer
  /\ UNCHANGED <<earnings, rows, earningsRaced, payout, deduction, due, charged, payoutRaced>>

(* Mutant of SaveOutcome: a failed payout is not credited back.            *)
SaveOutcomeOnly(p) ==
  /\ \E s \in {"completed", "processing", "failed"} : At(p, s) /\ SetPayout(call[p].item, s)
  /\ End(p)
  /\ UNCHANGED <<earnings, rows, earningsRaced, deduction, due, transfer, charged, payoutRaced>>

(* The final save; a failed payout is credited back, not as an earning.    *)
SaveOutcome(p) ==
  /\ \E s \in {"completed", "processing", "failed"} : At(p, s) /\ SetPayout(call[p].item, s)
  /\ IF At(p, "failed") THEN CallWallet(p, Amount, "end") ELSE End(p)
  /\ UNCHANGED <<earnings, rows, earningsRaced, deduction, due, transfer, charged, payoutRaced>>

(* Paystack executes a queued transfer; no handler takes transfer.success. *)
TransferExecutes(i) ==
  /\ transfer[i] = "queued"
  /\ transfer' = [transfer EXCEPT ![i] = "executed"]
  /\ UNCHANGED <<earnings, rows, earningsRaced, payout, deduction, due, charged, payoutRaced, requestVars>>

-----------------------------------------------------------------------------
CreateDeductionNotice(i) ==
  /\ OneStep
  /\ deduction[i] = "none"
  /\ SetDeduction(i, "pending_response")
  /\ UNCHANGED <<earnings, rows, earningsRaced, payout, due, transfer, charged, payoutRaced>>

(* Reading it: the vendor answers or an admin cancels while the notice is  *)
(* pending; an admin applies it by force, the cron once the window lapsed. *)
OpenDeduction(p, i, pc) ==
  /\ deduction[i] = "pending_response"
  /\ pc \in {"respond", "cancel", "apply"}
  /\ Enter(p, i, pc)
  /\ UNCHANGED <<earnings, rows, earningsRaced, payout, deduction, due, transfer, charged>>

(* Saving it; applyDeduction's save comes after its debit.                 *)
SaveDeduction(p) ==
  /\ \E pc \in {"respond", "cancel", "applied"} :
       /\ At(p, pc)
       /\ SetDeduction(call[p].item, [respond |-> "pending_response", cancel |-> "cancelled",
                                      applied |-> "applied"][pc])
  /\ End(p)
  /\ UNCHANGED <<earnings, rows, earningsRaced, payout, due, transfer, charged, payoutRaced>>

(* applyDeduction debits before it marks the deduction applied.            *)
ApplyDeduction(p) ==
  /\ At(p, "apply")
  /\ CallWallet(p, -Amount, "applied")
  /\ UNCHANGED payoutVars

-----------------------------------------------------------------------------
(* Business days pass: a hold or a response window lapses.                 *)
Lapse(i) ==
  /\ i \notin due
  /\ \/ i \in PayoutIds /\ payout[i] = "held"
     \/ i \in DeductionIds /\ deduction[i] = "pending_response"
  /\ due' = due \cup {i}
  /\ UNCHANGED <<earnings, rows, earningsRaced, payout, deduction, transfer, charged, payoutRaced, requestVars>>

(* autoReleaseExpiredHolds and applyDueDeductions.                         *)
CronTakes(p, i) ==
  /\ i \in due
  /\ \/ i \in PayoutIds /\ ReleasePayout(p, i)
     \/ i \in DeductionIds /\ OpenDeduction(p, i, "apply")

PayoutDies(p) ==
  /\ Dies(p)
  /\ UNCHANGED payoutVars

PayoutStep(p) ==
  \/ WalletRead(p) \/ WalletSave(p) \/ WalletRow(p) \/ SaveHold(p) \/ SaveProcessing(p)
  \/ InitiateTransfer(p) \/ SaveOutcome(p) \/ SaveDeduction(p) \/ ApplyDeduction(p)

PayoutRequest(p) ==
  \/ OrderCompleted(p)
  \/ \E i \in PayoutIds : ApprovePayout(p, i) \/ HoldPayout(p, i) \/ ReleasePayout(p, i)
  \/ \E i \in DeductionIds, pc \in {"respond", "cancel", "apply"} : OpenDeduction(p, i, pc)
  \/ \E i \in Charges : CronTakes(p, i)

PayoutsNext ==
  \/ \E p \in Procs : PayoutRequest(p) \/ PayoutStep(p) \/ PayoutDies(p)
  \/ \E i \in PayoutIds : RequestPayout(i) \/ TransferExecutes(i)
  \/ \E i \in DeductionIds : CreateDeductionNotice(i)
  \/ \E i \in Charges : Lapse(i)

PayoutsSpec == RequestsInit /\ PayoutsInit /\ [][PayoutsNext]_<<payoutVars, requestVars>>

-----------------------------------------------------------------------------
PayoutsTypeOK ==
  /\ earnings \in EarningsWallet /\ rows \in Int /\ earningsRaced \in BOOLEAN
  /\ payout \in [PayoutIds -> PayoutStatus]
  /\ deduction \in [DeductionIds -> DeductionStatus]
  /\ due \subseteq Charges /\ payoutRaced \subseteq Charges
  /\ transfer \in [PayoutIds -> {"none", "queued", "executed"}]
  /\ charged \in [Charges -> Int]

(* Ledger rows on their way: earnings, debits, and debits credited back.   *)
EarningRows == {p \in InFlight("walletRow") : call[p].item = 0}
DebitRows   == {p \in InFlight("walletRow") : call[p].amount < 0}
CreditRows  == InFlight("walletRow") \ (EarningRows \cup DebitRows)

Unwritten == Earning * Cardinality(EarningRows)
               + Amount * (Cardinality(CreditRows) - Cardinality(DebitRows))

(* "never negative" (vendor-earnings-wallet.entity.ts), under any overlap  *)
(* of credits and debits; and a wallet whose copies were never outdated    *)
(* agrees with its ledger once the rows on their way are written.          *)
WalletBooks ==
  /\ earnings.balance >= 0
  /\ ~earningsRaced /\ deaths = 0 => earnings.balance = rows + Unwritten

(* Nothing is sent to Paystack before the vendor was debited: whatever     *)
(* overlaps, a transfer is backed by a debit that was made for it.         *)
TransferIsBacked ==
  [][\A i \in PayoutIds : transfer[i] = "none" /\ transfer'[i] # "none"
                            => charged[i] >= Amount]_payoutVars

(* At rest, where no handler died and one request at a time has worked on *)
(* it: a completed payout was sent and charged, once; one still processing *)
(* is charged if it was sent, and not when its debit was refused; one that *)
(* failed has been credited back - though it may have been sent, when the  *)
(* answer of Paystack was lost; before an approval nothing is sent or      *)
(* charged; and a deduction is charged when it is applied, a cancelled one *)
(* never ("the vendor is never charged", earnings-deduction.entity.ts).    *)
ChargedForWhatHappened ==
  deaths = 0 =>
    /\ \A i \in PayoutIds \ payoutRaced : ~Working(i) =>
         /\ payout[i] = "completed" => transfer[i] = "executed" /\ charged[i] = Amount
         /\ payout[i] = "processing" => charged[i] = IF transfer[i] = "none" THEN 0 ELSE Amount
         /\ payout[i] = "failed" => charged[i] = 0
         /\ payout[i] \in {"none", "pending", "held"} => transfer[i] = "none" /\ charged[i] = 0
    /\ \A i \in DeductionIds \ payoutRaced : ~Working(i) =>
         charged[i] = IF deduction[i] = "applied" THEN Amount ELSE 0

(* "A 'pending' status means it's queued - Paystack sends a                *)
(* transfer.success webhook" (payouts.service.ts): a transfer that was     *)
(* queued completes its payout.                                            *)
QueuedCompletes ==
  \A i \in PayoutIds :
    (payout[i] = "processing" /\ transfer[i] = "queued" /\ ~Working(i))
      ~> (payout[i] = "completed" \/ deaths > 0)
==============================================================================
