------------------------------ MODULE Payments ------------------------------
(***************************************************************************)
(* Money into the platform: top-ups of customers and companies and the     *)
(* funding of a draft order through a shared link (paystack.service.ts,    *)
(* order-funding.service.ts), on the vaults the points are issued from.    *)
(*                                                                         *)
(* Paystack is outside: charge[t] is what it knows of our reference t, and *)
(* it may deliver charge.success and charge.failed late and repeatedly.    *)
(* A webhook, a verification or a payment request is a sequence of steps   *)
(* of a slot p \in Procs; between two steps others run, and the slot may   *)
(* die (a throwing call, a stopped process).  Saving a transaction or a    *)
(* link that was read before writes every column of that copy.             *)
(***************************************************************************)
EXTENDS Vaults

CONSTANTS
  Txs,            \* references: paystack_transactions
  Accounts,       \* wallets and company wallets points may be bought for
  Links,          \* order funding links
  Customer,       \* Customer[l]: owner of the order of link l
  WP,             \* WashPoints one payment buys
  OrderWP,        \* price of a draft order
  Procs,          \* bound: requests in flight
  NoLink,         \* a payment that funds no order
  NoRequest,      \* a free slot
  MaxFailures     \* bound: requests that die

VARIABLES
  tx,        \* paystack_transactions
  charge,    \* Paystack: "none", "open" or "paid"
  declined,  \* references Paystack has sent charge.failed for
  ledger,    \* TOPUP ledger rows of a reference
  balance,   \* wallet balances
  link,      \* order_funding_links
  expired,   \* links past their 48 hours
  overtaken, \* references a verification took for paid though no longer PENDING
  order,     \* status of the order of a link: "draft", "paid" or "other"
  req,       \* requests in flight
  failures

payVars == <<tx, charge, declined, ledger, balance, link, expired, overtaken, order, req, failures>>
vars    == <<payVars, vaultVars>>

Tx == [ status : {"absent", "PENDING", "SUCCESS", "FAILED"}, vault : VaultIds \cup {0},
        account : Accounts, link : Links \cup {NoLink}, credited : BOOLEAN ]

Link == [status : {"none", "active", "paid"}, vault : VaultIds \cup {0}]

Request == [ pc : {"sponsor", "create", "initialize", "verify", "fail", "success",
                   "credit", "vault", "mark", "settle", "link"},
             tx : Txs, link : Links \cup {NoLink} ]

ASSUME PaymentConstantsOK ==
  /\ Accounts # {} /\ Customer \in [Links -> Accounts]
  /\ WP \in Nat \ {0} /\ OrderWP \in Nat \ {0} /\ MaxFailures \in Nat
  /\ NoRequest \notin Request /\ NoLink \notin Links

AnyAccount == CHOOSE a \in Accounts : TRUE

Init ==
  /\ VaultsInit
  /\ tx = [t \in Txs |-> [status |-> "absent", vault |-> 0, account |-> AnyAccount,
                          link |-> NoLink, credited |-> FALSE]]
  /\ charge = [t \in Txs |-> "none"]
  /\ declined = {}
  /\ ledger = [t \in Txs |-> 0]
  /\ balance = [a \in Accounts |-> 0]
  /\ link = [l \in Links |-> [status |-> "none", vault |-> 0]]
  /\ expired = {} /\ overtaken = {}
  /\ order = [l \in Links |-> "draft"]
  /\ req = [p \in Procs |-> NoRequest]
  /\ failures = 0

-----------------------------------------------------------------------------
Idle(p)        == req[p] = NoRequest
At(p, pc)      == req[p] # NoRequest /\ req[p].pc = pc
Finish(p)      == req' = [req EXCEPT ![p] = NoRequest]
Goto(p, pc)    == req' = [req EXCEPT ![p].pc = pc]
Enter(p, pc, t, l) == req' = [req EXCEPT ![p] = [pc |-> pc, tx |-> t, link |-> l]]

Busy(t) == \E p \in Procs : req[p] # NoRequest /\ req[p].tx = t

(* A reference no request is about to insert.                              *)
Unused(t) == tx[t].status = "absent" /\ ~Busy(t)

Insert(t, v, a, l) ==
  tx' = [tx EXCEPT ![t] = [status |-> "PENDING", vault |-> v, account |-> a,
                           link |-> l, credited |-> FALSE]]

SetStatus(t, s) == tx' = [tx EXCEPT ![t].status = s, ![t].credited = FALSE]

(* initiateTopup, initiateCompanyTopup: the row takes the vault of the     *)
(* moment; paystackInitialize runs after the insert.                       *)
InitiateTopup(p, t, a) ==
  /\ Idle(p) /\ Unused(t)
  /\ \E v \in VaultIds : DefaultVault(v) /\ Insert(t, v, a, NoLink)
  /\ Enter(p, "initialize", t, NoLink)
  /\ UNCHANGED <<charge, declined, ledger, balance, link, expired, overtaken, order, failures, vaultVars>>

(* createLink: needs an active vault; an active, unexpired link is reused. *)
CreateLink(l) ==
  /\ order[l] = "draft" /\ link[l].status = "none"
  /\ \E v \in VaultIds :
       DefaultVault(v) /\ link' = [link EXCEPT ![l] = [status |-> "active", vault |-> v]]
  /\ UNCHANGED <<tx, charge, declined, ledger, balance, expired, overtaken, order, req, failures, vaultVars>>

(* pay: effectiveStatus(link, order) = 'active'.                           *)
PayLink(p, t, l) ==
  /\ Idle(p) /\ Unused(t)
  /\ link[l].status = "active" /\ l \notin expired /\ order[l] = "draft"
  /\ \E pc \in {"sponsor", "create"} : Enter(p, pc, t, l)
  /\ UNCHANGED <<tx, charge, declined, ledger, balance, link, expired, overtaken, order, failures, vaultVars>>

(* pay: the sponsor's name is saved with the copy of the link, status and  *)
(* all.                                                                    *)
SaveSponsor(p) ==
  /\ At(p, "sponsor")
  /\ link' = [link EXCEPT ![req[p].link].status = "active"]
  /\ Goto(p, "create")
  /\ UNCHANGED <<tx, charge, declined, ledger, balance, expired, overtaken, order, failures, vaultVars>>

(* initiateOrderFunding: on the vault the link was priced with.            *)
InitiateOrderFunding(p) ==
  /\ At(p, "create")
  /\ LET l == req[p].link IN Insert(req[p].tx, link[l].vault, Customer[l], l)
  /\ Goto(p, "initialize")
  /\ UNCHANGED <<charge, declined, ledger, balance, link, expired, overtaken, order, failures, vaultVars>>

PaystackInitialize(p) ==
  /\ At(p, "initialize")
  /\ charge' = [charge EXCEPT ![req[p].tx] = "open"]
  /\ Finish(p)
  /\ UNCHANGED <<tx, declined, ledger, balance, link, expired, overtaken, order, failures, vaultVars>>

-----------------------------------------------------------------------------
(* The customer at Paystack's checkout: an attempt may be declined before  *)
(* another one succeeds.                                                   *)
CustomerPays(t) ==
  /\ charge[t] = "open"
  /\ charge' = [charge EXCEPT ![t] = "paid"]
  /\ UNCHANGED <<tx, declined, ledger, balance, link, expired, overtaken, order, req, failures, vaultVars>>

CardDeclined(t) ==
  /\ charge[t] = "open" /\ t \notin declined
  /\ declined' = declined \cup {t}
  /\ UNCHANGED <<tx, charge, ledger, balance, link, expired, overtaken, order, req, failures, vaultVars>>

(* Mutants of ChargeSuccess: a webhook is processed each time it comes; it *)
(* marks the transaction and credits nothing.                              *)
ChargeSuccessAgain(p, t) ==
  /\ Idle(p) /\ charge[t] = "paid"
  /\ SetStatus(t, "SUCCESS")
  /\ Enter(p, "credit", t, NoLink)
  /\ UNCHANGED <<charge, declined, ledger, balance, link, expired, overtaken, order, failures, vaultVars>>

ChargeSuccessOnly(p, t) ==
  /\ Idle(p) /\ charge[t] = "paid" /\ tx[t].status = "PENDING"
  /\ SetStatus(t, "SUCCESS")
  /\ UNCHANGED <<charge, declined, ledger, balance, link, expired, overtaken, order, req, failures, vaultVars>>

(* onChargeSuccess: PENDING -> SUCCESS under the row lock, committed before *)
(* anything is credited.                                                   *)
ChargeSuccess(p, t) ==
  /\ Idle(p) /\ charge[t] = "paid" /\ tx[t].status = "PENDING"
  /\ SetStatus(t, "SUCCESS")
  /\ Enter(p, "credit", t, NoLink)
  /\ UNCHANGED <<charge, declined, ledger, balance, link, expired, overtaken, order, failures, vaultVars>>

(* onChargeFailed: the row is read without a lock and saved later.         *)
ChargeFailed(p, t) ==
  /\ Idle(p) /\ t \in declined /\ tx[t].status = "PENDING"
  /\ Enter(p, "fail", t, NoLink)
  /\ UNCHANGED <<tx, charge, declined, ledger, balance, link, expired, overtaken, order, failures, vaultVars>>

(* verifyTopup: a PENDING copy, and the question sent to Paystack.         *)
VerifyTopup(p, t) ==
  /\ Idle(p) /\ tx[t].status = "PENDING" /\ charge[t] # "none"
  /\ Enter(p, "verify", t, NoLink)
  /\ UNCHANGED <<tx, charge, declined, ledger, balance, link, expired, overtaken, order, failures, vaultVars>>

(* Mutant of VerifyAnswer: any answer of Paystack is taken for a success.  *)
VerifyAnyAnswer(p) ==
  /\ At(p, "verify")
  /\ Goto(p, "success")
  /\ UNCHANGED <<tx, charge, declined, ledger, balance, link, expired, overtaken, order, failures, vaultVars>>

(* paystackVerify: success once paid; before that failed, abandoned or     *)
(* still pending.  An answer other than success is worth what the charge   *)
(* was then.                                                               *)
VerifyAnswer(p) ==
  /\ At(p, "verify")
  /\ IF charge[req[p].tx] = "paid" THEN Goto(p, "success")
     ELSE Goto(p, "fail") \/ Finish(p)
  /\ UNCHANGED <<tx, charge, declined, ledger, balance, link, expired, overtaken, order, failures, vaultVars>>

(* processSuccessfulPayment: the copy is still PENDING, whatever the row   *)
(* has become.                                                             *)
SaveSuccess(p) ==
  /\ At(p, "success")
  /\ LET t == req[p].tx
     IN /\ SetStatus(t, "SUCCESS")
        /\ overtaken' = IF tx[t].status = "PENDING" THEN overtaken ELSE overtaken \cup {t}
  /\ Goto(p, "credit")
  /\ UNCHANGED <<charge, declined, ledger, balance, link, expired, order, failures, vaultVars>>

SaveFailed(p) ==
  /\ At(p, "fail")
  /\ SetStatus(req[p].tx, "FAILED")
  /\ Finish(p)
  /\ UNCHANGED <<charge, declined, ledger, balance, link, expired, overtaken, order, failures, vaultVars>>

(* walletsService.credit or companyWalletService.credit.                   *)
CreditWallet(p) ==
  /\ At(p, "credit")
  /\ ledger' = [ledger EXCEPT ![req[p].tx] = @ + 1]
  /\ balance' = [balance EXCEPT ![tx[req[p].tx].account] = @ + WP]
  /\ Goto(p, "vault")
  /\ UNCHANGED <<tx, charge, declined, link, expired, overtaken, order, failures, vaultVars>>

(* debitVault: throws, and ends the handler, when the vault cannot give    *)
(* what the wallet has already received.                                   *)
IssueFromVault(p) ==
  /\ At(p, "vault")
  /\ LET v == tx[req[p].tx].vault
     IN \/ DebitVault(v, WP) /\ Goto(p, "mark")
        \/ ~CanDebit(v, WP) /\ Finish(p) /\ UNCHANGED vaultVars
  /\ UNCHANGED <<tx, charge, declined, ledger, balance, link, expired, overtaken, order, failures>>

(* Mutant of MarkCredited: the link is spent before the order is settled.  *)
MarkThenSpend(p) ==
  /\ At(p, "mark")
  /\ tx' = [tx EXCEPT ![req[p].tx].credited = TRUE]
  /\ IF tx[req[p].tx].link = NoLink THEN Finish(p) ELSE Goto(p, "link")
  /\ UNCHANGED <<charge, declined, ledger, balance, link, expired, overtaken, order, failures, vaultVars>>

MarkCredited(p) ==
  /\ At(p, "mark")
  /\ tx' = [tx EXCEPT ![req[p].tx].credited = TRUE]
  /\ IF tx[req[p].tx].link = NoLink THEN Finish(p) ELSE Goto(p, "settle")
  /\ UNCHANGED <<charge, declined, ledger, balance, link, expired, overtaken, order, failures, vaultVars>>

(* confirmPayment, as one step: a draft is paid from its owner's wallet    *)
(* (OrderSettlement has its steps).                                        *)
Confirm(l) ==
  /\ order[l] = "draft" /\ balance[Customer[l]] >= OrderWP
  /\ order' = [order EXCEPT ![l] = "paid"]
  /\ balance' = [balance EXCEPT ![Customer[l]] = @ - OrderWP]

(* settleFundedTransaction: a PAID order returns as it is; an order that   *)
(* cannot be confirmed throws and settleOrderFundingIfAny swallows it.     *)
SettleFunded(p) ==
  /\ At(p, "settle")
  /\ LET l == tx[req[p].tx].link
     IN \/ Confirm(l) /\ Goto(p, "link")
        \/ order[l] = "paid" /\ Goto(p, "link") /\ UNCHANGED <<order, balance>>
        \/ /\ order[l] # "paid" /\ (order[l] = "draft" => balance[Customer[l]] < OrderWP)
           /\ Finish(p) /\ UNCHANGED <<order, balance>>
  /\ UNCHANGED <<tx, charge, declined, ledger, link, expired, overtaken, failures, vaultVars>>

SpendLink(p) ==
  /\ At(p, "link")
  /\ link' = [link EXCEPT ![tx[req[p].tx].link].status = "paid"]
  /\ Finish(p)
  /\ UNCHANGED <<tx, charge, declined, ledger, balance, expired, overtaken, order, failures, vaultVars>>

-----------------------------------------------------------------------------
(* What happens to the order and the link elsewhere: the owner confirms    *)
(* from the wallet, cancels, or the order moves on; 48 hours pass.         *)
OwnerConfirms(l) ==
  /\ Confirm(l)
  /\ UNCHANGED <<tx, charge, declined, ledger, link, expired, overtaken, req, failures, vaultVars>>

OrderMovesOn(l) ==
  /\ order[l] # "other"
  /\ order' = [order EXCEPT ![l] = "other"]
  /\ UNCHANGED <<tx, charge, declined, ledger, balance, link, expired, overtaken, req, failures, vaultVars>>

LinkExpires(l) ==
  /\ link[l].status = "active" /\ l \notin expired
  /\ expired' = expired \cup {l}
  /\ UNCHANGED <<tx, charge, declined, ledger, balance, link, overtaken, order, req, failures, vaultVars>>

Fail(p) ==
  /\ req[p] # NoRequest /\ failures < MaxFailures
  /\ Finish(p)
  /\ failures' = failures + 1
  /\ UNCHANGED <<tx, charge, declined, ledger, balance, link, expired, overtaken, order, vaultVars>>

-----------------------------------------------------------------------------
Step(p) ==
  \/ SaveSponsor(p) \/ InitiateOrderFunding(p) \/ PaystackInitialize(p)
  \/ VerifyAnswer(p) \/ SaveSuccess(p) \/ SaveFailed(p) \/ CreditWallet(p)
  \/ IssueFromVault(p) \/ MarkCredited(p) \/ SettleFunded(p) \/ SpendLink(p)

Call(p) ==
  \/ \E t \in Txs : ChargeSuccess(p, t) \/ ChargeFailed(p, t) \/ VerifyTopup(p, t)
  \/ \E t \in Txs, a \in Accounts : InitiateTopup(p, t, a)
  \/ \E t \in Txs, l \in Links : PayLink(p, t, l)

Outside ==
  \/ \E t \in Txs : CustomerPays(t) \/ CardDeclined(t)
  \/ \E l \in Links : CreateLink(l) \/ OwnerConfirms(l) \/ OrderMovesOn(l) \/ LinkExpires(l)

VaultNext ==
  /\ \E w \in Workers : VaultAdmin(w) \/ VaultStep(w) \/ JobDies(w)
  /\ UNCHANGED payVars

Next == (\E p \in Procs : Call(p) \/ Step(p) \/ Fail(p)) \/ Outside \/ VaultNext

Spec == Init /\ [][Next]_vars

(* A started handler goes on, and Paystack repeats charge.success until it *)
(* is answered.                                                            *)
FairSpec ==
  /\ Spec
  /\ \A p \in Procs : WF_vars(Step(p))
  /\ \A t \in Txs : SF_vars(\E p \in Procs : ChargeSuccess(p, t))
  /\ \A w \in Workers : WF_vars(VaultStep(w) /\ UNCHANGED payVars)

-----------------------------------------------------------------------------
(* Type correctness of every row, request and job.                         *)
TypeOK ==
  /\ VaultsTypeOK
  /\ tx \in [Txs -> Tx]
  /\ charge \in [Txs -> {"none", "open", "paid"}]
  /\ declined \subseteq Txs
  /\ ledger \in [Txs -> Nat] /\ balance \in [Accounts -> Int]
  /\ link \in [Links -> Link]
  /\ expired \subseteq Links /\ overtaken \subseteq Txs
  /\ order \in [Links -> {"draft", "paid", "other"}]
  /\ req \in [Procs -> Request \cup {NoRequest}]
  /\ failures \in 0..MaxFailures

(* Points are credited only for money Paystack has taken, and a row that   *)
(* says so (washPointsCredited) was credited.                              *)
NoCreditUnpaid ==
  \A t \in Txs : /\ ledger[t] > 0 => charge[t] = "paid"
                 /\ tx[t].credited => ledger[t] > 0

(* A link is marked paid only after the order it funds left the draft.     *)
SpentLinkOrderPaid == \A l \in Links : link[l].status = "paid" => order[l] # "draft"

(* The handlers implement the promise of buying WashPoints: opened, paid   *)
(* and credited once, however webhooks and verifications repeat and        *)
(* overlap.  Only the further credits of an overtaken reference do not     *)
(* count: the webhook and a verification then each made one.               *)
Credits  == [t \in Txs |-> IF t \in overtaken /\ ledger[t] > 0 THEN 1 ELSE ledger[t]]
Contract == INSTANCE TopUpContract
              WITH Payments <- Txs, payment <- charge, credits <- Credits
ImplementsTopUp == Contract!Spec

(* A customer who has paid is credited, unless a handler died on the way   *)
(* or the reference had been given up as FAILED before.                    *)
PaidIsCredited ==
  \A t \in Txs : charge[t] = "paid" ~>
                   (ledger[t] > 0 \/ failures > 0 \/ tx[t].status = "FAILED")
==============================================================================
