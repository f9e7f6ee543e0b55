--------------------------- MODULE OrderSettlement ---------------------------
(***************************************************************************)
(* The life of an order and of the WashPoints paid for it: every operation *)
(* of orders.service.ts that writes the order row, the customer's wallet,  *)
(* the escrow row or an ORDER_DEBIT / CANCELLATION_REFUND / VENDOR_EARNING *)
(* / REP_EARNING / REP_TRANSPORT ledger row, with the order-row writes of  *)
(* assignment.service.ts and the cron entry points of tasks.service.ts.    *)
(*                                                                         *)
(* A handler is a TypeScript async function.  It may be suspended at every *)
(* await, and several run at once (other requests, the crons, the other    *)
(* instances behind the load balancer), so a handler is a sequence of      *)
(* steps of one in-flight request p \in Procs.  req[p] holds where it is   *)
(* (pc) and the entities it has loaded (row, bal): they are copies, and    *)
(* TypeORM's save() of such a copy overwrites every column of the row.     *)
(*                                                                         *)
(* dataSource.transaction(...) is one step, at its commit; what a handler  *)
(* does inside the callback through an injected service or repository runs *)
(* on another connection, commits by itself and is a step of its own.      *)
(***************************************************************************)
EXTENDS Integers, OrderStatus

CONSTANTS
  Orders,          \* order ids
  Customers,       \* user ids
  Owner,           \* Owner[o]: orders.customer_id
  TotalWP,         \* TotalWP[o]: orders.total_wp
  RepShareWP,      \* RepShareWP[o]: commission frozen in the pricing snapshot
  TransportWP,     \* TransportWP[o]: rep transport credited at settlement
  Chosen,          \* orders placed with allocationMode = 'choose'
  VendorShares,    \* what pricing a garment log may yield
  InitialBalance,  \* InitialBalance[c]: wallets.balance at the start
  TopUpWP,         \* size of a wallet top-up
  Procs,           \* slots for in-flight requests
  Ops,             \* operations that may be called
  NoRequest,       \* an idle slot
  MaxFailures,     \* bound: requests that die between two awaits
  MaxTopUps,       \* bound: top-ups per customer
  MaxRows          \* bound: ledger rows per source and order before no further
                   \* settlement or cancellation of that order is started

(* The status endpoints of orders.controller.ts that end in transition().  *)
RepTargets    == { "REP_EN_ROUTE_PICKUP", "PICKED_UP", "REP_COLLECTED",
                   "OUT_FOR_DELIVERY", "DELIVERED" }
VendorTargets == { "IN_PROGRESS", "READY_FOR_DELIVERY" }

(* The columns of orders the code branches on.  0 stands for a share that  *)
(* is null as well as for 0: every test in the code is `!share`.           *)
Row == [ status : Status, vendorShareWP : Nat, repShareWP : Nat,
         uncollectedNoticeCount : 0..2, rated : BOOLEAN ]

(* ledger_entries of an order, counted by source.                          *)
Ledger == [ debit : Nat, refund : Nat, vendor : Nat, rep : Nat, transport : Nat ]

Pc == { "save", "read", "assign", "startVendor", "stamp",
        "confirm.wallet", "confirm.tx", "cancel.wallet", "cancel.tx",
        "complete.escrow", "complete.vendor", "complete.rep",
        "complete.transport", "complete.tx", "abandon.escrow",
        "abandon.vendor", "abandon.rep", "abandon.transport" }

(* What a handler goes on with after its "save" step.                      *)
Then == { "done", "startVendor", "schedule", "stamp", "abandon.transport" }

Request == [ pc : Pc, id : Orders, row : Row, bal : Int, to : Status, then : Then ]

ASSUME ConstantsOK ==
  /\ Owner \in [Orders -> Customers]
  /\ TotalWP \in [Orders -> Nat]
  /\ RepShareWP \in [Orders -> Nat]
  /\ TransportWP \in [Orders -> Nat]
  /\ Chosen \subseteq Orders
  /\ VendorShares \subseteq Nat
  /\ InitialBalance \in [Customers -> Nat]
  /\ TopUpWP \in Nat
  /\ NoRequest \notin Request
  /\ MaxFailures \in Nat /\ MaxTopUps \in Nat /\ MaxRows \in Nat

VARIABLES
  order,     \* orders, by id
  wallet,    \* wallets.balance, by customer
  escrow,    \* order_escrows.status, by order id; "none" if there is no row
  ledger,    \* ledger_entries of the order, by source
  topUps,    \* TOP_UP ledger rows, by customer
  req,       \* in-flight requests
  failures   \* requests that have died so far

rows  == <<order, wallet, escrow, ledger, topUps>>
money == <<wallet, escrow, ledger, topUps>>
vars  == <<order, wallet, escrow, ledger, topUps, req, failures>>

Draft == [ status |-> "PENDING_PAYMENT", vendorShareWP |-> 0, repShareWP |-> 0,
           uncollectedNoticeCount |-> 0, rated |-> FALSE ]

(* placeOrder() has committed a draft for every order.                     *)
Init ==
  /\ order    = [o \in Orders |-> Draft]
  /\ wallet   = InitialBalance
  /\ escrow   = [o \in Orders |-> "none"]
  /\ ledger   = [o \in Orders |->
                   [debit |-> 0, refund |-> 0, vendor |-> 0, rep |-> 0, transport |-> 0]]
  /\ topUps   = [c \in Customers |-> 0]
  /\ req      = [p \in Procs |-> NoRequest]
  /\ failures = 0

-----------------------------------------------------------------------------
(* Requests.                                                               *)

At(p, pc) == req[p] # NoRequest /\ req[p].pc = pc

Enter(p, r) == req' = [req EXCEPT ![p] = r]
Finish(p)   == Enter(p, NoRequest)
Goto(p, pc) == Enter(p, [req[p] EXCEPT !.pc = pc])

Callable(p, op) == req[p] = NoRequest /\ op \in Ops

(* A handler about to run step pc on order o, nothing loaded yet; to is    *)
(* the target of transition(), or PENDING_PAYMENT outside transition().    *)
Fresh(pc, o) ==
  [pc |-> pc, id |-> o, row |-> Draft, bal |-> 0, to |-> "PENDING_PAYMENT",
   then |-> "done"]

(* A handler about to run step pc with its copy of the row of o.           *)
Holding(pc, o, row) == [Fresh(pc, o) EXCEPT !.row = row]

(* A handler whose next step saves its changed copy of the row of o.       *)
Saving(o, row, then) == [Holding("save", o, row) EXCEPT !.then = then]

(* A handler whose next step is the findOne of transition(o, to).          *)
Reading(o, to, then) ==
  [pc |-> "read", id |-> o, row |-> Draft, bal |-> 0, to |-> to, then |-> then]

(* After a save: the end, or the next call the handler awaits.             *)
Continue(p, o, then) ==
  CASE then = "done"     -> Finish(p)
    [] then = "schedule" -> Enter(p, Reading(o, "SCHEDULED", "done"))
    [] OTHER             -> Enter(p, Fresh(then, o))

Count(o, source) == ledger' = [ledger EXCEPT ![o][source] = @ + 1]

(* Bound MaxRows on the ledger.                                            *)
Room(o) == /\ ledger[o].refund < MaxRows
           /\ ledger[o].vendor < MaxRows
           /\ ledger[o].rep < MaxRows
           /\ ledger[o].transport < MaxRows

-----------------------------------------------------------------------------
(* Steps shared by the handlers that write the order row.                  *)

(* orderRepository.save(order), or the commit of a transaction that writes *)
(* the order row only: the copy overwrites the row.                        *)
Save(p) ==
  /\ At(p, "save")
  /\ LET r == req[p] IN
       /\ order' = [order EXCEPT ![r.id] = r.row]
       /\ Continue(p, r.id, r.then)
  /\ UNCHANGED <<wallet, escrow, ledger, topUps, failures>>

(* transition(): findOne and the state-machine guard; an illegal move      *)
(* throws and ends the handler.  A same-status call passes.                *)
TransitionRead(p) ==
  /\ At(p, "read")
  /\ LET r   == req[p]
         row == order[r.id] IN
       IF r.to \in Allowed(row.status) \cup {row.status}
         THEN Enter(p, [r EXCEPT !.pc = "save", !.row = [row EXCEPT !.status = r.to]])
         ELSE Finish(p)
  /\ UNCHANGED <<rows, failures>>

(* A request dies between two awaits: a call throws or the process stops.  *)
(* What it has committed stays, an open transaction is rolled back.        *)
Fail(p) ==
  /\ req[p] # NoRequest
  /\ failures < MaxFailures
  /\ failures' = failures + 1
  /\ Finish(p)
  /\ UNCHANGED rows

-----------------------------------------------------------------------------
(* Wallet and payment.                                                     *)

(* WalletsService.credit: ledger row and balance under the row lock.       *)
TopUp(p, c) ==
  /\ Callable(p, "topUp")
  /\ topUps[c] < MaxTopUps
  /\ wallet' = [wallet EXCEPT ![c] = @ + TopUpWP]
  /\ topUps' = [topUps EXCEPT ![c] = @ + 1]
  /\ UNCHANGED <<order, escrow, ledger, req, failures>>

(* confirmPayment: load the order; only a draft goes on.                   *)
ConfirmPayment(p, o) ==
  /\ Callable(p, "confirm")
  /\ order[o].status = "PENDING_PAYMENT"
  /\ Enter(p, Holding("confirm.wallet", o, order[o]))
  /\ UNCHANGED <<rows, failures>>

(* Load the wallet and compare its balance with the price.                 *)
ConfirmWallet(p) ==
  /\ At(p, "confirm.wallet")
  /\ LET r == req[p]
         b == wallet[Owner[r.id]] IN
       IF b >= TotalWP[r.id]
         THEN Enter(p, [r EXCEPT !.pc = "confirm.tx", !.bal = b])
         ELSE Finish(p)
  /\ UNCHANGED <<rows, failures>>

(* Mutants of ConfirmCommit: an escrow row is overwritten instead of       *)
(* inserted, so nothing stops a second confirmation; nothing is debited.   *)
ConfirmUpsert(p) ==
  /\ At(p, "confirm.tx")
  /\ LET r == req[p] IN
       /\ wallet' = [wallet EXCEPT ![Owner[r.id]] = r.bal - TotalWP[r.id]]
       /\ Count(r.id, "debit")
       /\ escrow' = [escrow EXCEPT ![r.id] = "held"]
       /\ order'  = [order EXCEPT ![r.id] = [r.row EXCEPT !.status = "PAID"]]
       /\ Enter(p, Fresh("assign", r.id))
  /\ UNCHANGED <<topUps, failures>>

ConfirmWithoutDebit(p) ==
  /\ At(p, "confirm.tx")
  /\ LET r == req[p] IN
       /\ escrow[r.id] = "none"
       /\ Count(r.id, "debit")
       /\ escrow' = [escrow EXCEPT ![r.id] = "held"]
       /\ order'  = [order EXCEPT ![r.id] = [r.row EXCEPT !.status = "PAID"]]
       /\ Enter(p, Fresh("assign", r.id))
  /\ UNCHANGED <<wallet, topUps, failures>>

(* The transaction: the debited copy of the wallet, its ledger row, a new  *)
(* escrow row (order_id is unique: the insert fails if there is one, and   *)
(* everything rolls back), the order PAID.  Then startRepAssignment, not   *)
(* awaited by the response but run to its end all the same.                *)
ConfirmCommit(p) ==
  /\ At(p, "confirm.tx")
  /\ LET r == req[p]
         o == r.id IN
       /\ escrow[o] = "none"
       /\ wallet' = [wallet EXCEPT ![Owner[o]] = r.bal - TotalWP[o]]
       /\ Count(o, "debit")
       /\ escrow' = [escrow EXCEPT ![o] = "held"]
       /\ order'  = [order EXCEPT ![o] = [r.row EXCEPT !.status = "PAID"]]
       /\ Enter(p, Fresh("assign", o))
  /\ UNCHANGED <<topUps, failures>>

ConfirmRollback(p) ==
  /\ At(p, "confirm.tx")
  /\ escrow[req[p].id] # "none"
  /\ Finish(p)
  /\ UNCHANGED <<rows, failures>>

-----------------------------------------------------------------------------
(* The order-row writes of the assignment phase.                           *)

(* startRepAssignment after a payment: only a PAID order is broadcast.     *)
StartRepAssignment(p) ==
  /\ At(p, "assign")
  /\ LET o == req[p].id IN
       IF order[o].status = "PAID"
         THEN Enter(p, Reading(o, "BROADCASTING_REP", "done"))
         ELSE Finish(p)
  /\ UNCHANGED <<rows, failures>>

(* startRepAssignment from the sweepStalePaidOrders cron or by an admin.   *)
SweepPaid(p, o) ==
  /\ Callable(p, "sweepPaid")
  /\ order[o].status = "PAID"
  /\ Enter(p, Fresh("assign", o))
  /\ UNCHANGED <<rows, failures>>

(* repAccepts, adminAssignRep, vendorAccepts, adminAssignVendor: the row   *)
(* is loaded in one of the statuses from, saved later in status to.        *)
Assign(p, o, op, from, to, then) ==
  /\ Callable(p, op)
  /\ order[o].status \in from
  /\ Enter(p, Saving(o, [order[o] EXCEPT !.status = to], then))
  /\ UNCHANGED <<rows, failures>>

RepAccepts(p, o) ==
  Assign(p, o, "accept", {"BROADCASTING_REP"}, "REP_ASSIGNED", "startVendor")

AdminAssignRep(p, o) ==
  Assign(p, o, "adminAssign", {"PAID", "BROADCASTING_REP", "REP_ASSIGNED"},
         "REP_ASSIGNED", "done")

VendorAccepts(p, o) ==
  Assign(p, o, "accept", {"BROADCASTING_VENDOR"}, "VENDOR_ASSIGNED", "schedule")

AdminAssignVendor(p, o) ==
  Assign(p, o, "adminAssign",
         {"REP_ASSIGNED", "BROADCASTING_VENDOR", "VENDOR_ASSIGNED"},
         "VENDOR_ASSIGNED", "schedule")

(* startVendorAssignment: a chosen vendor who is still usable is pinned    *)
(* whatever the status of the row just loaded; else vendors are broadcast. *)
StartVendorAssignment(p) ==
  /\ At(p, "startVendor")
  /\ LET o == req[p].id IN
       \/ /\ o \in Chosen
          /\ Enter(p, Saving(o, [order[o] EXCEPT !.status = "VENDOR_ASSIGNED"], "schedule"))
       \/ Enter(p, Reading(o, "BROADCASTING_VENDOR", "done"))
  /\ UNCHANGED <<rows, failures>>

-----------------------------------------------------------------------------
(* The service itself: rep and vendor endpoints.                           *)

(* repTransition / vendorTransition: transition() after an ownership check.*)
Transition(p, o, to) ==
  /\ Callable(p, "transition")
  /\ to \in RepTargets \cup VendorTargets
  /\ to \in Allowed(order[o].status) \cup {order[o].status}
  /\ Enter(p, [Saving(o, [order[o] EXCEPT !.status = to], "done") EXCEPT !.to = to])
  /\ UNCHANGED <<rows, failures>>

SplitKnown(row) == row.vendorShareWP # 0 /\ row.repShareWP # 0

(* logGarmentCount: prices the log, which yields vendorShareWP = v.        *)
LogGarmentCount(p, o, v) ==
  /\ Callable(p, "log")
  /\ order[o].status \in {"PICKED_UP", "WITH_VENDOR"}
  /\ Enter(p, Saving(o, [order[o] EXCEPT !.vendorShareWP = v,
                                         !.repShareWP = RepShareWP[o]], "done"))
  /\ UNCHANGED <<rows, failures>>

(* markWithVendor: the split must be known on the copy loaded first.       *)
MarkWithVendor(p, o) ==
  /\ Callable(p, "transition")
  /\ order[o].status \in {"PICKED_UP", "WITH_VENDOR"}
  /\ SplitKnown(order[o])
  /\ Enter(p, Reading(o, "WITH_VENDOR", "done"))
  /\ UNCHANGED <<rows, failures>>

(* recordFailedDelivery: a transition, then a second load and save that    *)
(* stamps the first uncollected notice.                                    *)
RecordFailedDelivery(p, o) ==
  /\ Callable(p, "failedDelivery")
  /\ order[o].status \in {"OUT_FOR_DELIVERY", "DELIVERY_FAILED"}
  /\ Enter(p, Reading(o, "DELIVERY_FAILED", "stamp"))
  /\ UNCHANGED <<rows, failures>>

StampNotice(p) ==
  /\ At(p, "stamp")
  /\ LET o == req[p].id
         n == order[o].uncollectedNoticeCount IN
       Enter(p, Saving(o, [order[o] EXCEPT !.uncollectedNoticeCount =
                                             IF n = 0 THEN 1 ELSE n], "done"))
  /\ UNCHANGED <<rows, failures>>

(* rateOrder and recordDisposal: a late save of an otherwise unchanged row.*)
RateOrder(p, o) ==
  /\ Callable(p, "rate")
  /\ order[o].status \in {"DELIVERED", "COMPLETED"}
  /\ ~order[o].rated
  /\ Enter(p, Saving(o, [order[o] EXCEPT !.rated = TRUE], "done"))
  /\ UNCHANGED <<rows, failures>>

RecordDisposal(p, o) ==
  /\ Callable(p, "disposal")
  /\ order[o].status = "ABANDONED"
  /\ Enter(p, Saving(o, order[o], "done"))
  /\ UNCHANGED <<rows, failures>>

-----------------------------------------------------------------------------
(* completeOrder: customer, admin or the autoReleaseEscrow cron.           *)

(* Mutant of CompleteOrder: an order whose vendor was credited by an       *)
(* earlier attempt is taken for settled.                                   *)
CompleteUnpaid(p, o) ==
  /\ Callable(p, "complete") /\ Room(o)
  /\ order[o].status = "DELIVERED"
  /\ SplitKnown(order[o])
  /\ ledger[o].vendor = 0
  /\ Enter(p, Holding("complete.escrow", o, order[o]))
  /\ UNCHANGED <<rows, failures>>

CompleteOrder(p, o) ==
  /\ Callable(p, "complete") /\ Room(o)
  /\ order[o].status = "DELIVERED"
  /\ SplitKnown(order[o])
  /\ Enter(p, Holding("complete.escrow", o, order[o]))
  /\ UNCHANGED <<rows, failures>>

(* manager.save(escrow) holds the escrow row's lock until the transaction  *)
(* ends; another writer of the row waits.                                  *)
LocksEscrow == {"complete.vendor", "complete.rep", "complete.transport", "complete.tx"}
EscrowFree(o) ==
  ~ \E q \in Procs : req[q] # NoRequest /\ req[q].id = o /\ req[q].pc \in LocksEscrow

CompleteEscrow(p) ==
  /\ At(p, "complete.escrow")
  /\ EscrowFree(req[p].id)
  /\ Goto(p, "complete.vendor")
  /\ UNCHANGED <<rows, failures>>

(* Mutant of CompleteVendor: the rep's credit is skipped.                  *)
CompleteVendorOnly(p) ==
  /\ At(p, "complete.vendor")
  /\ Count(req[p].id, "vendor")
  /\ Goto(p, "complete.transport")
  /\ UNCHANGED <<order, wallet, escrow, topUps, failures>>

(* vendorsService.creditWallet and repsService.creditWallet: not through   *)
(* the manager, so committed whether or not the transaction is.            *)
CompleteVendor(p) ==
  /\ At(p, "complete.vendor")
  /\ Count(req[p].id, "vendor")
  /\ Goto(p, "complete.rep")
  /\ UNCHANGED <<order, wallet, escrow, topUps, failures>>

CompleteRep(p) ==
  /\ At(p, "complete.rep")
  /\ Count(req[p].id, "rep")
  /\ Goto(p, "complete.transport")
  /\ UNCHANGED <<order, wallet, escrow, topUps, failures>>

(* computeAndCreditRepTransport.                                           *)
CreditTransport(o) ==
  IF TransportWP[o] > 0 THEN Count(o, "transport") ELSE UNCHANGED ledger

CompleteTransport(p) ==
  /\ At(p, "complete.transport")
  /\ CreditTransport(req[p].id)
  /\ Goto(p, "complete.tx")
  /\ UNCHANGED <<order, wallet, escrow, topUps, failures>>

(* An existing escrow row takes status s.                                  *)
SetEscrow(o, s) ==
  escrow' = IF escrow[o] = "none" THEN escrow ELSE [escrow EXCEPT ![o] = s]

CompleteCommit(p) ==
  /\ At(p, "complete.tx")
  /\ LET r == req[p] IN
       /\ SetEscrow(r.id, "released")
       /\ order' = [order EXCEPT ![r.id] = [r.row EXCEPT !.status = "COMPLETED"]]
  /\ Finish(p)
  /\ UNCHANGED <<wallet, ledger, topUps, failures>>

-----------------------------------------------------------------------------
(* Uncollected garments: sweepUncollected and settleAbandonment.           *)

(* The second notice.  An order whose first notice was never stamped is    *)
(* passed over: its "last notice" defaults to the present.                 *)
SweepNotice(p, o) ==
  /\ Callable(p, "sweepUncollected")
  /\ order[o].status = "DELIVERY_FAILED"
  /\ order[o].uncollectedNoticeCount = 1
  /\ Enter(p, Saving(o, [order[o] EXCEPT !.uncollectedNoticeCount = 2], "done"))
  /\ UNCHANGED <<rows, failures>>

(* Mutant of SettleAbandonment: it waits for a third notice.               *)
SettleAfterThird(p, o) ==
  /\ Callable(p, "sweepUncollected") /\ Room(o)
  /\ order[o].status = "DELIVERY_FAILED"
  /\ order[o].uncollectedNoticeCount > 2
  /\ Enter(p, Holding("abandon.escrow", o, order[o]))
  /\ UNCHANGED <<rows, failures>>

SettleAbandonment(p, o) ==
  /\ Callable(p, "sweepUncollected") /\ Room(o)
  /\ order[o].status = "DELIVERY_FAILED"
  /\ order[o].uncollectedNoticeCount = 2
  /\ Enter(p, Holding("abandon.escrow", o, order[o]))
  /\ UNCHANGED <<rows, failures>>

AbandonEscrow(p) ==
  /\ At(p, "abandon.escrow")
  /\ EscrowFree(req[p].id)
  /\ SetEscrow(req[p].id, "released")
  /\ Goto(p, "abandon.vendor")
  /\ UNCHANGED <<order, wallet, ledger, topUps, failures>>

AbandonVendor(p) ==
  /\ At(p, "abandon.vendor")
  /\ LET r == req[p] IN
       IF r.row.vendorShareWP > 0 THEN Count(r.id, "vendor") ELSE UNCHANGED ledger
  /\ Goto(p, "abandon.rep")
  /\ UNCHANGED <<order, wallet, escrow, topUps, failures>>

(* The rep's share; then transition(ABANDONED), which loads the row again. *)
AbandonRep(p) ==
  /\ At(p, "abandon.rep")
  /\ LET r == req[p] IN
       /\ IF r.row.repShareWP > 0 THEN Count(r.id, "rep") ELSE UNCHANGED ledger
       /\ Enter(p, Reading(r.id, "ABANDONED", "abandon.transport"))
  /\ UNCHANGED <<order, wallet, escrow, topUps, failures>>

AbandonTransport(p) ==
  /\ At(p, "abandon.transport")
  /\ LET o == req[p].id IN
       /\ CreditTransport(o)
       /\ Enter(p, Saving(o, order[o], "done"))
  /\ UNCHANGED <<order, wallet, escrow, topUps, failures>>

-----------------------------------------------------------------------------
(* Cancellation and draft expiry.                                          *)

(* One round of the expireStaleDrafts loop, from the find() that loads the *)
(* drafts: its transaction writes the order row only.                      *)
ExpireStaleDraft(p, o) ==
  /\ Callable(p, "expire")
  /\ order[o].status = "PENDING_PAYMENT"
  /\ Enter(p, Saving(o, [order[o] EXCEPT !.status = "CANCELLED"], "done"))
  /\ UNCHANGED <<rows, failures>>

(* Mutants of CancelOrder: a draft is refunded too; an order is cancelled  *)
(* in any status.                                                          *)
CancelAsPaid(p, o) ==
  /\ Callable(p, "cancel") /\ Room(o)
  /\ order[o].status \in Cancellable
  /\ Enter(p, Holding("cancel.wallet", o, [order[o] EXCEPT !.status = "CANCELLED"]))
  /\ UNCHANGED <<rows, failures>>

CancelAnytime(p, o) ==
  /\ Callable(p, "cancel") /\ Room(o)
  /\ LET cancelled == [order[o] EXCEPT !.status = "CANCELLED"] IN
       IF order[o].status = "PENDING_PAYMENT"
         THEN Enter(p, Saving(o, cancelled, "done"))
         ELSE Enter(p, Holding("cancel.wallet", o, cancelled))
  /\ UNCHANGED <<rows, failures>>

(* cancelOrder: guard and wasPaid are evaluated on the copy loaded first.  *)
CancelOrder(p, o) ==
  /\ Callable(p, "cancel") /\ Room(o)
  /\ order[o].status \in Cancellable
  /\ LET cancelled == [order[o] EXCEPT !.status = "CANCELLED"] IN
       IF order[o].status = "PENDING_PAYMENT"
         THEN Enter(p, Saving(o, cancelled, "done"))
         ELSE Enter(p, Holding("cancel.wallet", o, cancelled))
  /\ UNCHANGED <<rows, failures>>

CancelWallet(p) ==
  /\ At(p, "cancel.wallet")
  /\ LET r == req[p] IN
       Enter(p, [r EXCEPT !.pc = "cancel.tx", !.bal = wallet[Owner[r.id]]])
  /\ UNCHANGED <<rows, failures>>

(* Mutant of CancelCommit: the escrow row stays held.                      *)
CancelKeepsEscrow(p) ==
  /\ At(p, "cancel.tx")
  /\ LET r == req[p] IN
       /\ wallet' = [wallet EXCEPT ![Owner[r.id]] = r.bal + TotalWP[r.id]]
       /\ Count(r.id, "refund")
       /\ order' = [order EXCEPT ![r.id] = r.row]
  /\ Finish(p)
  /\ UNCHANGED <<escrow, topUps, failures>>

CancelCommit(p) ==
  /\ At(p, "cancel.tx")
  /\ LET r == req[p]
         o == r.id IN
       /\ EscrowFree(o)
       /\ wallet' = [wallet EXCEPT ![Owner[o]] = r.bal + TotalWP[o]]
       /\ Count(o, "refund")
       /\ SetEscrow(o, "refunded")
       /\ order' = [order EXCEPT ![o] = r.row]
  /\ Finish(p)
  /\ UNCHANGED <<topUps, failures>>

-----------------------------------------------------------------------------
(* A call or a cron tick on order o.                                       *)
Start(p, o) ==
  \/ ConfirmPayment(p, o) \/ SweepPaid(p, o) \/ RepAccepts(p, o)
  \/ AdminAssignRep(p, o) \/ VendorAccepts(p, o) \/ AdminAssignVendor(p, o)
  \/ \E to \in RepTargets \cup VendorTargets : Transition(p, o, to)
  \/ \E v \in VendorShares : LogGarmentCount(p, o, v)
  \/ MarkWithVendor(p, o) \/ RecordFailedDelivery(p, o)
  \/ RateOrder(p, o) \/ RecordDisposal(p, o) \/ CompleteOrder(p, o)
  \/ SweepNotice(p, o) \/ SettleAbandonment(p, o)
  \/ ExpireStaleDraft(p, o) \/ CancelOrder(p, o)

(* The next step of an in-flight request.                                  *)
Step(p) ==
  \/ Save(p) \/ TransitionRead(p) \/ ConfirmWallet(p) \/ ConfirmCommit(p)
  \/ ConfirmRollback(p) \/ StartRepAssignment(p) \/ StartVendorAssignment(p)
  \/ StampNotice(p) \/ CompleteEscrow(p) \/ CompleteVendor(p) \/ CompleteRep(p)
  \/ CompleteTransport(p) \/ CompleteCommit(p) \/ AbandonEscrow(p)
  \/ AbandonVendor(p) \/ AbandonRep(p) \/ AbandonTransport(p)
  \/ CancelWallet(p) \/ CancelCommit(p)

Next ==
  \E p \in Procs :
    \/ \E c \in Customers : TopUp(p, c)
    \/ \E o \in Orders : Start(p, o)
    \/ Step(p)
    \/ Fail(p)

Spec == Init /\ [][Next]_vars

(* A suspended handler is resumed, and the crons of tasks.service.ts run   *)
(* for ever.  Strong fairness, because a cron never lacks a slot: the      *)
(* slots bound the model, not the program.                                 *)
FairSpec ==
  /\ Spec
  /\ \A p \in Procs : WF_vars(Step(p))
  /\ \A o \in Orders :
       /\ SF_vars(\E p \in Procs : SweepPaid(p, o))
       /\ SF_vars(\E p \in Procs : CompleteOrder(p, o))
       /\ SF_vars(\E p \in Procs : SweepNotice(p, o))
       /\ SF_vars(\E p \in Procs : SettleAbandonment(p, o))
       /\ SF_vars(\E p \in Procs : ExpireStaleDraft(p, o))

-----------------------------------------------------------------------------
(* Properties.                                                             *)

(* Rows, ledger and in-flight requests stay within their types.            *)
TypeOK ==
  /\ order \in [Orders -> Row]
  /\ wallet \in [Customers -> Int]
  /\ escrow \in [Orders -> {"none", "held", "released", "refunded"}]
  /\ ledger \in [Orders -> Ledger]
  /\ topUps \in [Customers -> Nat]
  /\ req \in [Procs -> Request \cup {NoRequest}]
  /\ failures \in Nat

(* A status that only a paid order may reach.                              *)
Funded(s) == s \notin {"PENDING_PAYMENT", "CANCELLED"}

(* No order is assigned, picked up, washed or settled before its escrow    *)
(* row exists, however the handlers interleave, overwrite each other's     *)
(* copies or die: confirmPayment is the only way out of PENDING_PAYMENT.   *)
FundedHasEscrow == \A o \in Orders : Funded(order[o].status) => escrow[o] # "none"

(* Steps that move the money of an order or act on its assignment.         *)
Spending == { "startVendor", "cancel.wallet", "cancel.tx", "complete.escrow",
              "complete.vendor", "complete.rep", "complete.transport",
              "complete.tx", "abandon.escrow", "abandon.vendor", "abandon.rep",
              "abandon.transport" }

(* No handler in flight holds a paid copy of an unpaid order, or is on its *)
(* way to spend money nobody paid: what makes FundedHasEscrow survive the  *)
(* handler's late save, whatever happened to the row in between.           *)
Backed(r) ==
  /\ r.to # "PAID"
  /\ (\/ Funded(r.row.status)
      \/ r.pc \in Spending
      \/ r.then \in {"startVendor", "abandon.transport"}) => escrow[r.id] # "none"
BackedRequests == \A p \in Procs : req[p] # NoRequest => Backed(req[p])

(* confirmPayment charges an order at most once, and an escrow row exists  *)
(* exactly for a charged order, though two confirmations of the same draft *)
(* both pass the status and balance checks.                                *)
ChargedOnce ==
  \A o \in Orders : ledger[o].debit = IF escrow[o] = "none" THEN 0 ELSE 1

(* Nothing is refunded or earned on an order nobody was charged for.       *)
MoneyOutNeedsMoneyIn ==
  \A o \in Orders :
    (\E s \in {"refund", "vendor", "rep", "transport"} : ledger[o][s] > 0)
      => ledger[o].debit > 0

(* An order is marked COMPLETED only after the vendor and the rep were     *)
(* credited, and neither COMPLETED nor ABANDONED leaves money in escrow:   *)
(* completeOrder and settleAbandonment pay first and mark last.            *)
SettledIsPaid ==
  \A o \in Orders :
    /\ order[o].status \in {"COMPLETED", "ABANDONED"} => escrow[o] \notin {"none", "held"}
    /\ order[o].status = "COMPLETED" =>
         /\ ledger[o].vendor > 0 /\ ledger[o].rep > 0
         /\ TransportWP[o] > 0 => ledger[o].transport > 0

(* A wallet never goes below zero, although confirmPayment checks the      *)
(* balance on a copy and writes that copy back later.                      *)
BalanceNonNegative == \A c \in Customers : wallet[c] >= 0

(* Once taken out of escrow, money is never held again, and an escrow row  *)
(* never disappears.                                                       *)
EscrowNeverReheld ==
  [][\A o \in Orders : escrow[o] # "none" => escrow'[o] \in {escrow[o], "released", "refunded"}]_vars

-----------------------------------------------------------------------------
(* What holds when requests on an order never overlap.                     *)

Idle == \A p \in Procs : req[p] = NoRequest

(* Where the price of an order is: in the wallet, in escrow, paid out or   *)
(* back in the wallet.                                                     *)
NotCharged(e, l) == e = "none" /\ l.debit = 0 /\ l.refund = 0
Held(e, l)       == e = "held" /\ l.debit = 1 /\ l.refund = 0
Released(e, l)   == e = "released" /\ l.debit = 1 /\ l.refund = 0
Refunded(e, l)   == e = "refunded" /\ l.debit = 1 /\ l.refund = 1

(* The vendor was credited v times, the rep r times and the transport t    *)
(* times, those of them that have a share in the order.                    *)
Due(share, n) == IF share > 0 THEN n ELSE 0
Earned(o, row, l, v, r, t) ==
  /\ l.vendor    = Due(row.vendorShareWP, v)
  /\ l.rep       = Due(row.repShareWP, r)
  /\ l.transport = Due(TransportWP[o], t)

Accounts(o, row, e, l) ==
  CASE row.status = "PENDING_PAYMENT" -> NotCharged(e, l) /\ Earned(o, row, l, 0, 0, 0)
    [] row.status = "CANCELLED" ->
         (NotCharged(e, l) \/ Refunded(e, l)) /\ Earned(o, row, l, 0, 0, 0)
    [] row.status \in {"COMPLETED", "ABANDONED"} ->
         Released(e, l) /\ Earned(o, row, l, 1, 1, 1)
    [] OTHER -> Held(e, l) /\ Earned(o, row, l, 0, 0, 0)

(* Between requests, the status of an order says where its money is: a     *)
(* draft was never charged, a cancelled order was charged and refunded or  *)
(* neither, a settled order released its escrow and paid each of its       *)
(* payees once, and any other order holds its escrow and paid nobody.      *)
Reconciled ==
  Idle => \A o \in Orders : Accounts(o, order[o], escrow[o], ledger[o])

(* The moves the assignment service makes without transition().            *)
AssignmentMove(s, t) ==
  \/ s \in {"PAID", "BROADCASTING_REP", "REP_ASSIGNED"} /\ t = "REP_ASSIGNED"
  \/ s \in {"REP_ASSIGNED", "BROADCASTING_VENDOR", "VENDOR_ASSIGNED"} /\ t = "VENDOR_ASSIGNED"

(* The status of an order changes only along ALLOWED_TRANSITIONS or by an  *)
(* assignment, so COMPLETED, ABANDONED and CANCELLED are final.            *)
StatusMachine ==
  [][\A o \in Orders :
       LET s == order[o].status
           t == order'[o].status IN
         s # t => t \in Allowed(s) \/ AssignmentMove(s, t)]_vars

(* The wallet and the escrow rows implement the contract: every charge,    *)
(* release and refund moves the whole price exactly once.                  *)
Contract == INSTANCE EscrowContract WITH balance <- wallet, funds <- escrow
ImplementsContract == Contract!Spec

-----------------------------------------------------------------------------
(* Progress under FairSpec.                                                *)

(* sweepStalePaidOrders picks up an order whose startRepAssignment died    *)
(* with the request that paid for it; autoReleaseEscrow settles a          *)
(* delivered order whose customer never confirms, and takes it up again    *)
(* after a failed attempt.                                                 *)
NoOrderIsStranded ==
  \A o \in Orders :
    /\ order[o].status = "PAID" ~> order[o].status # "PAID"
    /\ order[o].status = "DELIVERED" ~> escrow[o] \in {"released", "refunded"}

(* An order whose garments nobody collects is delivered after all or       *)
(* settled as abandoned, once its first notice was stamped.                *)
UncollectedIsSettled ==
  \A o \in Orders :
    (order[o].status = "DELIVERY_FAILED" /\ order[o].uncollectedNoticeCount > 0)
      ~> order[o].status # "DELIVERY_FAILED"

-----------------------------------------------------------------------------
(* What the repository says of the code, and what the code does.           *)

(* docs/architecture.md: a wallet's balance is derived from its ledger.    *)
(* A lost update makes the stored balance differ: confirmPayment and       *)
(* cancelOrder write back a balance read before the transaction.           *)
LedgerBalance(c) ==
  LET net[S \in SUBSET Orders] ==
        IF S = {} THEN 0
        ELSE LET o == CHOOSE x \in S : TRUE IN
               TotalWP[o] * (ledger[o].refund - ledger[o].debit) + net[S \ {o}]
  IN  InitialBalance[c] + TopUpWP * topUps[c] + net[{o \in Orders : Owner[o] = c}]
BalanceIsLedger == \A c \in Customers : wallet[c] = LedgerBalance(c)

(* settleAbandonment: "Idempotent: only acts on a DELIVERY_FAILED order".  *)
VendorPaidOnce == \A o \in Orders : ledger[o].vendor <= 1
=============================================================================
