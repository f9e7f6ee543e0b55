------------------------ MODULE OrderSettlementProofs ------------------------
(***************************************************************************)
(* Proofs about OrderSettlement, for any number of orders, customers and   *)
(* requests in flight, any prices and shares, and failures at every await. *)
(* They use neither the bounds nor Ops.  The requests are typed first;     *)
(* then escrow moves one way, wallets stay non-negative, and orders are    *)
(* paid before they are marked settled.  The last part is about requests   *)
(* that keep apart: on an order, its status accounts for its money and     *)
(* follows the table; for a customer, the wallet keeps the contract.       *)
(***************************************************************************)
EXTENDS OrderSettlement, TLAPS

-----------------------------------------------------------------------------
(* The records the actions build.                                          *)

LEMMA DraftType == Draft \in Row
  BY DEF Draft, Row, Status

LEMMA FreshFields ==
  ASSUME NEW pc \in Pc, NEW o \in Orders
  PROVE  LET r == Fresh(pc, o) IN
         /\ r \in Request
         /\ r.pc = pc /\ r.id = o /\ r.row = Draft /\ r.bal = 0
         /\ r.to = "PENDING_PAYMENT" /\ r.then = "done"
  BY DraftType DEF Fresh, Request, Status, Then

LEMMA HoldingFields ==
  ASSUME NEW pc \in Pc, NEW o \in Orders, NEW row \in Row
  PROVE  LET r == Holding(pc, o, row) IN
         /\ r \in Request
         /\ r.pc = pc /\ r.id = o /\ r.row = row /\ r.bal = 0
         /\ r.to = "PENDING_PAYMENT" /\ r.then = "done"
  BY FreshFields DEF Holding, Request

LEMMA SavingFields ==
  ASSUME NEW o \in Orders, NEW row \in Row, NEW then \in Then
  PROVE  LET r == Saving(o, row, then) IN
         /\ r \in Request
         /\ r.pc = "save" /\ r.id = o /\ r.row = row /\ r.bal = 0
         /\ r.to = "PENDING_PAYMENT" /\ r.then = then
  <1>1. "save" \in Pc
    BY DEF Pc
  <1> QED
    BY <1>1, HoldingFields DEF Saving, Request

LEMMA ReadingFields ==
  ASSUME NEW o \in Orders, NEW to \in Status, NEW then \in Then
  PROVE  LET r == Reading(o, to, then) IN
         /\ r \in Request
         /\ r.pc = "read" /\ r.id = o /\ r.row = Draft /\ r.bal = 0
         /\ r.to = to /\ r.then = then
  <1>1. "read" \in Pc
    BY DEF Pc
  <1> QED
    BY <1>1, DraftType DEF Reading, Request

LEMMA RowWithStatus ==
  ASSUME NEW row \in Row, NEW s \in Status
  PROVE  /\ [row EXCEPT !.status = s] \in Row
         /\ [row EXCEPT !.status = s].status = s
  BY DEF Row

LEMMA AllowedTargets ==
  ASSUME NEW s, NEW t \in Allowed(s)
  PROVE  t \in Status /\ (t # "PAID" /\ Funded(t) => Funded(s))
  BY DEF Allowed, Status, Funded

-----------------------------------------------------------------------------
(* The inductive invariant: a funded order has an escrow row, and so does  *)
(* the order of every request that could make it funded, or spend on it,   *)
(* with what the request loaded earlier.                                   *)

IInv == /\ TypeOK
        /\ FundedHasEscrow
        /\ BackedRequests
        /\ ChargedOnce
        /\ MoneyOutNeedsMoneyIn

Sources == {"refund", "vendor", "rep", "transport"}

LEMMA FreshBacked ==
  ASSUME NEW pc \in Pc, NEW o \in Orders, pc \in Spending => escrow[o] # "none"
  PROVE  Fresh(pc, o) \in Request /\ Backed(Fresh(pc, o))
  BY FreshFields DEF Backed, Funded, Draft

LEMMA HoldingBacked ==
  ASSUME NEW pc \in Pc, NEW o \in Orders, NEW row \in Row,
         (Funded(row.status) \/ pc \in Spending) => escrow[o] # "none"
  PROVE  Holding(pc, o, row) \in Request /\ Backed(Holding(pc, o, row))
  BY HoldingFields DEF Backed

LEMMA SavingBacked ==
  ASSUME NEW o \in Orders, NEW row \in Row, NEW then \in Then,
         (Funded(row.status) \/ then \in {"startVendor", "abandon.transport"})
           => escrow[o] # "none"
  PROVE  Saving(o, row, then) \in Request /\ Backed(Saving(o, row, then))
  BY SavingFields DEF Backed, Spending

LEMMA ReadingBacked ==
  ASSUME NEW o \in Orders, NEW to \in Status, NEW then \in Then, to # "PAID",
         then \in {"startVendor", "abandon.transport"} => escrow[o] # "none"
  PROVE  Reading(o, to, then) \in Request /\ Backed(Reading(o, to, then))
  BY ReadingFields DEF Backed, Spending, Funded, Draft

(* What any step must show for IInv to survive it: p goes on with the      *)
(* backed request x or ends, no escrow row appears or disappears, no debit *)
(* is written, and every funded or earning order has its escrow row.       *)
LEMMA StepKeepsIInv ==
  ASSUME IInv, NEW p \in Procs, NEW x,
         x = NoRequest \/ (x \in Request /\ Backed(x)),
         req' = [req EXCEPT ![p] = x],
         order' \in [Orders -> Row],
         wallet' \in [Customers -> Int],
         escrow' \in [Orders -> {"none", "held", "released", "refunded"}],
         ledger' \in [Orders -> Ledger],
         topUps' \in [Customers -> Nat],
         failures' \in Nat,
         \A o \in Orders :
           /\ escrow'[o] = "none" <=> escrow[o] = "none"
           /\ Funded(order'[o].status) => escrow[o] # "none"
           /\ ledger'[o].debit = ledger[o].debit
           /\ \A s \in Sources : ledger'[o][s] > 0 => escrow[o] # "none"
  PROVE  IInv'
  <1>1. TypeOK'
    BY DEF IInv, TypeOK
  <1>2. FundedHasEscrow'
    BY DEF FundedHasEscrow
  <1>3. BackedRequests'
    <2> SUFFICES ASSUME NEW q \in Procs, req'[q] # NoRequest
                 PROVE  Backed(req[q])'
      BY DEF BackedRequests
    <2>1. req'[q] = x \/ req'[q] = req[q]
      BY DEF IInv, TypeOK
    <2>2. req'[q] \in Request /\ Backed(req'[q])
      BY <2>1 DEF IInv, TypeOK, BackedRequests
    <2> QED
      BY <2>2 DEF Backed, Request
  <1>4. ChargedOnce'
    BY DEF IInv, ChargedOnce
  <1>5. MoneyOutNeedsMoneyIn'
    BY DEF IInv, ChargedOnce, MoneyOutNeedsMoneyIn, Sources
  <1> QED
    BY <1>1, <1>2, <1>3, <1>4, <1>5 DEF IInv

(* A step that only moves p on.                                            *)
LEMMA EnterKeepsIInv ==
  ASSUME IInv, NEW p \in Procs, NEW x,
         x = NoRequest \/ (x \in Request /\ Backed(x)),
         Enter(p, x), UNCHANGED rows, failures' \in Nat
  PROVE  IInv'
  <1>1. \A o \in Orders : \A s \in Sources : ledger[o][s] > 0 => escrow[o] # "none"
    BY DEF IInv, TypeOK, ChargedOnce, MoneyOutNeedsMoneyIn, Ledger, Sources
  <1> QED
    BY <1>1, StepKeepsIInv DEF IInv, TypeOK, FundedHasEscrow, Enter, rows

LEMMA FinishKeepsIInv ==
  ASSUME IInv, NEW p \in Procs, Finish(p), UNCHANGED rows, failures' \in Nat
  PROVE  IInv'
  BY EnterKeepsIInv DEF Finish

LEMMA FreshKeepsIInv ==
  ASSUME IInv, NEW p \in Procs, NEW pc \in Pc, NEW o \in Orders,
         pc \in Spending => escrow[o] # "none",
         Enter(p, Fresh(pc, o)), UNCHANGED <<rows, failures>>
  PROVE  IInv'
  BY FreshBacked, EnterKeepsIInv DEF IInv, TypeOK

LEMMA HoldingKeepsIInv ==
  ASSUME IInv, NEW p \in Procs, NEW pc \in Pc, NEW o \in Orders, NEW row \in Row,
         (Funded(row.status) \/ pc \in Spending) => escrow[o] # "none",
         Enter(p, Holding(pc, o, row)), UNCHANGED <<rows, failures>>
  PROVE  IInv'
  BY HoldingBacked, EnterKeepsIInv DEF IInv, TypeOK

LEMMA SavingKeepsIInv ==
  ASSUME IInv, NEW p \in Procs, NEW o \in Orders, NEW row \in Row, NEW then \in Then,
         (Funded(row.status) \/ then \in {"startVendor", "abandon.transport"})
           => escrow[o] # "none",
         Enter(p, Saving(o, row, then)), UNCHANGED <<rows, failures>>
  PROVE  IInv'
  BY SavingBacked, EnterKeepsIInv DEF IInv, TypeOK

LEMMA ReadingKeepsIInv ==
  ASSUME IInv, NEW p \in Procs, NEW o \in Orders, NEW to \in Status, NEW then \in Then,
         to # "PAID",
         then \in {"startVendor", "abandon.transport"} => escrow[o] # "none",
         Enter(p, Reading(o, to, then)), UNCHANGED <<rows, failures>>
  PROVE  IInv'
  BY ReadingBacked, EnterKeepsIInv DEF IInv, TypeOK

-----------------------------------------------------------------------------
(* Facts about a request in flight.                                        *)

LEMMA InFlight ==
  ASSUME IInv, NEW p \in Procs, NEW pc, At(p, pc)
  PROVE  /\ req[p] \in Request /\ req[p].pc = pc /\ Backed(req[p])
         /\ req[p].id \in Orders /\ req[p].row \in Row /\ req[p].bal \in Int
         /\ req[p].to \in Status /\ req[p].then \in Then
         /\ order[req[p].id] \in Row
         /\ Funded(order[req[p].id].status) => escrow[req[p].id] # "none"
  <1>1. req[p] \in Request /\ req[p].pc = pc /\ Backed(req[p])
    BY DEF At, IInv, TypeOK, BackedRequests
  <1> QED
    BY <1>1 DEF Request, IInv, TypeOK, FundedHasEscrow

LEMMA Loaded ==
  ASSUME IInv, NEW o \in Orders
  PROVE  /\ order[o] \in Row
         /\ Funded(order[o].status) => escrow[o] # "none"
  BY DEF IInv, TypeOK, FundedHasEscrow

(* A request that moves on with the same row, target and continuation.     *)
LEMMA GotoFields ==
  ASSUME NEW r \in Request, NEW pc \in Pc
  PROVE  LET x == [r EXCEPT !.pc = pc] IN
         /\ x \in Request
         /\ Backed(r) /\ (pc \in Spending => escrow[r.id] # "none") => Backed(x)
  BY DEF Request, Backed

-----------------------------------------------------------------------------
(* One lemma per handler: its calls.                                       *)

LEMMA TopUpKeepsIInv ==
  ASSUME IInv, NEW p \in Procs, NEW c \in Customers, TopUp(p, c)
  PROVE  IInv'
  <1>1. TypeOK'
    BY ConstantsOK DEF IInv, TypeOK, TopUp
  <1> QED
    BY <1>1 DEF IInv, TopUp, FundedHasEscrow, BackedRequests, Backed, ChargedOnce,
                MoneyOutNeedsMoneyIn

LEMMA ConfirmPaymentKeepsIInv ==
  ASSUME IInv, NEW p \in Procs, NEW o \in Orders, ConfirmPayment(p, o)
  PROVE  IInv'
  <1>1. "confirm.wallet" \in Pc \ Spending
    BY DEF Pc, Spending
  <1> QED
    BY <1>1, Loaded, HoldingKeepsIInv DEF ConfirmPayment

LEMMA AssignKeepsIInv ==
  ASSUME IInv, NEW p \in Procs, NEW o \in Orders, NEW op, NEW from, NEW to \in Status,
         NEW then \in Then, Assign(p, o, op, from, to, then),
         \A s \in from : Funded(s)
  PROVE  IInv'
  <1>1. [order[o] EXCEPT !.status = to] \in Row /\ escrow[o] # "none"
    BY Loaded, RowWithStatus DEF Assign
  <1> QED
    BY <1>1, SavingKeepsIInv DEF Assign

LEMMA AssignmentKeepsIInv ==
  ASSUME IInv, NEW p \in Procs, NEW o \in Orders,
         \/ RepAccepts(p, o) \/ AdminAssignRep(p, o)
         \/ VendorAccepts(p, o) \/ AdminAssignVendor(p, o)
  PROVE  IInv'
  <1>1. /\ {"REP_ASSIGNED", "VENDOR_ASSIGNED"} \subseteq Status
        /\ {"done", "startVendor", "schedule"} \subseteq Then
    BY DEF Status, Then
  <1>2. CASE RepAccepts(p, o)
    BY <1>1, <1>2, AssignKeepsIInv DEF RepAccepts, Funded
  <1>3. CASE AdminAssignRep(p, o)
    BY <1>1, <1>3, AssignKeepsIInv DEF AdminAssignRep, Funded
  <1>4. CASE VendorAccepts(p, o)
    BY <1>1, <1>4, AssignKeepsIInv DEF VendorAccepts, Funded
  <1>5. CASE AdminAssignVendor(p, o)
    BY <1>1, <1>5, AssignKeepsIInv DEF AdminAssignVendor, Funded
  <1> QED
    BY <1>2, <1>3, <1>4, <1>5

LEMMA TransitionCallsKeepIInv ==
  ASSUME IInv, NEW p \in Procs, NEW o \in Orders,
         \/ \E to \in RepTargets \cup VendorTargets : Transition(p, o, to)
         \/ MarkWithVendor(p, o) \/ RecordFailedDelivery(p, o)
  PROVE  IInv'
  <1>1. {"WITH_VENDOR", "DELIVERY_FAILED"} \cup RepTargets \cup VendorTargets \subseteq Status \ {"PAID"}
    BY DEF Status, RepTargets, VendorTargets
  <1>2. {"done", "stamp"} \subseteq Then \ {"startVendor", "abandon.transport"}
    BY DEF Then
  <1>3. CASE \E to \in RepTargets \cup VendorTargets : Transition(p, o, to)
    <2>1. PICK to \in RepTargets \cup VendorTargets : Transition(p, o, to)
      BY <1>3
    <2> DEFINE row == [order[o] EXCEPT !.status = to]
               x == [Saving(o, row, "done") EXCEPT !.to = to]
    <2>2. row \in Row /\ row.status = to /\ to \in Status /\ to # "PAID"
      BY <1>1, <2>1, Loaded, RowWithStatus
    <2>3. Funded(to) => escrow[o] # "none"
      BY <1>1, <2>1, <2>2, Loaded, AllowedTargets DEF Transition
    <2>4. x \in Request /\ Backed(x)
      <3> HIDE DEF row
      <3> QED
        BY <1>2, <2>2, <2>3, SavingFields DEF Request, Backed, Spending
    <2> QED
      BY <2>1, <2>4, EnterKeepsIInv DEF Transition, IInv, TypeOK
  <1>4. CASE MarkWithVendor(p, o)
    BY <1>1, <1>2, <1>4, ReadingKeepsIInv DEF MarkWithVendor
  <1>5. CASE RecordFailedDelivery(p, o)
    BY <1>1, <1>2, <1>5, ReadingKeepsIInv DEF RecordFailedDelivery
  <1> QED
    BY <1>3, <1>4, <1>5

(* A handler that saves, later and unguarded, a changed copy of the row.   *)
LEMMA SavingCallsKeepIInv ==
  ASSUME IInv, NEW p \in Procs, NEW o \in Orders,
         \/ \E v \in VendorShares : LogGarmentCount(p, o, v)
         \/ RateOrder(p, o) \/ RecordDisposal(p, o) \/ SweepNotice(p, o)
         \/ ExpireStaleDraft(p, o)
  PROVE  IInv'
  <1>1. "done" \in Then \ {"startVendor", "abandon.transport"}
    BY DEF Then
  <1>2. order[o] \in Row /\ (Funded(order[o].status) => escrow[o] # "none")
    BY Loaded
  <1>3. CASE \E v \in VendorShares : LogGarmentCount(p, o, v)
    <2>1. PICK v \in VendorShares : LogGarmentCount(p, o, v)
      BY <1>3
    <2> DEFINE row == [order[o] EXCEPT !.vendorShareWP = v, !.repShareWP = RepShareWP[o]]
    <2>2. row \in Row /\ row.status = order[o].status
      BY <1>2, ConstantsOK DEF Row
    <2> HIDE DEF row
    <2> QED
      BY <1>1, <1>2, <2>1, <2>2, SavingKeepsIInv DEF LogGarmentCount, row
  <1>4. CASE RateOrder(p, o)
    <2> DEFINE row == [order[o] EXCEPT !.rated = TRUE]
    <2>1. row \in Row /\ row.status = order[o].status
      BY <1>2 DEF Row
    <2> QED
      BY <1>1, <1>2, <1>4, <2>1, SavingKeepsIInv DEF RateOrder
  <1>5. CASE RecordDisposal(p, o)
    BY <1>1, <1>2, <1>5, SavingKeepsIInv DEF RecordDisposal
  <1>6. CASE SweepNotice(p, o)
    <2> DEFINE row == [order[o] EXCEPT !.uncollectedNoticeCount = 2]
    <2>1. row \in Row /\ row.status = order[o].status
      BY <1>2 DEF Row
    <2> QED
      BY <1>1, <1>2, <1>6, <2>1, SavingKeepsIInv DEF SweepNotice
  <1>7. CASE ExpireStaleDraft(p, o)
    <2>1. "CANCELLED" \in Status /\ ~Funded("CANCELLED")
      BY DEF Status, Funded
    <2> QED
      BY <1>1, <1>2, <1>7, <2>1, RowWithStatus, SavingKeepsIInv DEF ExpireStaleDraft
  <1> QED
    BY <1>3, <1>4, <1>5, <1>6, <1>7

LEMMA SettlementCallsKeepIInv ==
  ASSUME IInv, NEW p \in Procs, NEW o \in Orders,
         \/ SweepPaid(p, o) \/ CompleteOrder(p, o)
         \/ SettleAbandonment(p, o) \/ CancelOrder(p, o)
  PROVE  IInv'
  <1>1. order[o] \in Row /\ (Funded(order[o].status) => escrow[o] # "none")
    BY Loaded
  <1>2. CASE SweepPaid(p, o)
    BY <1>2, FreshKeepsIInv DEF SweepPaid, Pc, Spending
  <1>3. CASE CompleteOrder(p, o)
    BY <1>1, <1>3, HoldingKeepsIInv DEF CompleteOrder, Pc, Funded
  <1>4. CASE SettleAbandonment(p, o)
    BY <1>1, <1>4, HoldingKeepsIInv DEF SettleAbandonment, Pc, Funded
  <1>5. CASE CancelOrder(p, o)
    <2> DEFINE row == [order[o] EXCEPT !.status = "CANCELLED"]
    <2>1. row \in Row /\ row.status = "CANCELLED" /\ ~Funded(row.status)
      BY <1>1, RowWithStatus DEF Status, Funded
    <2>2. order[o].status = "PENDING_PAYMENT" \/ Funded(order[o].status)
      BY <1>5 DEF CancelOrder, Cancellable, Allowed, Funded
    <2>3. "cancel.wallet" \in Pc /\ "done" \in Then
      BY DEF Pc, Then
    <2> HIDE DEF row
    <2> QED
      BY <1>1, <1>5, <2>1, <2>2, <2>3, SavingKeepsIInv, HoldingKeepsIInv
         DEF CancelOrder, row
  <1> QED
    BY <1>2, <1>3, <1>4, <1>5

LEMMA StartKeepsIInv ==
  ASSUME IInv, NEW p \in Procs, NEW o \in Orders, Start(p, o)
  PROVE  IInv'
  BY ConfirmPaymentKeepsIInv, AssignmentKeepsIInv, TransitionCallsKeepIInv,
     SavingCallsKeepIInv, SettlementCallsKeepIInv DEF Start

-----------------------------------------------------------------------------
(* One lemma per handler: the steps of a request in flight.                *)

LEMMA SaveKeepsIInv ==
  ASSUME IInv, NEW p \in Procs, Save(p)
  PROVE  IInv'
  <1> DEFINE r == req[p]
  <1>1. /\ r \in Request /\ Backed(r) /\ r.pc = "save" /\ r.id \in Orders
        /\ r.row \in Row /\ r.then \in Then
    BY InFlight DEF Save
  <1>2. PICK x : /\ req' = [req EXCEPT ![p] = x]
                 /\ x = NoRequest \/ (x \in Request /\ Backed(x))
    <2>1. CASE r.then = "done"
      BY <1>1, <2>1 DEF Save, Continue, Finish, Enter
    <2>2. CASE r.then = "schedule"
      BY <1>1, <2>2, ReadingBacked DEF Save, Continue, Enter, Status, Then
    <2>3. CASE r.then \in {"startVendor", "stamp", "abandon.transport"}
      <3>1. r.then \in Pc /\ (r.then \in Spending => escrow[r.id] # "none")
        BY <1>1, <2>3 DEF Pc, Spending, Backed
      <3> QED
        BY <1>1, <2>3, <3>1, FreshBacked DEF Save, Continue, Enter
    <2> QED
      BY <1>1, <2>1, <2>2, <2>3 DEF Then
  <1>3. /\ order' \in [Orders -> Row]
        /\ \A o \in Orders : Funded(order'[o].status) => escrow[o] # "none"
    BY <1>1 DEF IInv, TypeOK, FundedHasEscrow, Save, Backed
  <1>4. \A o \in Orders : \A s \in Sources : ledger[o][s] > 0 => escrow[o] # "none"
    BY DEF IInv, TypeOK, ChargedOnce, MoneyOutNeedsMoneyIn, Ledger, Sources
  <1> HIDE DEF r
  <1> QED
    BY <1>2, <1>3, <1>4, StepKeepsIInv DEF IInv, TypeOK, Save

LEMMA TransitionReadKeepsIInv ==
  ASSUME IInv, NEW p \in Procs, TransitionRead(p)
  PROVE  IInv'
  <1> DEFINE r   == req[p]
             row == [order[r.id] EXCEPT !.status = r.to]
             x   == [r EXCEPT !.pc = "save", !.row = row]
  <1>1. /\ r \in Request /\ Backed(r) /\ r.id \in Orders /\ r.to \in Status
        /\ order[r.id] \in Row
        /\ Funded(order[r.id].status) => escrow[r.id] # "none"
    BY InFlight DEF TransitionRead
  <1>2. CASE r.to \in Allowed(order[r.id].status) \cup {order[r.id].status}
    <2>1. row \in Row /\ row.status = r.to
      BY <1>1, RowWithStatus
    <2>2. Funded(r.to) => escrow[r.id] # "none"
      BY <1>1, <1>2, AllowedTargets DEF Backed
    <2>3. x \in Request /\ Backed(x)
      <3> HIDE DEF row
      <3> QED
        BY <1>1, <2>1, <2>2 DEF Request, Backed, Pc, Spending
    <2> QED
      BY <1>2, <2>3, EnterKeepsIInv DEF TransitionRead, IInv, TypeOK
  <1>3. CASE ~(r.to \in Allowed(order[r.id].status) \cup {order[r.id].status})
    BY <1>3, FinishKeepsIInv DEF TransitionRead, IInv, TypeOK
  <1> QED
    BY <1>2, <1>3

LEMMA FailKeepsIInv ==
  ASSUME IInv, NEW p \in Procs, Fail(p)
  PROVE  IInv'
  BY FinishKeepsIInv DEF Fail, IInv, TypeOK

LEMMA ConfirmWalletKeepsIInv ==
  ASSUME IInv, NEW p \in Procs, ConfirmWallet(p)
  PROVE  IInv'
  <1> DEFINE r == req[p]
             b == wallet[Owner[r.id]]
             x == [r EXCEPT !.pc = "confirm.tx", !.bal = b]
  <1>1. r \in Request /\ Backed(r) /\ r.id \in Orders
    BY InFlight DEF ConfirmWallet
  <1>2. b \in Int
    BY <1>1, ConstantsOK DEF IInv, TypeOK
  <1>3. x \in Request /\ Backed(x)
    <2> HIDE DEF b
    <2> QED
      BY <1>1, <1>2 DEF Request, Backed, Pc, Spending
  <1>4. CASE b >= TotalWP[r.id]
    BY <1>3, <1>4, EnterKeepsIInv DEF ConfirmWallet, IInv, TypeOK
  <1>5. CASE ~(b >= TotalWP[r.id])
    BY <1>5, FinishKeepsIInv DEF ConfirmWallet, IInv, TypeOK
  <1> QED
    BY <1>4, <1>5

(* The only step that adds an escrow row: it adds the debit with it.       *)
LEMMA ConfirmCommitKeepsIInv ==
  ASSUME IInv, NEW p \in Procs, ConfirmCommit(p)
  PROVE  IInv'
  <1> DEFINE r   == req[p]
             o   == r.id
             row == [r.row EXCEPT !.status = "PAID"]
  <1>1. r \in Request /\ o \in Orders /\ r.row \in Row /\ r.bal \in Int
    BY InFlight DEF ConfirmCommit
  <1>2. row \in Row
    BY <1>1, RowWithStatus DEF Status
  <1>3. Fresh("assign", o) \in Request /\ Backed(Fresh("assign", o))
    BY <1>1, FreshBacked DEF Pc, Spending
  <1>4. /\ escrow[o] = "none"
        /\ escrow' = [escrow EXCEPT ![o] = "held"]
        /\ order' = [order EXCEPT ![o] = row]
        /\ wallet' = [wallet EXCEPT ![Owner[o]] = r.bal - TotalWP[o]]
        /\ ledger' = [ledger EXCEPT ![o]["debit"] = @ + 1]
        /\ req' = [req EXCEPT ![p] = Fresh("assign", o)]
        /\ UNCHANGED <<topUps, failures>>
    BY DEF ConfirmCommit, Count, Enter
  <1>5. /\ ledger' \in [Orders -> Ledger]
        /\ \A q \in Orders :
             /\ ledger'[q].debit = IF q = o THEN 1 ELSE ledger[q].debit
             /\ \A s \in Sources : ledger'[q][s] = ledger[q][s]
    BY <1>1, <1>4 DEF IInv, TypeOK, ChargedOnce, Ledger, Sources
  <1>6. TypeOK'
    <2>1. r.bal - TotalWP[o] \in Int
      BY <1>1, ConstantsOK
    <2> HIDE DEF r, o, row
    <2> QED
      BY <1>1, <1>2, <1>3, <1>4, <1>5, <2>1 DEF IInv, TypeOK
  <1> HIDE DEF r, o, row
  <1>7. FundedHasEscrow'
    BY <1>1, <1>4 DEF IInv, TypeOK, FundedHasEscrow
  <1>8. BackedRequests'
    <2> SUFFICES ASSUME NEW q \in Procs, req'[q] # NoRequest
                 PROVE  Backed(req[q])'
      BY DEF BackedRequests
    <2>1. req'[q] \in Request /\ Backed(req'[q])
      BY <1>3, <1>4 DEF IInv, TypeOK, BackedRequests
    <2> QED
      BY <1>4, <2>1 DEF Backed, Request, IInv, TypeOK
  <1>9. ChargedOnce'
    BY <1>1, <1>4, <1>5 DEF IInv, TypeOK, ChargedOnce
  <1>10. MoneyOutNeedsMoneyIn'
    BY <1>5 DEF IInv, MoneyOutNeedsMoneyIn, Sources
  <1> QED
    BY <1>6, <1>7, <1>8, <1>9, <1>10 DEF IInv

LEMMA ConfirmRollbackKeepsIInv ==
  ASSUME IInv, NEW p \in Procs, ConfirmRollback(p)
  PROVE  IInv'
  BY FinishKeepsIInv DEF ConfirmRollback, IInv, TypeOK

LEMMA AssignmentStepsKeepIInv ==
  ASSUME IInv, NEW p \in Procs,
         StartRepAssignment(p) \/ StartVendorAssignment(p) \/ StampNotice(p)
  PROVE  IInv'
  <1> DEFINE r == req[p]
             o == r.id
  <1>1. CASE StartRepAssignment(p)
    <2>1. o \in Orders
      BY <1>1, InFlight DEF StartRepAssignment
    <2>2. CASE order[o].status = "PAID"
      BY <1>1, <2>1, <2>2, ReadingKeepsIInv DEF StartRepAssignment, Status, Then
    <2>3. CASE order[o].status # "PAID"
      BY <1>1, <2>3, FinishKeepsIInv DEF StartRepAssignment, IInv, TypeOK
    <2> QED
      BY <2>2, <2>3
  <1>2. CASE StartVendorAssignment(p)
    <2> DEFINE row == [order[o] EXCEPT !.status = "VENDOR_ASSIGNED"]
    <2>0. /\ o \in Orders /\ order[o] \in Row /\ r.pc = "startVendor" /\ Backed(r)
      BY <1>2, InFlight DEF StartVendorAssignment
    <2>1. o \in Orders /\ row \in Row /\ escrow[o] # "none"
      BY <2>0, RowWithStatus DEF Backed, Spending, Status
    <2>2. CASE Enter(p, Saving(o, row, "schedule"))
      BY <1>2, <2>1, <2>2, SavingKeepsIInv DEF StartVendorAssignment, Then
    <2>3. CASE Enter(p, Reading(o, "BROADCASTING_VENDOR", "done"))
      BY <1>2, <2>1, <2>3, ReadingKeepsIInv DEF StartVendorAssignment, Status, Then
    <2> QED
      BY <1>2, <2>2, <2>3 DEF StartVendorAssignment
  <1>3. CASE StampNotice(p)
    <2> DEFINE n   == order[o].uncollectedNoticeCount
               row == [order[o] EXCEPT !.uncollectedNoticeCount = IF n = 0 THEN 1 ELSE n]
    <2>1. /\ o \in Orders /\ order[o] \in Row
          /\ Funded(order[o].status) => escrow[o] # "none"
      BY <1>3, InFlight DEF StampNotice
    <2>2. row \in Row /\ row.status = order[o].status
      BY <2>1 DEF Row
    <2>3. Enter(p, Saving(o, row, "done"))
      BY <1>3 DEF StampNotice
    <2> HIDE DEF row
    <2> QED
      BY <1>3, <2>1, <2>2, <2>3, SavingKeepsIInv DEF StampNotice, Then
  <1> QED
    BY <1>1, <1>2, <1>3

(* A step of settlement or cancellation moves on to pc, or ends; it may    *)
(* credit someone, settle the escrow row or mark the order, all of which   *)
(* only an order with an escrow row meets.                                 *)
LEMMA SpendingKeepsIInv ==
  ASSUME IInv, NEW p \in Procs, NEW x, NEW o \in Orders,
         escrow[o] # "none",
         x = NoRequest \/ (x \in Request /\ Backed(x)),
         Enter(p, x),
         order' = order \/ (\E row \in Row : order' = [order EXCEPT ![o] = row]),
         wallet' \in [Customers -> Int],
         escrow' = escrow \/ (\E s \in {"released", "refunded"} : SetEscrow(o, s)),
         ledger' = ledger \/ (\E s \in Sources : Count(o, s)),
         UNCHANGED <<topUps, failures>>
  PROVE  IInv'
  <1>1. order' \in [Orders -> Row] /\ \A q \in Orders : q # o => order'[q] = order[q]
    BY DEF IInv, TypeOK
  <1>2. /\ escrow' \in [Orders -> {"none", "held", "released", "refunded"}]
        /\ \A q \in Orders : escrow'[q] = "none" <=> escrow[q] = "none"
    BY DEF IInv, TypeOK, SetEscrow
  <1>3. /\ ledger' \in [Orders -> Ledger]
        /\ \A q \in Orders : ledger'[q].debit = ledger[q].debit
        /\ \A q \in Orders : q # o => ledger'[q] = ledger[q]
    <2>1. CASE ledger' = ledger
      BY <2>1 DEF IInv, TypeOK
    <2>2. CASE \E s \in Sources : Count(o, s)
      BY <2>2 DEF IInv, TypeOK, Ledger, Count, Sources
    <2> QED
      BY <2>1, <2>2
  <1>4. \A q \in Orders : \A s \in Sources : ledger'[q][s] > 0 => escrow[q] # "none"
    BY <1>3 DEF IInv, TypeOK, ChargedOnce, MoneyOutNeedsMoneyIn, Ledger, Sources
  <1>5. \A q \in Orders : Funded(order'[q].status) => escrow[q] # "none"
    BY <1>1 DEF IInv, FundedHasEscrow
  <1> QED
    BY <1>1, <1>2, <1>3, <1>4, <1>5, StepKeepsIInv DEF IInv, TypeOK, Enter

LEMMA CompletionKeepsIInv ==
  ASSUME IInv, NEW p \in Procs,
         \/ CompleteEscrow(p) \/ CompleteVendor(p) \/ CompleteRep(p)
         \/ CompleteTransport(p) \/ CompleteCommit(p)
  PROVE  IInv'
  <1> DEFINE r == req[p]
             o == r.id
             goto(pc) == [r EXCEPT !.pc = pc]
  <1>1. /\ r \in Request /\ Backed(r) /\ o \in Orders /\ r.row \in Row
        /\ escrow[o] # "none"
    BY InFlight DEF CompleteEscrow, CompleteVendor, CompleteRep, CompleteTransport,
                    CompleteCommit, Backed, Spending
  <1>2. \A pc \in Pc : goto(pc) \in Request /\ Backed(goto(pc))
    BY <1>1, GotoFields
  <1>3. {"complete.vendor", "complete.rep", "complete.transport", "complete.tx"} \subseteq Pc
    BY DEF Pc
  <1>4. wallet \in [Customers -> Int]
    BY DEF IInv, TypeOK
  <1>5. CASE CompleteEscrow(p)
    BY <1>1, <1>2, <1>3, <1>4, <1>5, SpendingKeepsIInv DEF CompleteEscrow, Goto, rows
  <1>6. CASE CompleteVendor(p)
    BY <1>1, <1>2, <1>3, <1>4, <1>6, SpendingKeepsIInv DEF CompleteVendor, Goto, Sources
  <1>7. CASE CompleteRep(p)
    BY <1>1, <1>2, <1>3, <1>4, <1>7, SpendingKeepsIInv DEF CompleteRep, Goto, Sources
  <1>8. CASE CompleteTransport(p)
    BY <1>1, <1>2, <1>3, <1>4, <1>8, SpendingKeepsIInv
       DEF CompleteTransport, CreditTransport, Goto, Sources
  <1>9. CASE CompleteCommit(p)
    <2>1. [r.row EXCEPT !.status = "COMPLETED"] \in Row
      BY <1>1, RowWithStatus DEF Status
    <2> QED
      BY <1>1, <1>4, <1>9, <2>1, SpendingKeepsIInv DEF CompleteCommit, Finish
  <1> QED
    BY <1>5, <1>6, <1>7, <1>8, <1>9

LEMMA AbandonmentKeepsIInv ==
  ASSUME IInv, NEW p \in Procs,
         \/ AbandonEscrow(p) \/ AbandonVendor(p) \/ AbandonRep(p) \/ AbandonTransport(p)
  PROVE  IInv'
  <1> DEFINE r == req[p]
             o == r.id
             goto(pc) == [r EXCEPT !.pc = pc]
  <1>1. /\ r \in Request /\ Backed(r) /\ o \in Orders /\ order[o] \in Row
        /\ escrow[o] # "none"
    BY InFlight DEF AbandonEscrow, AbandonVendor, AbandonRep, AbandonTransport,
                    Backed, Spending
  <1>2. \A pc \in Pc : goto(pc) \in Request /\ Backed(goto(pc))
    BY <1>1, GotoFields
  <1>3. {"abandon.vendor", "abandon.rep"} \subseteq Pc
    BY DEF Pc
  <1>4. wallet \in [Customers -> Int]
    BY DEF IInv, TypeOK
  <1>5. CASE AbandonEscrow(p)
    BY <1>1, <1>2, <1>3, <1>4, <1>5, SpendingKeepsIInv DEF AbandonEscrow, Goto
  <1>6. CASE AbandonVendor(p)
    BY <1>1, <1>2, <1>3, <1>4, <1>6, SpendingKeepsIInv DEF AbandonVendor, Goto, Sources
  <1>7. CASE AbandonRep(p)
    <2>1. LET x == Reading(o, "ABANDONED", "abandon.transport") IN
          x \in Request /\ Backed(x)
      BY <1>1, ReadingBacked DEF Status, Then
    <2> QED
      BY <1>1, <1>4, <1>7, <2>1, SpendingKeepsIInv DEF AbandonRep, Sources
  <1>8. CASE AbandonTransport(p)
    <2>1. Saving(o, order[o], "done") \in Request /\ Backed(Saving(o, order[o], "done"))
      BY <1>1, SavingBacked DEF Then
    <2> QED
      BY <1>1, <1>4, <1>8, <2>1, SpendingKeepsIInv
         DEF AbandonTransport, CreditTransport, Sources
  <1> QED
    BY <1>5, <1>6, <1>7, <1>8

LEMMA CancellationKeepsIInv ==
  ASSUME IInv, NEW p \in Procs, CancelWallet(p) \/ CancelCommit(p)
  PROVE  IInv'
  <1> DEFINE r == req[p]
             o == r.id
  <1>1. /\ r \in Request /\ Backed(r) /\ o \in Orders /\ r.row \in Row
        /\ r.bal \in Int /\ escrow[o] # "none"
    BY InFlight DEF CancelWallet, CancelCommit, Backed, Spending
  <1>2. wallet \in [Customers -> Int] /\ Owner[o] \in Customers /\ TotalWP[o] \in Int
    BY <1>1, ConstantsOK DEF IInv, TypeOK
  <1>3. CASE CancelWallet(p)
    <2> DEFINE b == wallet[Owner[o]]
               x == [r EXCEPT !.pc = "cancel.tx", !.bal = b]
    <2>1. b \in Int
      BY <1>2
    <2>2. x \in Request /\ Backed(x)
      <3> HIDE DEF b
      <3> QED
        BY <1>1, <2>1 DEF Request, Backed, Pc
    <2> QED
      BY <1>3, <2>2, EnterKeepsIInv DEF CancelWallet, IInv, TypeOK
  <1>4. CASE CancelCommit(p)
    <2>1. wallet' \in [Customers -> Int]
      BY <1>1, <1>2, <1>4 DEF CancelCommit
    <2> QED
      BY <1>1, <1>4, <2>1, SpendingKeepsIInv DEF CancelCommit, Finish, Sources
  <1> QED
    BY <1>3, <1>4

LEMMA StepKeepsIInvByHandler ==
  ASSUME IInv, NEW p \in Procs, Step(p)
  PROVE  IInv'
  BY SaveKeepsIInv, TransitionReadKeepsIInv, ConfirmWalletKeepsIInv,
     ConfirmCommitKeepsIInv, ConfirmRollbackKeepsIInv, AssignmentStepsKeepIInv,
     CompletionKeepsIInv, AbandonmentKeepsIInv, CancellationKeepsIInv DEF Step

-----------------------------------------------------------------------------
(* Theorems.                                                               *)

LEMMA InitIInv == Init => IInv
  <1> SUFFICES ASSUME Init PROVE IInv
    OBVIOUS
  <1>1. TypeOK
    BY DraftType, ConstantsOK DEF Init, TypeOK, Ledger
  <1>2. FundedHasEscrow /\ BackedRequests /\ ChargedOnce /\ MoneyOutNeedsMoneyIn
    BY DEF Init, FundedHasEscrow, Funded, Draft, BackedRequests, ChargedOnce,
           MoneyOutNeedsMoneyIn
  <1> QED
    BY <1>1, <1>2 DEF IInv

LEMMA NextIInv == IInv /\ [Next]_vars => IInv'
  <1> SUFFICES ASSUME IInv, [Next]_vars PROVE IInv'
    OBVIOUS
  <1>1. CASE Next
    BY <1>1, TopUpKeepsIInv, StartKeepsIInv, StepKeepsIInvByHandler, FailKeepsIInv DEF Next
  <1>2. CASE UNCHANGED vars
    BY <1>2 DEF vars, IInv, TypeOK, FundedHasEscrow, BackedRequests, Backed, ChargedOnce,
                MoneyOutNeedsMoneyIn
  <1> QED
    BY <1>1, <1>2

(* The inductive invariant holds in every reachable state.                 *)
THEOREM Inductive == Spec => []IInv
  BY InitIInv, NextIInv, PTL DEF Spec

(* Rows, ledger and requests in flight keep their types.                   *)
THEOREM Typing == Spec => []TypeOK
  <1>1. IInv => TypeOK
    BY DEF IInv
  <1> QED
    BY <1>1, Inductive, PTL

(* No order is assigned, washed or settled before it has an escrow row,    *)
(* however many handlers overwrite each other's copies of its row.         *)
THEOREM FundedOrdersHaveEscrow == Spec => []FundedHasEscrow
  <1>1. IInv => FundedHasEscrow
    BY DEF IInv
  <1> QED
    BY <1>1, Inductive, PTL

(* No request in flight is about to fund or spend on an unpaid order.      *)
THEOREM RequestsAreBacked == Spec => []BackedRequests
  <1>1. IInv => BackedRequests
    BY DEF IInv
  <1> QED
    BY <1>1, Inductive, PTL

(* The unique escrow row makes confirmPayment charge an order at most once.*)
THEOREM ConfirmChargesOnce == Spec => []ChargedOnce
  <1>1. IInv => ChargedOnce
    BY DEF IInv
  <1> QED
    BY <1>1, Inductive, PTL

(* Every refund and every earning belongs to an order that was charged.    *)
THEOREM NoMoneyFromNothing == Spec => []MoneyOutNeedsMoneyIn
  <1>1. IInv => MoneyOutNeedsMoneyIn
    BY DEF IInv
  <1> QED
    BY <1>1, Inductive, PTL


-----------------------------------------------------------------------------
(* Which actions write an escrow row, or a wallet.                         *)

LEMMA EscrowSteps ==
  ASSUME NEW p \in Procs, Step(p),
         ~ConfirmCommit(p), ~CompleteCommit(p), ~AbandonEscrow(p), ~CancelCommit(p)
  PROVE  UNCHANGED escrow
  BY DEF Step, Save, TransitionRead, ConfirmWallet, ConfirmRollback, StartRepAssignment,
         StartVendorAssignment, StampNotice, CompleteEscrow, CompleteVendor, CompleteRep,
         CompleteTransport, AbandonVendor, AbandonRep, AbandonTransport, CancelWallet, rows

LEMMA StartChangesNoRow ==
  ASSUME NEW p \in Procs, NEW o \in Orders, Start(p, o)
  PROVE  UNCHANGED rows
  BY DEF Start, ConfirmPayment, SweepPaid, Assign, RepAccepts, AdminAssignRep, VendorAccepts,
         AdminAssignVendor, Transition, LogGarmentCount, MarkWithVendor,
         RecordFailedDelivery, RateOrder, RecordDisposal, CompleteOrder, SweepNotice,
         SettleAbandonment, ExpireStaleDraft, CancelOrder

LEMMA EscrowMoves ==
  ASSUME IInv, [Next]_vars
  PROVE  \A o \in Orders :
           escrow[o] # "none" => escrow'[o] \in {escrow[o], "released", "refunded"}
  <1>1. CASE UNCHANGED escrow
    BY <1>1
  <1>2. CASE \E p \in Procs : ConfirmCommit(p)
    BY <1>2, InFlight DEF IInv, TypeOK, ConfirmCommit
  <1>3. CASE \E p \in Procs : CompleteCommit(p) \/ AbandonEscrow(p) \/ CancelCommit(p)
    BY <1>3 DEF IInv, TypeOK, CompleteCommit, AbandonEscrow, CancelCommit, SetEscrow
  <1>4. CASE \E p \in Procs : Fail(p) \/ (\E c \in Customers : TopUp(p, c))
                              \/ (\E o \in Orders : Start(p, o))
    BY <1>1, <1>4, StartChangesNoRow DEF Fail, TopUp, rows
  <1> QED
    BY <1>1, <1>2, <1>3, <1>4, EscrowSteps DEF Next, vars

(* Money taken out of escrow is never held again and no escrow row         *)
(* disappears, whatever copies the handlers write back.                    *)
THEOREM EscrowMovesOneWay == Spec => EscrowNeverReheld
  <1>1. IInv /\ [Next]_vars
          => [\A o \in Orders :
                escrow[o] # "none" => escrow'[o] \in {escrow[o], "released", "refunded"}]_vars
    BY EscrowMoves
  <1> QED
    BY <1>1, Inductive, PTL DEF Spec, EscrowNeverReheld

-----------------------------------------------------------------------------
(* What a call leaves in flight: a request that has neither paid nor       *)
(* settled anything yet, with the loaded row in an unsettled status or as  *)
(* it is in the database.                                                  *)

StartPcs == { "save", "read", "assign", "confirm.wallet", "cancel.wallet",
              "complete.escrow", "abandon.escrow" }

Unsettled(x, o) ==
  /\ x.id = o /\ x.pc \in StartPcs
  /\ x.to \notin {"COMPLETED", "ABANDONED"} /\ x.then # "abandon.transport"
  /\ x.row.status \in {"COMPLETED", "ABANDONED"} => x.row.status = order[o].status

LEMMA StartEnters ==
  ASSUME IInv, NEW p \in Procs, NEW o \in Orders, Start(p, o)
  PROVE  \E x \in Request : Enter(p, x) /\ Unsettled(x, o)
  <1> DEFINE row == order[o]
  <1>1. row \in Row
    BY Loaded
  <1>2. /\ {"save", "read", "assign", "confirm.wallet", "cancel.wallet",
            "complete.escrow", "abandon.escrow"} \subseteq Pc
        /\ {"done", "startVendor", "schedule", "stamp"} \subseteq Then
        /\ {"WITH_VENDOR", "DELIVERY_FAILED", "REP_ASSIGNED", "VENDOR_ASSIGNED", "CANCELLED"}
             \cup RepTargets \cup VendorTargets \subseteq Status \ {"COMPLETED", "ABANDONED"}
    BY DEF Pc, Then, Status, RepTargets, VendorTargets
  <1>3. ASSUME NEW w \in Row, NEW then \in {"done", "startVendor", "schedule"},
               Enter(p, Saving(o, w, then)),
               w.status = row.status \/ w.status \notin {"COMPLETED", "ABANDONED"}
        PROVE  \E x \in Request : Enter(p, x) /\ Unsettled(x, o)
    BY <1>2, <1>3, SavingFields DEF Unsettled, StartPcs
  <1>4. ASSUME NEW w \in Row, NEW pc \in StartPcs, Enter(p, Holding(pc, o, w)),
               w.status = row.status \/ w.status \notin {"COMPLETED", "ABANDONED"}
        PROVE  \E x \in Request : Enter(p, x) /\ Unsettled(x, o)
    BY <1>2, <1>4, HoldingFields DEF Unsettled, StartPcs
  <1>5. ASSUME NEW to \in Status \ {"COMPLETED", "ABANDONED"}, NEW then \in {"done", "stamp"},
               Enter(p, Reading(o, to, then))
        PROVE  \E x \in Request : Enter(p, x) /\ Unsettled(x, o)
    BY <1>2, <1>5, ReadingFields DEF Unsettled, StartPcs, Draft
  <1>6. CASE ConfirmPayment(p, o) \/ CompleteOrder(p, o) \/ SettleAbandonment(p, o)
    BY <1>1, <1>4, <1>6 DEF ConfirmPayment, CompleteOrder, SettleAbandonment, StartPcs
  <1>7. CASE SweepPaid(p, o)
    BY <1>2, <1>7, FreshFields DEF SweepPaid, Unsettled, StartPcs, Draft
  <1>8. ASSUME NEW op, NEW from, NEW to \in {"REP_ASSIGNED", "VENDOR_ASSIGNED"},
               NEW then \in {"done", "startVendor", "schedule"},
               Assign(p, o, op, from, to, then)
        PROVE  \E x \in Request : Enter(p, x) /\ Unsettled(x, o)
    BY <1>1, <1>2, <1>3, <1>8, RowWithStatus DEF Assign
  <1>9. CASE RepAccepts(p, o) \/ AdminAssignRep(p, o) \/ VendorAccepts(p, o)
             \/ AdminAssignVendor(p, o)
    BY <1>8, <1>9 DEF RepAccepts, AdminAssignRep, VendorAccepts, AdminAssignVendor
  <1>10. CASE \E to \in RepTargets \cup VendorTargets : Transition(p, o, to)
    <2>1. PICK to \in RepTargets \cup VendorTargets : Transition(p, o, to)
      BY <1>10
    <2> DEFINE w == [row EXCEPT !.status = to]
               x == [Saving(o, w, "done") EXCEPT !.to = to]
    <2>2. w \in Row /\ w.status = to /\ to \in Status \ {"COMPLETED", "ABANDONED"}
      BY <1>1, <1>2, <2>1, RowWithStatus
    <2>3. x \in Request /\ Unsettled(x, o)
      <3> HIDE DEF w
      <3> QED
        BY <1>2, <2>2, SavingFields DEF Request, Unsettled, StartPcs
    <2> QED
      BY <2>1, <2>3 DEF Transition
  <1>11. CASE MarkWithVendor(p, o) \/ RecordFailedDelivery(p, o)
    BY <1>2, <1>5, <1>11 DEF MarkWithVendor, RecordFailedDelivery
  <1>12. CASE \E v \in VendorShares : LogGarmentCount(p, o, v)
    <2>1. PICK v \in VendorShares : LogGarmentCount(p, o, v)
      BY <1>12
    <2> DEFINE w == [row EXCEPT !.vendorShareWP = v, !.repShareWP = RepShareWP[o]]
    <2>2. w \in Row /\ w.status = row.status /\ Enter(p, Saving(o, w, "done"))
      BY <1>1, <2>1, ConstantsOK DEF Row, LogGarmentCount
    <2> HIDE DEF w, row
    <2> QED
      BY <1>3, <2>2
  <1>13. CASE RateOrder(p, o) \/ RecordDisposal(p, o) \/ SweepNotice(p, o)
    <2>1. /\ [row EXCEPT !.rated = TRUE] \in Row
          /\ [row EXCEPT !.rated = TRUE].status = row.status
      BY <1>1 DEF Row
    <2>2. /\ [row EXCEPT !.uncollectedNoticeCount = 2] \in Row
          /\ [row EXCEPT !.uncollectedNoticeCount = 2].status = row.status
      BY <1>1 DEF Row
    <2>3. CASE RateOrder(p, o)
      BY <1>3, <2>1, <2>3 DEF RateOrder
    <2>4. CASE RecordDisposal(p, o)
      BY <1>1, <1>3, <2>4 DEF RecordDisposal
    <2>5. CASE SweepNotice(p, o)
      BY <1>3, <2>2, <2>5 DEF SweepNotice
    <2> QED
      BY <1>13, <2>3, <2>4, <2>5
  <1>14. CASE ExpireStaleDraft(p, o)
    BY <1>1, <1>2, <1>3, <1>14, RowWithStatus DEF ExpireStaleDraft
  <1>15. CASE CancelOrder(p, o)
    <2>1. /\ [row EXCEPT !.status = "CANCELLED"] \in Row
          /\ [row EXCEPT !.status = "CANCELLED"].status = "CANCELLED"
      BY <1>1, <1>2, RowWithStatus
    <2> QED
      BY <1>3, <1>4, <1>15, <2>1 DEF CancelOrder, StartPcs
  <1> QED
    BY <1>6, <1>7, <1>9, <1>10, <1>11, <1>12, <1>13, <1>14, <1>15 DEF Start

-----------------------------------------------------------------------------
(* Wallets stay non-negative: a request about to write one back has loaded *)
(* a balance that covers what it takes.                                    *)

Affordable(r) ==
  /\ r.pc = "confirm.tx" => r.bal >= TotalWP[r.id]
  /\ r.pc = "cancel.tx" => r.bal >= 0

BInv == /\ BalanceNonNegative
        /\ \A p \in Procs : req[p] # NoRequest => Affordable(req[p])

LEMMA StepKeepsBInv ==
  ASSUME IInv, BInv, NEW p \in Procs, NEW x, Enter(p, x),
         x = NoRequest \/ Affordable(x),
         \A c \in Customers : wallet'[c] >= 0
  PROVE  BInv'
  <1>1. \A q \in Procs : req'[q] = req[q] \/ req'[q] = x
    BY DEF IInv, TypeOK, Enter
  <1> QED
    BY <1>1 DEF BInv, Affordable, BalanceNonNegative

(* A step that touches no wallet and does not lead to a transaction.       *)
MovesQuietly(p) ==
  \E x : Enter(p, x) /\ (x = NoRequest \/ x.pc \notin {"confirm.tx", "cancel.tx"})

LEMMA QuietStep ==
  ASSUME IInv, NEW p \in Procs, Step(p),
         ~ConfirmWallet(p), ~ConfirmCommit(p), ~CancelWallet(p), ~CancelCommit(p)
  PROVE  UNCHANGED wallet /\ MovesQuietly(p)
  <1> DEFINE r == req[p]
  <1>1. UNCHANGED wallet
    BY DEF Step, Save, TransitionRead, ConfirmRollback, StartRepAssignment,
           StartVendorAssignment, StampNotice, CompleteEscrow, CompleteVendor, CompleteRep,
           CompleteTransport, CompleteCommit, AbandonEscrow, AbandonVendor, AbandonRep,
           AbandonTransport, rows
  <1> SUFFICES \E x : Enter(p, x) /\ (x = NoRequest \/ x.pc \notin {"confirm.tx", "cancel.tx"})
    BY <1>1 DEF MovesQuietly
  <1>2. \A o, w, then, to : /\ Saving(o, w, then).pc = "save"
                            /\ Reading(o, to, then).pc = "read"
    BY DEF Saving, Holding, Fresh, Reading
  <1>3. CASE Save(p)
    <2>1. r.then \in Then
      BY <1>3, InFlight DEF Save
    <2> QED
      BY <1>2, <1>3, <2>1 DEF Save, Continue, Finish, Fresh, Then
  <1>4. CASE TransitionRead(p)
    <2>1. r \in Request
      BY <1>4, InFlight DEF TransitionRead
    <2>2. \A w : [r EXCEPT !.pc = "save", !.row = w].pc = "save"
      BY <2>1 DEF Request
    <2> QED
      BY <1>4, <2>2 DEF TransitionRead, Finish
  <1>5. CASE ConfirmRollback(p) \/ CompleteCommit(p)
    BY <1>5 DEF ConfirmRollback, CompleteCommit, Finish
  <1>6. CASE StartRepAssignment(p) \/ StartVendorAssignment(p) \/ StampNotice(p)
    BY <1>2, <1>6 DEF StartRepAssignment, StartVendorAssignment, StampNotice, Finish
  <1>7. CASE \/ CompleteEscrow(p) \/ CompleteVendor(p) \/ CompleteRep(p)
             \/ CompleteTransport(p) \/ AbandonEscrow(p) \/ AbandonVendor(p)
    <2>1. r \in Request
      BY <1>7, InFlight DEF CompleteEscrow, CompleteVendor, CompleteRep, CompleteTransport,
                            AbandonEscrow, AbandonVendor
    <2>2. \A pc : [r EXCEPT !.pc = pc].pc = pc
      BY <2>1 DEF Request
    <2> QED
      BY <1>7, <2>2 DEF CompleteEscrow, CompleteVendor, CompleteRep, CompleteTransport,
                        AbandonEscrow, AbandonVendor, Goto
  <1>8. CASE AbandonRep(p) \/ AbandonTransport(p)
    BY <1>2, <1>8 DEF AbandonRep, AbandonTransport
  <1> QED
    BY <1>1, <1>3, <1>4, <1>5, <1>6, <1>7, <1>8 DEF Step

LEMMA WalletStepsKeepBInv ==
  ASSUME IInv, BInv, NEW p \in Procs,
         ConfirmWallet(p) \/ ConfirmCommit(p) \/ CancelWallet(p) \/ CancelCommit(p)
  PROVE  BInv'
  <1> DEFINE r == req[p]
             o == r.id
  <1>1. /\ r \in Request /\ o \in Orders /\ Affordable(r) /\ req[p] # NoRequest
        /\ r.bal \in Int
    BY InFlight DEF ConfirmWallet, ConfirmCommit, CancelWallet, CancelCommit, At, BInv
  <1>2. /\ Owner[o] \in Customers /\ TotalWP[o] \in Nat /\ wallet[Owner[o]] \in Nat
        /\ wallet \in [Customers -> Int]
        /\ \A c \in Customers : wallet[c] >= 0
    BY <1>1, ConstantsOK DEF IInv, TypeOK, BInv, BalanceNonNegative
  <1> DEFINE b == wallet[Owner[o]]
             x(pc) == [r EXCEPT !.pc = pc, !.bal = b]
  <1>3. \A pc \in {"confirm.tx", "cancel.tx"} :
          x(pc).pc = pc /\ x(pc).bal = b /\ x(pc).id = o
    BY <1>1 DEF Request
  <1>4. CASE ConfirmWallet(p)
    <2>1. wallet' = wallet
      BY <1>4 DEF ConfirmWallet, rows
    <2>2. CASE b >= TotalWP[o]
      <3>1. Enter(p, x("confirm.tx")) /\ Affordable(x("confirm.tx"))
        BY <1>3, <1>4, <2>2 DEF ConfirmWallet, Affordable
      <3> QED
        BY <1>2, <2>1, <3>1, StepKeepsBInv
    <2>3. CASE ~(b >= TotalWP[o])
      BY <1>2, <1>4, <2>1, <2>3, StepKeepsBInv DEF ConfirmWallet, Finish
    <2> QED
      BY <2>2, <2>3
  <1>5. CASE ConfirmCommit(p)
    <2>1. r.bal - TotalWP[o] >= 0
      BY <1>1, <1>2, <1>5 DEF ConfirmCommit, At, Affordable
    <2>2. \A c \in Customers : wallet'[c] >= 0
      BY <1>2, <1>5, <2>1 DEF ConfirmCommit
    <2>3. Affordable(Fresh("assign", o)) /\ Enter(p, Fresh("assign", o))
      BY <1>5 DEF ConfirmCommit, Affordable, Fresh
    <2> QED
      BY <2>2, <2>3, StepKeepsBInv
  <1>6. CASE CancelWallet(p)
    <2>1. Enter(p, x("cancel.tx")) /\ Affordable(x("cancel.tx"))
      BY <1>2, <1>3, <1>6 DEF CancelWallet, Affordable
    <2> QED
      BY <1>2, <1>6, <2>1, StepKeepsBInv DEF CancelWallet, rows
  <1>7. CASE CancelCommit(p)
    <2>1. r.bal + TotalWP[o] >= 0
      BY <1>1, <1>2, <1>7 DEF CancelCommit, At, Affordable
    <2>2. \A c \in Customers : wallet'[c] >= 0
      BY <1>2, <1>7, <2>1 DEF CancelCommit
    <2> QED
      BY <1>7, <2>2, StepKeepsBInv DEF CancelCommit, Finish
  <1> QED
    BY <1>4, <1>5, <1>6, <1>7

LEMMA NextBInv ==
  ASSUME IInv, BInv, [Next]_vars
  PROVE  BInv'
  <1>1. \A c \in Customers : wallet[c] >= 0
    BY DEF BInv, BalanceNonNegative
  <1>2. ASSUME NEW p \in Procs, NEW o \in Orders, Start(p, o)
        PROVE  BInv'
    BY <1>1, <1>2, StartEnters, StartChangesNoRow, StepKeepsBInv
       DEF Unsettled, StartPcs, Affordable, rows
  <1>3. ASSUME NEW p \in Procs, Step(p)
        PROVE  BInv'
    <2>1. CASE ConfirmWallet(p) \/ ConfirmCommit(p) \/ CancelWallet(p) \/ CancelCommit(p)
      BY <2>1, WalletStepsKeepBInv
    <2>2. CASE ~(ConfirmWallet(p) \/ ConfirmCommit(p) \/ CancelWallet(p) \/ CancelCommit(p))
      <3>1. UNCHANGED wallet /\ MovesQuietly(p)
        BY <1>3, <2>2, QuietStep
      <3>2. PICK x : Enter(p, x) /\ (x = NoRequest \/ x.pc \notin {"confirm.tx", "cancel.tx"})
        BY <3>1 DEF MovesQuietly
      <3>3. x = NoRequest \/ Affordable(x)
        BY <3>2 DEF Affordable
      <3> QED
        BY <1>1, <3>1, <3>2, <3>3, StepKeepsBInv
    <2> QED
      BY <2>1, <2>2
  <1>4. ASSUME NEW p \in Procs, Fail(p)
        PROVE  BInv'
    BY <1>1, <1>4, StepKeepsBInv DEF Fail, Finish, rows
  <1>5. ASSUME NEW p \in Procs, NEW c \in Customers, TopUp(p, c)
        PROVE  BInv'
    <2>1. TopUpWP \in Nat /\ wallet \in [Customers -> Int]
      BY ConstantsOK DEF IInv, TypeOK
    <2>2. \A d \in Customers : wallet'[d] >= 0
      BY <1>1, <1>5, <2>1 DEF TopUp
    <2>3. UNCHANGED req
      BY <1>5 DEF TopUp
    <2> QED
      BY <2>2, <2>3 DEF BInv, BalanceNonNegative, Affordable
  <1>6. CASE UNCHANGED vars
    BY <1>6 DEF vars, BInv, BalanceNonNegative, Affordable
  <1> QED
    BY <1>2, <1>3, <1>4, <1>5, <1>6 DEF Next

(* No wallet is ever driven below zero, although the balance is checked on *)
(* a copy that is written back after other steps.                          *)
THEOREM WalletsStayNonNegative == Spec => []BalanceNonNegative
  <1>1. Init => BInv
    BY ConstantsOK DEF Init, BInv, BalanceNonNegative
  <1>2. IInv /\ BInv /\ [Next]_vars => BInv'
    BY NextBInv
  <1>3. BInv => BalanceNonNegative
    BY DEF BInv
  <1> QED
    BY <1>1, <1>2, <1>3, Inductive, PTL DEF Spec

-----------------------------------------------------------------------------
(* Settlement pays before it marks.  A request on its way to mark an order *)
(* has made the payments that come before its step, and one that holds or  *)
(* targets a settled status found it in the database or has released the   *)
(* escrow; credits are never taken back and escrow never returns to held.  *)

Paid(o, l) == /\ l[o].vendor > 0 /\ l[o].rep > 0
              /\ TransportWP[o] > 0 => l[o].transport > 0
OutOfEscrow(o, e) == e[o] \in {"released", "refunded"}

MarkedRight(s, o, e, l) ==
  /\ s = "COMPLETED" => Paid(o, l) /\ OutOfEscrow(o, e)
  /\ s = "ABANDONED" => OutOfEscrow(o, e)

Settling(r, e, l) ==
  /\ MarkedRight(r.row.status, r.id, e, l)
  /\ r.to # "COMPLETED"
  /\ r.pc \in {"complete.rep", "complete.transport", "complete.tx"} => l[r.id].vendor > 0
  /\ r.pc \in {"complete.transport", "complete.tx"} => l[r.id].rep > 0
  /\ r.pc = "complete.tx" => (TransportWP[r.id] > 0 => l[r.id].transport > 0)
  /\ (\/ r.to = "ABANDONED" \/ r.then = "abandon.transport"
      \/ r.pc \in {"abandon.vendor", "abandon.rep", "abandon.transport"})
       => OutOfEscrow(r.id, e)

SInv == /\ \A o \in Orders : MarkedRight(order[o].status, o, escrow, ledger)
        /\ \A p \in Procs : req[p] # NoRequest => Settling(req[p], escrow, ledger)

LEMMA StepKeepsSInv ==
  ASSUME IInv, SInv, NEW p \in Procs, NEW x, Enter(p, x),
         x = NoRequest \/ Settling(x, escrow', ledger'),
         \A o \in Orders :
           /\ OutOfEscrow(o, escrow) => OutOfEscrow(o, escrow')
           /\ \A s \in Sources : ledger[o][s] > 0 => ledger'[o][s] > 0
           /\ \/ order'[o] = order[o]
              \/ MarkedRight(order'[o].status, o, escrow', ledger')
  PROVE  SInv'
  <1>1. \A o \in Orders : /\ OutOfEscrow(o, escrow) => OutOfEscrow(o, escrow')
                          /\ ledger[o].vendor > 0 => ledger'[o].vendor > 0
                          /\ ledger[o].rep > 0 => ledger'[o].rep > 0
                          /\ ledger[o].transport > 0 => ledger'[o].transport > 0
    BY DEF Sources
  <1>2. \A o \in Orders : MarkedRight(order'[o].status, o, escrow', ledger')
    BY <1>1 DEF SInv, MarkedRight, Paid
  <1>3. ASSUME NEW q \in Procs, req'[q] # NoRequest
        PROVE  Settling(req'[q], escrow', ledger')
    <2>1. CASE req'[q] = x
      BY <1>3, <2>1
    <2>2. CASE req'[q] = req[q]
      <3>1. req[q].id \in Orders /\ Settling(req[q], escrow, ledger)
        BY <1>3, <2>2 DEF IInv, TypeOK, Request, SInv
      <3> QED
        BY <1>1, <2>2, <3>1 DEF Settling, MarkedRight, Paid
    <2> QED
      BY <2>1, <2>2 DEF IInv, TypeOK, Enter
  <1> QED
    BY <1>2, <1>3 DEF SInv

LEMMA StartKeepsSInv ==
  ASSUME IInv, SInv, NEW p \in Procs, NEW o \in Orders, Start(p, o)
  PROVE  SInv'
  <1>1. PICK x \in Request : Enter(p, x) /\ Unsettled(x, o)
    BY StartEnters
  <1>2. UNCHANGED <<order, escrow, ledger>>
    BY StartChangesNoRow DEF rows
  <1>3. Settling(x, escrow, ledger)
    BY <1>1 DEF Unsettled, StartPcs, Settling, MarkedRight, SInv
  <1> QED
    BY <1>1, <1>2, <1>3, StepKeepsSInv

(* A request in flight, and what SInv says of it and of its order.         *)
LEMMA SettlingInFlight ==
  ASSUME IInv, SInv, NEW p \in Procs, NEW pc, At(p, pc)
  PROVE  /\ req[p] \in Request /\ req[p].pc = pc /\ req[p].id \in Orders
         /\ Settling(req[p], escrow, ledger)
         /\ MarkedRight(order[req[p].id].status, req[p].id, escrow, ledger)
         /\ order[req[p].id] \in Row
  BY InFlight DEF At, SInv

LEMMA RowStepsKeepSInv ==
  ASSUME IInv, SInv, NEW p \in Procs,
         \/ Save(p) \/ TransitionRead(p) \/ ConfirmWallet(p) \/ ConfirmRollback(p)
         \/ StartRepAssignment(p) \/ StartVendorAssignment(p) \/ StampNotice(p)
         \/ CancelWallet(p)
  PROVE  SInv'
  <1> DEFINE r == req[p]
             o == r.id
  <1>1. /\ r \in Request /\ o \in Orders /\ Settling(r, escrow, ledger)
        /\ MarkedRight(order[o].status, o, escrow, ledger) /\ order[o] \in Row
    BY SettlingInFlight DEF Save, TransitionRead, ConfirmWallet, ConfirmRollback,
         StartRepAssignment, StartVendorAssignment, StampNotice, CancelWallet
  <1>2. UNCHANGED <<escrow, ledger>>
    BY DEF Save, TransitionRead, ConfirmWallet, ConfirmRollback, StartRepAssignment,
           StartVendorAssignment, StampNotice, CancelWallet, rows
  <1>3. ASSUME NEW x, Enter(p, x), x = NoRequest \/ Settling(x, escrow, ledger),
               UNCHANGED order
        PROVE  SInv'
    BY <1>2, <1>3, StepKeepsSInv
  <1>4. CASE Save(p)
    <2>1. \A q \in Orders : \/ order'[q] = order[q]
                            \/ MarkedRight(order'[q].status, q, escrow, ledger)
      BY <1>1, <1>4 DEF Save, Settling, IInv, TypeOK
    <2>2. PICK x : Enter(p, x) /\ (x = NoRequest \/ Settling(x, escrow, ledger))
      <3>1. CASE r.then = "done"
        BY <1>4, <3>1 DEF Save, Continue, Finish
      <3>2. CASE r.then = "schedule"
        BY <1>4, <3>2 DEF Save, Continue, Reading, Draft, Settling, MarkedRight
      <3>3. CASE r.then \in {"startVendor", "stamp", "abandon.transport"}
        BY <1>1, <1>4, <3>3 DEF Save, Continue, Fresh, Draft, Settling, MarkedRight
      <3> QED
        BY <1>1, <3>1, <3>2, <3>3 DEF Request, Then
    <2> QED
      BY <1>2, <2>1, <2>2, StepKeepsSInv
  <1>5. CASE TransitionRead(p)
    <2> DEFINE w == [order[o] EXCEPT !.status = r.to]
               x == [r EXCEPT !.pc = "save", !.row = w]
    <2>1. UNCHANGED order /\ (Enter(p, x) \/ Finish(p))
      BY <1>5 DEF TransitionRead, rows
    <2>2. w.status = r.to
      BY <1>1 DEF Row
    <2>3. Settling(x, escrow, ledger)
      <3> HIDE DEF w
      <3> QED
        BY <1>1, <2>2 DEF Request, Settling, MarkedRight
    <2> QED
      BY <1>3, <2>1, <2>3 DEF Finish
  <1>6. CASE ConfirmWallet(p) \/ CancelWallet(p)
    <2> DEFINE b == wallet[Owner[o]]
               x(pc) == [r EXCEPT !.pc = pc, !.bal = b]
    <2>1. /\ UNCHANGED order
          /\ Enter(p, x("confirm.tx")) \/ Enter(p, x("cancel.tx")) \/ Finish(p)
      BY <1>6 DEF ConfirmWallet, CancelWallet, rows
    <2>2. /\ Settling(x("confirm.tx"), escrow, ledger)
          /\ Settling(x("cancel.tx"), escrow, ledger)
      <3> HIDE DEF b
      <3> QED
        BY <1>1 DEF Request, Settling, MarkedRight
    <2> QED
      BY <1>3, <2>1, <2>2 DEF Finish
  <1>7. CASE ConfirmRollback(p)
    BY <1>3, <1>7 DEF ConfirmRollback, Finish, rows
  <1>8. CASE StartRepAssignment(p)
    <2>1. Settling(Reading(o, "BROADCASTING_REP", "done"), escrow, ledger)
      BY DEF Reading, Draft, Settling, MarkedRight
    <2> QED
      BY <1>3, <1>8, <2>1 DEF StartRepAssignment, Finish, rows
  <1>9. CASE StartVendorAssignment(p)
    <2> DEFINE w == [order[o] EXCEPT !.status = "VENDOR_ASSIGNED"]
    <2>1. Settling(Reading(o, "BROADCASTING_VENDOR", "done"), escrow, ledger)
      BY DEF Reading, Draft, Settling, MarkedRight
    <2>2. w \in Row /\ w.status = "VENDOR_ASSIGNED"
      BY <1>1, RowWithStatus DEF Status
    <2>3. Settling(Saving(o, w, "schedule"), escrow, ledger)
      <3> HIDE DEF w
      <3> QED
        BY <1>1, <2>2, SavingFields DEF Settling, MarkedRight, Then
    <2> QED
      BY <1>3, <1>9, <2>1, <2>3 DEF StartVendorAssignment, rows
  <1>10. CASE StampNotice(p)
    <2> DEFINE n == order[o].uncollectedNoticeCount
               w == [order[o] EXCEPT !.uncollectedNoticeCount = IF n = 0 THEN 1 ELSE n]
    <2>1. w \in Row /\ w.status = order[o].status
      BY <1>1 DEF Row
    <2>2. Settling(Saving(o, w, "done"), escrow, ledger)
      <3> HIDE DEF w
      <3> QED
        BY <1>1, <2>1, SavingFields DEF Settling, MarkedRight, Then
    <2> QED
      BY <1>3, <1>10, <2>2 DEF StampNotice, rows
  <1> QED
    BY <1>4, <1>5, <1>6, <1>7, <1>8, <1>9, <1>10

(* The transaction of confirmPayment: its order was in no settled state,   *)
(* for it had no escrow row.                                               *)
LEMMA ConfirmCommitKeepsSInv ==
  ASSUME IInv, SInv, NEW p \in Procs, ConfirmCommit(p)
  PROVE  SInv'
  <1> DEFINE r == req[p]
             o == r.id
             w == [r.row EXCEPT !.status = "PAID"]
             x == Fresh("assign", o)
  <1>1. r \in Request /\ o \in Orders /\ w.status = "PAID"
    <2>1. r \in Request /\ o \in Orders /\ r.row \in Row
      BY InFlight DEF ConfirmCommit
    <2> QED
      BY <2>1 DEF Row
  <1>2. /\ Enter(p, x)
        /\ order' = [order EXCEPT ![o] = w]
        /\ escrow[o] = "none" /\ escrow' = [escrow EXCEPT ![o] = "held"]
        /\ ledger' = [ledger EXCEPT ![o]["debit"] = @ + 1]
    BY DEF ConfirmCommit, Count
  <1> HIDE DEF w
  <1>3. \A q \in Orders :
          /\ OutOfEscrow(q, escrow) => OutOfEscrow(q, escrow')
          /\ \A s \in Sources : ledger'[q][s] = ledger[q][s]
          /\ order'[q] = order[q] \/ order'[q].status = "PAID"
    BY <1>1, <1>2 DEF IInv, TypeOK, OutOfEscrow, Ledger, Sources
  <1>4. Settling(x, escrow', ledger')
    BY DEF Fresh, Draft, Settling, MarkedRight
  <1> QED
    BY <1>2, <1>3, <1>4, StepKeepsSInv DEF MarkedRight

(* A credit is never taken back and adds to its own source.                *)
LEMMA Credits ==
  ASSUME IInv, NEW o \in Orders, NEW s \in Sources, Count(o, s)
  PROVE  /\ ledger'[o][s] > 0
         /\ \A q \in Orders : \A t \in Sources : ledger[q][t] > 0 => ledger'[q][t] > 0
  BY DEF Count, IInv, TypeOK, Ledger, Sources

LEMMA CompletionKeepsSInv ==
  ASSUME IInv, SInv, NEW p \in Procs,
         \/ CompleteEscrow(p) \/ CompleteVendor(p) \/ CompleteRep(p)
         \/ CompleteTransport(p) \/ CompleteCommit(p)
  PROVE  SInv'
  <1> DEFINE r == req[p]
             o == r.id
             goto(pc) == [r EXCEPT !.pc = pc]
  <1>1. /\ r \in Request /\ o \in Orders /\ Settling(r, escrow, ledger)
        /\ MarkedRight(order[o].status, o, escrow, ledger)
        /\ r.row \in Row
    BY SettlingInFlight, InFlight DEF CompleteEscrow, CompleteVendor, CompleteRep,
         CompleteTransport, CompleteCommit
  <1>2. /\ goto("complete.vendor").pc = "complete.vendor"
        /\ goto("complete.rep").pc = "complete.rep"
        /\ goto("complete.transport").pc = "complete.transport"
        /\ goto("complete.tx").pc = "complete.tx"
        /\ \A pc : /\ goto(pc).id = o /\ goto(pc).row = r.row /\ goto(pc).to = r.to
                   /\ goto(pc).then = r.then
    BY <1>1 DEF Request
  <1>3. CASE CompleteEscrow(p)
    <2>1. Settling(goto("complete.vendor"), escrow, ledger)
      BY <1>1, <1>2 DEF Settling
    <2> QED
      BY <1>3, <2>1, StepKeepsSInv DEF CompleteEscrow, Goto, rows
  <1>4. ASSUME NEW pc \in {"complete.rep", "complete.transport", "complete.tx"},
               Goto(p, pc), goto(pc).pc = pc, UNCHANGED <<order, escrow>>,
               \A q \in Orders : \A t \in Sources : ledger[q][t] > 0 => ledger'[q][t] > 0,
               pc = "complete.rep" => ledger'[o].vendor > 0,
               pc = "complete.transport" => ledger'[o].vendor > 0 /\ ledger'[o].rep > 0,
               pc = "complete.tx" => Paid(o, ledger')
        PROVE  SInv'
    <2>1. MarkedRight(r.row.status, o, escrow, ledger')
      BY <1>1, <1>4 DEF Settling, MarkedRight, Paid, Sources
    <2>2. Settling(goto(pc), escrow, ledger')
      BY <1>1, <1>2, <1>4, <2>1 DEF Settling, Paid
    <2> QED
      BY <1>4, <2>2, StepKeepsSInv DEF Goto
  <1>5. CASE CompleteVendor(p)
    BY <1>1, <1>2, <1>4, <1>5, Credits DEF CompleteVendor, Sources
  <1>6. CASE CompleteRep(p)
    <2>1. ledger[o].vendor > 0
      BY <1>1, <1>6 DEF CompleteRep, At, Settling
    <2> QED
      BY <1>1, <1>2, <1>4, <1>6, <2>1, Credits DEF CompleteRep, Sources
  <1>7. CASE CompleteTransport(p)
    <2>1. ledger[o].vendor > 0 /\ ledger[o].rep > 0
      BY <1>1, <1>7 DEF CompleteTransport, At, Settling
    <2>2. CASE TransportWP[o] > 0
      BY <1>1, <1>2, <1>4, <1>7, <2>1, <2>2, Credits
         DEF CompleteTransport, CreditTransport, Sources, Paid
    <2>3. CASE ~(TransportWP[o] > 0)
      BY <1>1, <1>2, <1>4, <1>7, <2>1, <2>3
         DEF CompleteTransport, CreditTransport, Sources, Paid
    <2> QED
      BY <2>2, <2>3
  <1>8. CASE CompleteCommit(p)
    <2> DEFINE w == [r.row EXCEPT !.status = "COMPLETED"]
    <2>1. Paid(o, ledger) /\ escrow[o] # "none"
      BY <1>1, <1>8, InFlight
         DEF CompleteCommit, At, Settling, Paid, Backed, Spending
    <2>2. /\ escrow' = [escrow EXCEPT ![o] = "released"]
          /\ order' = [order EXCEPT ![o] = w]
          /\ UNCHANGED ledger /\ Enter(p, NoRequest)
      BY <1>8, <2>1 DEF CompleteCommit, SetEscrow, Finish
    <2>3. w.status = "COMPLETED"
      BY <1>1 DEF Row
    <2> HIDE DEF w
    <2>4. \A q \in Orders :
            /\ OutOfEscrow(q, escrow) => OutOfEscrow(q, escrow')
            /\ order'[q] = order[q] \/ MarkedRight(order'[q].status, q, escrow', ledger)
      BY <1>1, <2>1, <2>2, <2>3 DEF IInv, TypeOK, OutOfEscrow, MarkedRight
    <2> QED
      BY <2>2, <2>4, StepKeepsSInv
  <1> QED
    BY <1>3, <1>5, <1>6, <1>7, <1>8

LEMMA AbandonmentKeepsSInv ==
  ASSUME IInv, SInv, NEW p \in Procs,
         \/ AbandonEscrow(p) \/ AbandonVendor(p) \/ AbandonRep(p) \/ AbandonTransport(p)
  PROVE  SInv'
  <1> DEFINE r == req[p]
             o == r.id
             goto(pc) == [r EXCEPT !.pc = pc]
  <1>1. /\ r \in Request /\ o \in Orders /\ Settling(r, escrow, ledger)
        /\ MarkedRight(order[o].status, o, escrow, ledger) /\ order[o] \in Row
    BY SettlingInFlight DEF AbandonEscrow, AbandonVendor, AbandonRep, AbandonTransport
  <1>2. /\ goto("abandon.vendor").pc = "abandon.vendor"
        /\ goto("abandon.rep").pc = "abandon.rep"
        /\ \A pc : /\ goto(pc).id = o /\ goto(pc).row = r.row /\ goto(pc).to = r.to
                   /\ goto(pc).then = r.then
    BY <1>1 DEF Request
  <1>3. CASE AbandonEscrow(p)
    <2>1. escrow[o] # "none"
      BY <1>3, InFlight DEF AbandonEscrow, Backed, Spending
    <2>2. /\ escrow' = [escrow EXCEPT ![o] = "released"]
          /\ UNCHANGED <<order, ledger>> /\ Enter(p, goto("abandon.vendor"))
      BY <1>3, <2>1 DEF AbandonEscrow, SetEscrow, Goto
    <2>3. /\ OutOfEscrow(o, escrow')
          /\ \A q \in Orders : OutOfEscrow(q, escrow) => OutOfEscrow(q, escrow')
      BY <1>1, <2>2 DEF IInv, TypeOK, OutOfEscrow
    <2>4. Settling(goto("abandon.vendor"), escrow', ledger)
      BY <1>1, <1>2, <2>3 DEF Settling, MarkedRight
    <2> QED
      BY <2>2, <2>3, <2>4, StepKeepsSInv
  <1>4. CASE AbandonVendor(p) \/ AbandonRep(p) \/ AbandonTransport(p)
    <2>1. /\ UNCHANGED <<order, escrow>> /\ OutOfEscrow(o, escrow)
      BY <1>1, <1>4 DEF AbandonVendor, AbandonRep, AbandonTransport, At, Settling
    <2>2. \A q \in Orders : \A t \in Sources : ledger[q][t] > 0 => ledger'[q][t] > 0
      BY <1>1, <1>4, Credits
         DEF AbandonVendor, AbandonRep, AbandonTransport, CreditTransport, Sources
    <2>3. /\ MarkedRight(r.row.status, o, escrow, ledger')
          /\ MarkedRight(order[o].status, o, escrow, ledger')
      BY <1>1, <2>2 DEF Settling, MarkedRight, Paid, Sources
    <2>4. Settling(goto("abandon.rep"), escrow, ledger')
      BY <1>1, <1>2, <2>1, <2>3 DEF Settling
    <2>5. Settling(Reading(o, "ABANDONED", "abandon.transport"), escrow, ledger')
      <3> DEFINE y == Reading(o, "ABANDONED", "abandon.transport")
      <3>1. /\ y.pc = "read" /\ y.id = o /\ y.to = "ABANDONED"
            /\ y.row.status = "PENDING_PAYMENT"
        BY DEF Reading, Draft
      <3> HIDE DEF y
      <3>2. Settling(y, escrow, ledger')
        BY <2>1, <3>1 DEF Settling, MarkedRight
      <3> QED
        BY <3>2 DEF y
    <2>6. Settling(Saving(o, order[o], "done"), escrow, ledger')
      <3> DEFINE y == Saving(o, order[o], "done")
      <3>1. "done" \in Then
        BY DEF Then
      <3>2. /\ y.pc = "save" /\ y.id = o /\ y.row = order[o] /\ y.then = "done"
            /\ y.to = "PENDING_PAYMENT"
        BY <1>1, <3>1, SavingFields
      <3> HIDE DEF y, r, goto
      <3>3. Settling(y, escrow, ledger')
        BY <2>3, <3>2 DEF Settling
      <3> QED
        BY <3>3 DEF y
    <2>7. \/ Enter(p, goto("abandon.rep"))
          \/ Enter(p, Reading(o, "ABANDONED", "abandon.transport"))
          \/ Enter(p, Saving(o, order[o], "done"))
      BY <1>4 DEF AbandonVendor, AbandonRep, AbandonTransport, Goto
    <2> QED
      BY <2>1, <2>2, <2>4, <2>5, <2>6, <2>7, StepKeepsSInv
  <1> QED
    BY <1>3, <1>4

LEMMA CancelCommitKeepsSInv ==
  ASSUME IInv, SInv, NEW p \in Procs, CancelCommit(p)
  PROVE  SInv'
  <1> DEFINE r == req[p]
             o == r.id
  <1>1. /\ r \in Request /\ o \in Orders /\ Settling(r, escrow, ledger)
        /\ escrow[o] # "none"
    BY SettlingInFlight, InFlight DEF CancelCommit, Backed, Spending
  <1>2. /\ escrow' = [escrow EXCEPT ![o] = "refunded"]
        /\ order' = [order EXCEPT ![o] = r.row]
        /\ Count(o, "refund") /\ Enter(p, NoRequest)
    BY <1>1 DEF CancelCommit, SetEscrow, Finish
  <1>3. \A q \in Orders :
          /\ OutOfEscrow(q, escrow) => OutOfEscrow(q, escrow')
          /\ q = o => OutOfEscrow(q, escrow')
          /\ q # o => order'[q] = order[q]
          /\ q = o => order'[q] = r.row
    BY <1>1, <1>2 DEF IInv, TypeOK, OutOfEscrow
  <1>4. \A q \in Orders : \A t \in Sources : ledger[q][t] > 0 => ledger'[q][t] > 0
    BY <1>1, <1>2, Credits DEF Sources
  <1>5. MarkedRight(r.row.status, o, escrow', ledger')
    BY <1>1, <1>3, <1>4 DEF Settling, MarkedRight, Paid, Sources
  <1> QED
    BY <1>1, <1>2, <1>3, <1>4, <1>5, StepKeepsSInv

LEMMA NextSInv ==
  ASSUME IInv, SInv, [Next]_vars
  PROVE  SInv'
  <1>1. ASSUME NEW p \in Procs, Step(p)
        PROVE  SInv'
    BY <1>1, RowStepsKeepSInv, ConfirmCommitKeepsSInv, CompletionKeepsSInv,
       AbandonmentKeepsSInv, CancelCommitKeepsSInv DEF Step
  <1>2. ASSUME NEW p \in Procs, Fail(p)
        PROVE  SInv'
    BY <1>2, StepKeepsSInv DEF Fail, Finish, rows
  <1>3. CASE UNCHANGED <<order, escrow, ledger, req>>
    BY <1>3 DEF SInv
  <1>4. ASSUME NEW p \in Procs, NEW c \in Customers, TopUp(p, c)
        PROVE  SInv'
    BY <1>3, <1>4 DEF TopUp
  <1> QED
    BY <1>1, <1>2, <1>3, <1>4, StartKeepsSInv DEF Next, vars

(* An order is COMPLETED only after its vendor, its rep and its transport  *)
(* were credited and its escrow settled, and ABANDONED only after its      *)
(* escrow was, in every interleaving and whatever dies half-way.           *)
THEOREM SettledOrdersArePaid == Spec => []SettledIsPaid
  <1>1. Init => SInv
    BY DEF Init, SInv, MarkedRight, Draft
  <1>2. IInv /\ SInv /\ [Next]_vars => SInv'
    BY NextSInv
  <1>3. SInv => SettledIsPaid
    BY DEF SInv, SettledIsPaid, MarkedRight, Paid, OutOfEscrow
  <1> QED
    BY <1>1, <1>2, <1>3, Inductive, PTL DEF Spec

-----------------------------------------------------------------------------
(* Requests that keep apart.  Between two requests on an order its status  *)
(* accounts for its money; a request under way explains the difference.    *)

(* No request has died, and no order has two requests in flight.           *)
Apart ==
  /\ failures = 0
  /\ \A p, q \in Procs :
       req[p] # NoRequest /\ req[q] # NoRequest /\ req[p].id = req[q].id => p = q

InConfirm  == {"confirm.wallet", "confirm.tx"}
InCancel   == {"cancel.wallet", "cancel.tx"}
InComplete == { "complete.escrow", "complete.vendor", "complete.rep",
                "complete.transport", "complete.tx" }
InAbandon  == {"abandon.escrow", "abandon.vendor", "abandon.rep"}

(* Statuses whose orders hold their escrow, those transition() is called   *)
(* for among them, and the moves the code makes between any two.           *)
InService == Status \ {"PENDING_PAYMENT", "CANCELLED", "COMPLETED", "ABANDONED"}
Reads     == {"SCHEDULED", "BROADCASTING_REP", "BROADCASTING_VENDOR", "WITH_VENDOR",
              "DELIVERY_FAILED"}
Moves(s, t) == t = s \/ t \in Allowed(s) \/ AssignmentMove(s, t)

(* The last leg of settleAbandonment: its transition() and what follows.   *)
LastLeg(r) == r.pc = "abandon.transport" \/ r.then = "abandon.transport"

(* What request r knows of the row of its order.                           *)
Knows(r, row) ==
  /\ r.pc \notin {"save", "read"} => r.then = "done"
  /\ r.pc \in InConfirm => r.row = row /\ row.status = "PENDING_PAYMENT"
  /\ r.pc \in InCancel => /\ r.row = [row EXCEPT !.status = "CANCELLED"]
                          /\ row.status \in Cancellable \ {"PENDING_PAYMENT"}
  /\ r.pc \in InComplete => r.row = row /\ row.status = "DELIVERED" /\ SplitKnown(row)
  /\ r.pc \in InAbandon => r.row = row /\ row.status = "DELIVERY_FAILED"
  /\ r.pc = "startVendor" => row.status = "REP_ASSIGNED"
  /\ r.pc = "abandon.transport" => row.status = "ABANDONED"
  /\ r.pc = "read" =>
       IF LastLeg(r) THEN r.to = "ABANDONED" /\ row.status = "DELIVERY_FAILED"
                     ELSE r.to \in Reads /\ r.then \in {"done", "stamp"}
  /\ r.pc = "save" =>
       IF LastLeg(r)
         THEN r.row = [row EXCEPT !.status = "ABANDONED"] /\ row.status = "DELIVERY_FAILED"
         ELSE /\ Moves(row.status, r.row.status)
              /\ r.then = "startVendor" => r.row.status = "REP_ASSIGNED"

(* Where the money of its order is while request r is under way.           *)
Between == {"complete.rep", "complete.transport", "complete.tx",
            "abandon.vendor", "abandon.rep"}
Explains(r, row, e, l) ==
  /\ r.pc = "complete.rep"       => Held(e, l) /\ Earned(r.id, row, l, 1, 0, 0)
  /\ r.pc = "complete.transport" => Held(e, l) /\ Earned(r.id, row, l, 1, 1, 0)
  /\ r.pc = "complete.tx"        => Held(e, l) /\ Earned(r.id, row, l, 1, 1, 1)
  /\ r.pc = "abandon.vendor"     => Released(e, l) /\ Earned(r.id, row, l, 0, 0, 0)
  /\ r.pc = "abandon.rep"        => Released(e, l) /\ Earned(r.id, row, l, 1, 0, 0)
  /\ LastLeg(r)                  => Released(e, l) /\ Earned(r.id, row, l, 1, 1, 0)
  /\ r.pc \notin Between /\ ~LastLeg(r) => Accounts(r.id, row, e, l)
  /\ r.pc = "save" /\ ~LastLeg(r)       => Accounts(r.id, r.row, e, l)

Sound(r, row, e, l) == Knows(r, row) /\ Explains(r, row, e, l)

Unattended(o) == \A p \in Procs : req[p] # NoRequest => req[p].id # o

Audited ==
  /\ \A p \in Procs : req[p] # NoRequest =>
       LET o == req[p].id IN Sound(req[p], order[o], escrow[o], ledger[o])
  /\ \A o \in Orders : Unattended(o) => Accounts(o, order[o], escrow[o], ledger[o])

-----------------------------------------------------------------------------
(* Statuses, and the money of orders that are in service.                  *)

LEMMA InServiceTargets ==
  /\ Reads \cup RepTargets \cup VendorTargets \subseteq InService \ {"PAID"}
  /\ "done" \in Then /\ "startVendor" \in Then /\ "schedule" \in Then /\ "stamp" \in Then
  /\ "abandon.transport" \in Then
  BY DEF Reads, RepTargets, VendorTargets, InService, Status, Then

LEMMA ReachedInService ==
  ASSUME NEW s \in Status, NEW t \in InService \ {"PAID"}, t \in Allowed(s) \cup {s}
  PROVE  s \in InService
  BY DEF InService, Status, Allowed

LEMMA AccountsByStatus ==
  ASSUME NEW o \in Orders, NEW row \in Row, NEW e, NEW l
  PROVE  /\ row.status = "PENDING_PAYMENT" =>
              (Accounts(o, row, e, l) <=> NotCharged(e, l) /\ Earned(o, row, l, 0, 0, 0))
         /\ row.status = "CANCELLED" =>
              (Accounts(o, row, e, l) <=> /\ NotCharged(e, l) \/ Refunded(e, l)
                                          /\ Earned(o, row, l, 0, 0, 0))
         /\ row.status \in {"COMPLETED", "ABANDONED"} =>
              (Accounts(o, row, e, l) <=> Released(e, l) /\ Earned(o, row, l, 1, 1, 1))
         /\ row.status \in InService =>
              (Accounts(o, row, e, l) <=> Held(e, l) /\ Earned(o, row, l, 0, 0, 0))
  BY DEF Accounts, InService

(* Nothing earned is nothing earned, whatever the shares.                  *)
LEMMA NothingEarned ==
  ASSUME NEW o, NEW row, NEW w, NEW l, Earned(o, row, l, 0, 0, 0)
  PROVE  Earned(o, w, l, 0, 0, 0)
  BY DEF Earned, Due

LEMMA SameShares ==
  ASSUME NEW o, NEW row, NEW w, NEW l, NEW v, NEW r, NEW t,
         w.vendorShareWP = row.vendorShareWP, w.repShareWP = row.repShareWP,
         Earned(o, row, l, v, r, t)
  PROVE  Earned(o, w, l, v, r, t)
  BY DEF Earned

LEMMA MovesInService ==
  ASSUME NEW o \in Orders, NEW row \in Row, NEW w \in Row, NEW e, NEW l,
         Accounts(o, row, e, l), row.status \in InService, w.status \in InService
  PROVE  Accounts(o, w, e, l)
  BY AccountsByStatus, NothingEarned

LEMMA RowChange ==
  ASSUME NEW row \in Row, NEW s \in Status
  PROVE  LET w == [row EXCEPT !.status = s] IN
         /\ w \in Row /\ w.status = s
         /\ w.vendorShareWP = row.vendorShareWP /\ w.repShareWP = row.repShareWP
  BY DEF Row

-----------------------------------------------------------------------------
(* A step of one request, or the start of one, on order o.                 *)

LEMMA StepKeepsAudited ==
  ASSUME IInv, Apart, Apart', Audited, NEW p \in Procs, NEW o \in Orders, NEW x,
         Enter(p, x),
         x = NoRequest \/ (x # NoRequest /\ x.id = o),
         req[p] # NoRequest => req[p].id = o,
         req[p] = NoRequest => x # NoRequest,
         \A q \in Orders \ {o} : /\ order'[q] = order[q] /\ escrow'[q] = escrow[q]
                                 /\ ledger'[q] = ledger[q],
         IF x = NoRequest THEN Accounts(o, order'[o], escrow'[o], ledger'[o])
                          ELSE Sound(x, order'[o], escrow'[o], ledger'[o])
  PROVE  Audited'
  <1>1. /\ req'[p] = x
        /\ \A q \in Procs \ {p} : req'[q] = req[q]
    BY DEF Enter, IInv, TypeOK
  <1>2. ASSUME NEW q \in Procs, req'[q] # NoRequest
        PROVE  Sound(req'[q], order'[req'[q].id], escrow'[req'[q].id], ledger'[req'[q].id])
    <2>1. CASE q = p
      BY <1>1, <1>2, <2>1
    <2>2. CASE q # p
      <3>1. req'[q] = req[q] /\ req[q] # NoRequest /\ req[q].id \in Orders
        BY <1>1, <1>2, <2>2 DEF IInv, TypeOK, Request
      <3>2. req[q].id # o
        <4>1. CASE req[p] # NoRequest
          BY <2>2, <3>1, <4>1 DEF Apart
        <4>2. CASE req[p] = NoRequest
          BY <1>1, <2>2, <3>1, <4>2 DEF Apart
        <4> QED
          BY <4>1, <4>2
      <3>3. Sound(req[q], order[req[q].id], escrow[req[q].id], ledger[req[q].id])
        BY <3>1 DEF Audited
      <3> QED
        BY <3>1, <3>2, <3>3
    <2> QED
      BY <2>1, <2>2
  <1>3. ASSUME NEW q \in Orders, \A s \in Procs : req'[s] # NoRequest => req'[s].id # q
        PROVE  Accounts(q, order'[q], escrow'[q], ledger'[q])
    <2>1. CASE q = o
      BY <1>1, <1>3, <2>1
    <2>2. CASE q # o
      <3>1. Unattended(q)
        BY <1>1, <1>3, <2>2 DEF Unattended
      <3> QED
        BY <2>2, <3>1 DEF Audited
    <2> QED
      BY <2>1, <2>2
  <1> QED
    BY <1>2, <1>3 DEF Audited, Unattended

(* A call starts on an order nobody is at work on.                         *)
LEMMA StartFindsAccounts ==
  ASSUME IInv, Apart', Audited, NEW p \in Procs, NEW o \in Orders, NEW x,
         req[p] = NoRequest, Enter(p, x), x # NoRequest, x.id = o
  PROVE  Accounts(o, order[o], escrow[o], ledger[o])
  <1>1. /\ req'[p] = x
        /\ \A q \in Procs \ {p} : req'[q] = req[q]
    BY DEF Enter, IInv, TypeOK
  <1>2. Unattended(o)
    BY <1>1 DEF Unattended, Apart
  <1> QED
    BY <1>2 DEF Audited

LEMMA StartKeepsAudited ==
  ASSUME IInv, Apart, Apart', Audited, NEW p \in Procs, NEW o \in Orders, NEW x \in Request,
         req[p] = NoRequest, Enter(p, x), x.id = o, UNCHANGED rows,
         Accounts(o, order[o], escrow[o], ledger[o])
           => Sound(x, order[o], escrow[o], ledger[o])
  PROVE  Audited'
  <1>1. x # NoRequest
    BY ConstantsOK
  <1>2. Sound(x, order[o], escrow[o], ledger[o])
    BY <1>1, StartFindsAccounts
  <1> QED
    BY <1>1, <1>2, StepKeepsAudited DEF rows

-----------------------------------------------------------------------------
(* Requests outside a settlement.                                          *)

LEMMA QuietSound ==
  ASSUME NEW x, NEW row, NEW e, NEW l,
         x.pc \notin Between \cup {"save", "abandon.transport"},
         x.then # "abandon.transport", Knows(x, row), Accounts(x.id, row, e, l)
  PROVE  Sound(x, row, e, l)
  BY DEF Sound, Explains, LastLeg, Between

LEMMA SaveSound ==
  ASSUME NEW x, NEW row, NEW e, NEW l,
         x.pc = "save", x.then # "abandon.transport",
         Accounts(x.id, row, e, l), Accounts(x.id, x.row, e, l),
         Moves(row.status, x.row.status),
         x.then = "startVendor" => x.row.status = "REP_ASSIGNED"
  PROVE  Sound(x, row, e, l)
  BY DEF Sound, Explains, LastLeg, Between, Knows, InConfirm, InCancel, InComplete, InAbandon

LEMMA ReadSound ==
  ASSUME NEW o \in Orders, NEW to \in Reads, NEW then \in {"done", "stamp"},
         NEW row, NEW e, NEW l, Accounts(o, row, e, l)
  PROVE  Sound(Reading(o, to, then), row, e, l)
  <1> DEFINE x == Reading(o, to, then)
  <1>1. x.pc = "read" /\ x.id = o /\ x.to = to /\ x.then = then
    BY DEF Reading
  <1> HIDE DEF x
  <1>2. Knows(x, row)
    BY <1>1 DEF Knows, LastLeg, InConfirm, InCancel, InComplete, InAbandon
  <1> QED
    BY <1>1, <1>2, QuietSound DEF Between, x

LEMMA FreshSound ==
  ASSUME NEW o \in Orders, NEW pc \in {"assign", "stamp", "startVendor"},
         NEW row, NEW e, NEW l, Accounts(o, row, e, l),
         pc = "startVendor" => row.status = "REP_ASSIGNED"
  PROVE  Sound(Fresh(pc, o), row, e, l)
  <1> DEFINE x == Fresh(pc, o)
  <1>1. x.pc = pc /\ x.id = o /\ x.then = "done"
    BY DEF Fresh
  <1> HIDE DEF x
  <1>2. Knows(x, row)
    BY <1>1 DEF Knows, InConfirm, InCancel, InComplete, InAbandon
  <1> QED
    BY <1>1, <1>2, QuietSound DEF Between, x

-----------------------------------------------------------------------------
(* The calls.                                                              *)

(* A call that goes on with the copy row in step pc.                       *)
LEMMA HoldingAudited ==
  ASSUME IInv, Apart, Apart', Audited, NEW p \in Procs, NEW o \in Orders, NEW row \in Row,
         NEW pc \in Pc, pc \notin Between \cup {"save", "read", "abandon.transport", "startVendor"},
         req[p] = NoRequest, Enter(p, Holding(pc, o, row)), UNCHANGED rows,
         pc \in InConfirm => row = order[o] /\ order[o].status = "PENDING_PAYMENT",
         pc \in InCancel => /\ row = [order[o] EXCEPT !.status = "CANCELLED"]
                            /\ order[o].status \in Cancellable \ {"PENDING_PAYMENT"},
         pc \in InComplete => /\ row = order[o] /\ order[o].status = "DELIVERED"
                              /\ SplitKnown(order[o]),
         pc \in InAbandon => row = order[o] /\ order[o].status = "DELIVERY_FAILED"
  PROVE  Audited'
  <1> DEFINE x == Holding(pc, o, row)
  <1>1. x \in Request /\ x.pc = pc /\ x.id = o /\ x.row = row /\ x.then = "done"
    BY HoldingFields
  <1>2. Enter(p, x)
    OBVIOUS
  <1> HIDE DEF x
  <1>3. Knows(x, order[o])
    BY <1>1 DEF Knows
  <1>4. Accounts(o, order[o], escrow[o], ledger[o]) => Sound(x, order[o], escrow[o], ledger[o])
    BY <1>1, <1>3, QuietSound
  <1> QED
    BY <1>1, <1>2, <1>4, StartKeepsAudited

(* A call that goes on to save row.                                        *)
LEMMA SavingAudited ==
  ASSUME IInv, Apart, Apart', Audited, NEW p \in Procs, NEW o \in Orders, NEW row \in Row,
         NEW x \in Request, x.pc = "save", x.id = o, x.row = row,
         x.then # "abandon.transport", x.then = "startVendor" => row.status = "REP_ASSIGNED",
         req[p] = NoRequest, Enter(p, x), UNCHANGED rows,
         Moves(order[o].status, row.status),
         Accounts(o, order[o], escrow[o], ledger[o]) => Accounts(o, row, escrow[o], ledger[o])
  PROVE  Audited'
  <1>1. Accounts(o, order[o], escrow[o], ledger[o]) => Sound(x, order[o], escrow[o], ledger[o])
    BY SaveSound
  <1> QED
    BY <1>1, StartKeepsAudited

LEMMA ReadingAudited ==
  ASSUME IInv, Apart, Apart', Audited, NEW p \in Procs, NEW o \in Orders,
         NEW to \in Reads, NEW then \in {"done", "stamp"},
         req[p] = NoRequest, Enter(p, Reading(o, to, then)), UNCHANGED rows
  PROVE  Audited'
  <1>1. to \in Status /\ then \in Then
    BY InServiceTargets DEF InService
  <1>2. Reading(o, to, then) \in Request /\ Reading(o, to, then).id = o
    BY <1>1, ReadingFields
  <1>3. Accounts(o, order[o], escrow[o], ledger[o])
          => Sound(Reading(o, to, then), order[o], escrow[o], ledger[o])
    BY ReadSound
  <1> QED
    BY <1>2, <1>3, StartKeepsAudited

LEMMA AssignAudited ==
  ASSUME IInv, Apart, Apart', Audited, NEW p \in Procs, NEW o \in Orders,
         \/ RepAccepts(p, o) \/ AdminAssignRep(p, o)
         \/ VendorAccepts(p, o) \/ AdminAssignVendor(p, o)
  PROVE  Audited'
  <1>1. ASSUME NEW op, NEW from \in SUBSET InService, NEW to \in {"REP_ASSIGNED", "VENDOR_ASSIGNED"},
               NEW then \in {"done", "startVendor", "schedule"},
               then = "startVendor" => to = "REP_ASSIGNED",
               \A s \in from : Moves(s, to), Assign(p, o, op, from, to, then)
        PROVE  Audited'
    <2> DEFINE row == [order[o] EXCEPT !.status = to]
               x == Saving(o, row, then)
    <2>1. order[o] \in Row /\ order[o].status \in from /\ to \in InService /\ to \in Status
      BY <1>1, Loaded DEF Assign, InService, Status
    <2>2. row \in Row /\ row.status = to
      BY <2>1, RowChange
    <2>3. Enter(p, x) /\ req[p] = NoRequest /\ UNCHANGED rows
      BY <1>1 DEF Assign, Callable
    <2> HIDE DEF row
    <2>4. then \in Then /\ x \in Request /\ x.pc = "save" /\ x.id = o /\ x.row = row /\ x.then = then
      BY <1>1, <2>2, InServiceTargets, SavingFields
    <2> HIDE DEF x
    <2>5. Moves(order[o].status, row.status)
      BY <1>1, <2>1, <2>2
    <2>6. Accounts(o, order[o], escrow[o], ledger[o]) => Accounts(o, row, escrow[o], ledger[o])
      BY <1>1, <2>1, <2>2, MovesInService
    <2> QED
      BY <1>1, <2>2, <2>3, <2>4, <2>5, <2>6, SavingAudited
  <1>2. /\ {"BROADCASTING_REP"} \in SUBSET InService
        /\ {"PAID", "BROADCASTING_REP", "REP_ASSIGNED"} \in SUBSET InService
        /\ {"BROADCASTING_VENDOR"} \in SUBSET InService
        /\ {"REP_ASSIGNED", "BROADCASTING_VENDOR", "VENDOR_ASSIGNED"} \in SUBSET InService
        /\ \A s \in {"PAID", "BROADCASTING_REP", "REP_ASSIGNED"} : Moves(s, "REP_ASSIGNED")
        /\ \A s \in {"REP_ASSIGNED", "BROADCASTING_VENDOR", "VENDOR_ASSIGNED"} :
             Moves(s, "VENDOR_ASSIGNED")
    BY DEF InService, Status, Moves, AssignmentMove
  <1>3. CASE RepAccepts(p, o)
    BY <1>1, <1>2, <1>3 DEF RepAccepts
  <1>4. CASE AdminAssignRep(p, o)
    BY <1>1, <1>2, <1>4 DEF AdminAssignRep
  <1>5. CASE VendorAccepts(p, o)
    BY <1>1, <1>2, <1>5 DEF VendorAccepts
  <1>6. CASE AdminAssignVendor(p, o)
    BY <1>1, <1>2, <1>6 DEF AdminAssignVendor
  <1> QED
    BY <1>3, <1>4, <1>5, <1>6

LEMMA TransitionCallsAudited ==
  ASSUME IInv, Apart, Apart', Audited, NEW p \in Procs, NEW o \in Orders,
         \/ \E to \in RepTargets \cup VendorTargets : Transition(p, o, to)
         \/ MarkWithVendor(p, o) \/ RecordFailedDelivery(p, o)
  PROVE  Audited'
  <1>1. CASE \E to \in RepTargets \cup VendorTargets : Transition(p, o, to)
    <2>1. PICK to \in RepTargets \cup VendorTargets : Transition(p, o, to)
      BY <1>1
    <2> DEFINE row == [order[o] EXCEPT !.status = to]
               x == [Saving(o, row, "done") EXCEPT !.to = to]
    <2>2. /\ order[o] \in Row /\ to \in InService \ {"PAID"} /\ to \in Status
          /\ to \in Allowed(order[o].status) \cup {order[o].status}
      BY <2>1, Loaded, InServiceTargets DEF Transition, InService
    <2>3. row \in Row /\ row.status = to
      BY <2>2, RowChange
    <2>4. order[o].status \in InService
      BY <2>2, ReachedInService DEF Row
    <2>5. Enter(p, x) /\ req[p] = NoRequest /\ UNCHANGED rows
      BY <2>1 DEF Transition, Callable
    <2> HIDE DEF row
    <2>6. x \in Request /\ x.pc = "save" /\ x.id = o /\ x.row = row /\ x.then = "done"
      BY <2>2, <2>3, InServiceTargets, SavingFields DEF Request
    <2> HIDE DEF x
    <2>7. Moves(order[o].status, row.status)
      BY <2>2, <2>3 DEF Moves
    <2>8. Accounts(o, order[o], escrow[o], ledger[o]) => Accounts(o, row, escrow[o], ledger[o])
      BY <2>2, <2>3, <2>4, MovesInService
    <2> QED
      BY <2>3, <2>5, <2>6, <2>7, <2>8, SavingAudited
  <1>2. CASE MarkWithVendor(p, o)
    BY <1>2, ReadingAudited DEF MarkWithVendor, Callable, Reads
  <1>3. CASE RecordFailedDelivery(p, o)
    BY <1>3, ReadingAudited DEF RecordFailedDelivery, Callable, Reads
  <1> QED
    BY <1>1, <1>2, <1>3

LEMMA SavingCallsAudited ==
  ASSUME IInv, Apart, Apart', Audited, NEW p \in Procs, NEW o \in Orders,
         \/ \E v \in VendorShares : LogGarmentCount(p, o, v)
         \/ RateOrder(p, o) \/ RecordDisposal(p, o) \/ SweepNotice(p, o)
         \/ ExpireStaleDraft(p, o)
  PROVE  Audited'
  <1>1. order[o] \in Row /\ "CANCELLED" \in Status
    BY Loaded DEF Status
  <1>2. ASSUME NEW row \in Row, Enter(p, Saving(o, row, "done")), UNCHANGED rows,
               req[p] = NoRequest, Moves(order[o].status, row.status),
               Accounts(o, order[o], escrow[o], ledger[o]) => Accounts(o, row, escrow[o], ledger[o])
        PROVE  Audited'
    <2> DEFINE x == Saving(o, row, "done")
    <2>1. x \in Request /\ x.pc = "save" /\ x.id = o /\ x.row = row /\ x.then = "done"
      BY InServiceTargets, SavingFields
    <2> QED
      BY <1>2, <2>1, SavingAudited
  <1>3. CASE \E v \in VendorShares : LogGarmentCount(p, o, v)
    <2>1. PICK v \in VendorShares : LogGarmentCount(p, o, v)
      BY <1>3
    <2> DEFINE row == [order[o] EXCEPT !.vendorShareWP = v, !.repShareWP = RepShareWP[o]]
    <2>2. row \in Row /\ row.status = order[o].status
      BY <1>1, ConstantsOK DEF Row
    <2>3. order[o].status \in InService
      BY <2>1 DEF LogGarmentCount, InService, Status
    <2>4. Accounts(o, order[o], escrow[o], ledger[o]) => Accounts(o, row, escrow[o], ledger[o])
      BY <1>1, <2>2, <2>3, MovesInService
    <2> QED
      BY <1>2, <2>1, <2>2, <2>4 DEF LogGarmentCount, Moves, Callable
  (* Rating and the second notice leave status and shares alone.           *)
  <1>4. ASSUME NEW row \in Row, row.status = order[o].status,
               row.vendorShareWP = order[o].vendorShareWP, row.repShareWP = order[o].repShareWP
        PROVE  Accounts(o, order[o], escrow[o], ledger[o]) => Accounts(o, row, escrow[o], ledger[o])
    BY <1>4 DEF Accounts, Earned
  <1>5. CASE RateOrder(p, o)
    <2> DEFINE row == [order[o] EXCEPT !.rated = TRUE]
    <2>1. /\ row \in Row /\ row.status = order[o].status
          /\ row.vendorShareWP = order[o].vendorShareWP /\ row.repShareWP = order[o].repShareWP
      BY <1>1 DEF Row
    <2>2. Enter(p, Saving(o, row, "done")) /\ UNCHANGED rows /\ req[p] = NoRequest
      BY <1>5 DEF RateOrder, Callable
    <2> HIDE DEF row
    <2> QED
      BY <1>2, <1>4, <2>1, <2>2 DEF Moves
  <1>6. CASE RecordDisposal(p, o)
    BY <1>1, <1>2, <1>6 DEF RecordDisposal, Moves, Callable
  <1>7. CASE SweepNotice(p, o)
    <2> DEFINE row == [order[o] EXCEPT !.uncollectedNoticeCount = 2]
    <2>1. /\ row \in Row /\ row.status = order[o].status
          /\ row.vendorShareWP = order[o].vendorShareWP /\ row.repShareWP = order[o].repShareWP
      BY <1>1 DEF Row
    <2>2. Enter(p, Saving(o, row, "done")) /\ UNCHANGED rows /\ req[p] = NoRequest
      BY <1>7 DEF SweepNotice, Callable
    <2> HIDE DEF row
    <2> QED
      BY <1>2, <1>4, <2>1, <2>2 DEF Moves
  <1>8. CASE ExpireStaleDraft(p, o)
    <2> DEFINE row == [order[o] EXCEPT !.status = "CANCELLED"]
    <2>1. row \in Row /\ row.status = "CANCELLED" /\ order[o].status = "PENDING_PAYMENT"
      BY <1>1, <1>8, RowChange DEF ExpireStaleDraft
    <2>2. Enter(p, Saving(o, row, "done")) /\ UNCHANGED rows /\ req[p] = NoRequest
      BY <1>8 DEF ExpireStaleDraft, Callable
    <2> HIDE DEF row
    <2>3. Accounts(o, order[o], escrow[o], ledger[o]) => Accounts(o, row, escrow[o], ledger[o])
      BY <1>1, <2>1, AccountsByStatus, NothingEarned
    <2>4. Moves(order[o].status, row.status)
      BY <2>1 DEF Moves, Allowed
    <2> QED
      BY <1>2, <2>1, <2>2, <2>3, <2>4
  <1> QED
    BY <1>3, <1>5, <1>6, <1>7, <1>8

LEMMA SettlementCallsAudited ==
  ASSUME IInv, Apart, Apart', Audited, NEW p \in Procs, NEW o \in Orders,
         \/ ConfirmPayment(p, o) \/ SweepPaid(p, o) \/ CompleteOrder(p, o)
         \/ SettleAbandonment(p, o) \/ CancelOrder(p, o)
  PROVE  Audited'
  <1>1. order[o] \in Row /\ "CANCELLED" \in Status
    BY Loaded DEF Status
  <1>2. CASE ConfirmPayment(p, o)
    BY <1>1, <1>2, HoldingAudited
       DEF ConfirmPayment, Callable, Pc, Between, InConfirm, InCancel, InComplete, InAbandon
  <1>3. CASE SweepPaid(p, o)
    <2>1. Fresh("assign", o) \in Request /\ Fresh("assign", o).id = o
      BY FreshFields DEF Pc
    <2>2. Accounts(o, order[o], escrow[o], ledger[o])
            => Sound(Fresh("assign", o), order[o], escrow[o], ledger[o])
      BY FreshSound
    <2> QED
      BY <1>3, <2>1, <2>2, StartKeepsAudited DEF SweepPaid, Callable
  <1>4. CASE CompleteOrder(p, o)
    BY <1>1, <1>4, HoldingAudited
       DEF CompleteOrder, Callable, Pc, Between, InConfirm, InCancel, InComplete, InAbandon
  <1>5. CASE SettleAbandonment(p, o)
    BY <1>1, <1>5, HoldingAudited
       DEF SettleAbandonment, Callable, Pc, Between, InConfirm, InCancel, InComplete, InAbandon
  <1>6. CASE CancelOrder(p, o)
    <2> DEFINE row == [order[o] EXCEPT !.status = "CANCELLED"]
    <2>1. row \in Row /\ row.status = "CANCELLED" /\ order[o].status \in Cancellable
      BY <1>1, <1>6, RowChange DEF CancelOrder
    <2>2. CASE order[o].status = "PENDING_PAYMENT"
      <3> DEFINE x == Saving(o, row, "done")
      <3>1. Enter(p, x) /\ UNCHANGED rows /\ req[p] = NoRequest
        BY <1>6, <2>2 DEF CancelOrder, Callable
      <3> HIDE DEF row
      <3>2. x \in Request /\ x.pc = "save" /\ x.id = o /\ x.row = row /\ x.then = "done"
        BY <2>1, InServiceTargets, SavingFields
      <3> HIDE DEF x
      <3>3. Accounts(o, order[o], escrow[o], ledger[o]) => Accounts(o, row, escrow[o], ledger[o])
        BY <1>1, <2>1, <2>2, AccountsByStatus, NothingEarned
      <3>4. Moves(order[o].status, row.status)
        BY <2>1, <2>2 DEF Moves, Allowed
      <3> QED
        BY <2>1, <3>1, <3>2, <3>3, <3>4, SavingAudited
    <2>3. CASE order[o].status # "PENDING_PAYMENT"
      <3>1. Enter(p, Holding("cancel.wallet", o, row)) /\ UNCHANGED rows /\ req[p] = NoRequest
        BY <1>6, <2>3 DEF CancelOrder, Callable
      <3> QED
        BY <2>1, <2>3, <3>1, HoldingAudited
           DEF Pc, Between, InConfirm, InCancel, InComplete, InAbandon
    <2> QED
      BY <2>2, <2>3
  <1> QED
    BY <1>2, <1>3, <1>4, <1>5, <1>6

LEMMA CallsKeepAudited ==
  ASSUME IInv, Apart, Apart', Audited, NEW p \in Procs, NEW o \in Orders, Start(p, o)
  PROVE  Audited'
  BY AssignAudited, TransitionCallsAudited, SavingCallsAudited, SettlementCallsAudited DEF Start

-----------------------------------------------------------------------------
(* The steps of a request in flight.                                       *)

LEMMA SoundInFlight ==
  ASSUME IInv, Audited, NEW p \in Procs, NEW pc, At(p, pc)
  PROVE  /\ req[p] # NoRequest /\ req[p] \in Request /\ req[p].pc = pc
         /\ req[p].id \in Orders /\ req[p].row \in Row /\ req[p].then \in Then
         /\ req[p].to \in Status /\ order[req[p].id] \in Row
         /\ order \in [Orders -> Row]
         /\ LET o == req[p].id IN Sound(req[p], order[o], escrow[o], ledger[o])
  BY InFlight DEF At, Audited, IInv, TypeOK

(* Request p goes on as x, and the tables stay.                            *)
LEMMA MoveKeepsAudited ==
  ASSUME IInv, Apart, Apart', Audited, NEW p \in Procs, NEW x, req[p] # NoRequest,
         Enter(p, x), UNCHANGED <<order, escrow, ledger>>,
         LET o == req[p].id IN
           \/ x = NoRequest /\ Accounts(o, order[o], escrow[o], ledger[o])
           \/ x \in Request /\ x.id = o /\ Sound(x, order[o], escrow[o], ledger[o])
  PROVE  Audited'
  <1> DEFINE o == req[p].id
  <1>1. o \in Orders /\ (x = NoRequest \/ (x # NoRequest /\ x.id = o))
    BY ConstantsOK DEF IInv, TypeOK, Request
  <1>2. IF x = NoRequest THEN Accounts(o, order[o], escrow[o], ledger[o])
                         ELSE Sound(x, order[o], escrow[o], ledger[o])
    BY ConstantsOK
  <1> QED
    BY <1>1, <1>2, StepKeepsAudited

(* Request p writes row w, escrow e and ledger l of its order and goes on  *)
(* as x.                                                                   *)
LEMMA WriteKeepsAudited ==
  ASSUME IInv, Apart, Apart', Audited, NEW p \in Procs, NEW x, req[p] # NoRequest, Enter(p, x),
         LET o == req[p].id IN
           /\ \A q \in Orders \ {o} : /\ order'[q] = order[q] /\ escrow'[q] = escrow[q]
                                      /\ ledger'[q] = ledger[q]
           /\ \/ x = NoRequest /\ Accounts(o, order'[o], escrow'[o], ledger'[o])
              \/ x \in Request /\ x.id = o /\ Sound(x, order'[o], escrow'[o], ledger'[o])
  PROVE  Audited'
  <1> DEFINE o == req[p].id
  <1>1. o \in Orders /\ (x = NoRequest \/ (x # NoRequest /\ x.id = o))
    BY ConstantsOK DEF IInv, TypeOK, Request
  <1>2. IF x = NoRequest THEN Accounts(o, order'[o], escrow'[o], ledger'[o])
                         ELSE Sound(x, order'[o], escrow'[o], ledger'[o])
    BY ConstantsOK
  <1> QED
    BY <1>1, <1>2, StepKeepsAudited

LEMMA SaveAudited ==
  ASSUME IInv, Apart, Apart', Audited, NEW p \in Procs, Save(p)
  PROVE  Audited'
  <1> DEFINE r == req[p]
             o == r.id
             e == escrow[o]
             l == ledger[o]
  <1>1. /\ r # NoRequest /\ r \in Request /\ r.pc = "save" /\ o \in Orders /\ r.row \in Row
        /\ r.then \in Then /\ order[o] \in Row /\ order \in [Orders -> Row]
        /\ Sound(r, order[o], e, l)
    BY SoundInFlight DEF Save
  <1>2. /\ order' = [order EXCEPT ![o] = r.row] /\ UNCHANGED <<escrow, ledger>>
        /\ Continue(p, o, r.then)
    BY DEF Save
  <1>3. /\ order'[o] = r.row
        /\ \A q \in Orders \ {o} : order'[q] = order[q]
    BY <1>1, <1>2
  <1>4. ASSUME NEW x, Enter(p, x),
               \/ x = NoRequest /\ Accounts(o, r.row, e, l)
               \/ x \in Request /\ x.id = o /\ Sound(x, r.row, e, l)
        PROVE  Audited'
    BY <1>1, <1>2, <1>3, <1>4, WriteKeepsAudited
  <1> HIDE DEF r, e, l
  <1>5. CASE r.then = "abandon.transport"
    <2> DEFINE x == Fresh("abandon.transport", o)
    <2>1. /\ x \in Request /\ x.id = o /\ x.pc = "abandon.transport" /\ x.then = "done"
          /\ Enter(p, x)
      BY <1>1, <1>2, <1>5, FreshFields DEF Continue, Pc
    <2>2. /\ r.row = [order[o] EXCEPT !.status = "ABANDONED"]
          /\ Released(e, l) /\ Earned(o, order[o], l, 1, 1, 0)
      BY <1>1, <1>5 DEF Sound, Knows, Explains, LastLeg
    <2>3. r.row.status = "ABANDONED" /\ Earned(o, r.row, l, 1, 1, 0)
      <3>1. "ABANDONED" \in Status
        BY DEF Status
      <3>2. /\ r.row.status = "ABANDONED"
            /\ r.row.vendorShareWP = order[o].vendorShareWP
            /\ r.row.repShareWP = order[o].repShareWP
        BY <1>1, <2>2, <3>1, RowChange
      <3> QED
        BY <2>2, <3>2, SameShares
    <2> HIDE DEF x
    <2>4. Sound(x, r.row, e, l)
      BY <2>1, <2>2, <2>3
         DEF Sound, Knows, Explains, LastLeg, InConfirm, InCancel, InComplete, InAbandon, Between
    <2> QED
      BY <1>4, <2>1, <2>4
  <1>6. CASE r.then # "abandon.transport"
    <2>1. /\ Accounts(o, r.row, e, l)
          /\ r.then = "startVendor" => r.row.status = "REP_ASSIGNED"
      BY <1>1, <1>6 DEF Sound, Knows, Explains, LastLeg
    <2>2. CASE r.then = "done"
      BY <1>2, <1>4, <2>1, <2>2 DEF Continue, Finish
    <2>3. CASE r.then = "schedule"
      <3>1. Enter(p, Reading(o, "SCHEDULED", "done"))
        BY <1>2, <2>3 DEF Continue
      <3>2. /\ Reading(o, "SCHEDULED", "done") \in Request
            /\ Reading(o, "SCHEDULED", "done").id = o
        BY <1>1, ReadingFields DEF Status, Then
      <3>3. Sound(Reading(o, "SCHEDULED", "done"), r.row, e, l)
        BY <1>1, <2>1, ReadSound DEF Reads
      <3> QED
        BY <1>4, <3>1, <3>2, <3>3
    <2>4. CASE r.then \in {"startVendor", "stamp"}
      <3>1. Enter(p, Fresh(r.then, o))
        BY <1>2, <2>4 DEF Continue
      <3>2. Fresh(r.then, o) \in Request /\ Fresh(r.then, o).id = o
        BY <1>1, <2>4, FreshFields DEF Pc
      <3>3. Sound(Fresh(r.then, o), r.row, e, l)
        BY <1>1, <2>1, <2>4, FreshSound
      <3> QED
        BY <1>4, <3>1, <3>2, <3>3
    <2> QED
      BY <1>1, <1>6, <2>2, <2>3, <2>4 DEF Then
  <1> QED
    BY <1>5, <1>6

LEMMA ReadAudited ==
  ASSUME IInv, Apart, Apart', Audited, NEW p \in Procs, TransitionRead(p)
  PROVE  Audited'
  <1> DEFINE r == req[p]
             o == r.id
             e == escrow[o]
             l == ledger[o]
             w == [order[o] EXCEPT !.status = r.to]
             x == [r EXCEPT !.pc = "save", !.row = w]
  <1>1. /\ r # NoRequest /\ r \in Request /\ r.pc = "read" /\ o \in Orders
        /\ r.then \in Then /\ r.to \in Status /\ order[o] \in Row
        /\ Sound(r, order[o], e, l)
    BY SoundInFlight DEF TransitionRead
  <1>2. /\ UNCHANGED <<order, escrow, ledger>>
        /\ IF r.to \in Allowed(order[o].status) \cup {order[o].status}
             THEN Enter(p, x) ELSE Finish(p)
    BY DEF TransitionRead, rows
  <1>3. /\ w \in Row /\ w.status = r.to
        /\ w.vendorShareWP = order[o].vendorShareWP /\ w.repShareWP = order[o].repShareWP
    BY <1>1, RowChange
  <1>4. CASE r.then = "abandon.transport"
    <2>1. /\ r.to = "ABANDONED" /\ order[o].status = "DELIVERY_FAILED"
          /\ Released(e, l) /\ Earned(o, order[o], l, 1, 1, 0)
      BY <1>1, <1>4 DEF Sound, Knows, Explains, LastLeg
    <2>2. Enter(p, x)
      BY <1>2, <2>1 DEF Allowed
    <2>3. w = [order[o] EXCEPT !.status = "ABANDONED"]
      BY <2>1
    <2> HIDE DEF w
    <2>4. /\ x \in Request /\ x.pc = "save" /\ x.id = o /\ x.row = w
          /\ x.then = "abandon.transport"
      BY <1>1, <1>3, <1>4 DEF Request, Pc
    <2> HIDE DEF x, r, e, l
    <2>5. Sound(x, order[o], e, l)
      BY <2>1, <2>3, <2>4
         DEF Sound, Knows, Explains, LastLeg, InConfirm, InCancel, InComplete, InAbandon, Between
    <2> QED
      BY <1>1, <1>2, <2>2, <2>4, <2>5, MoveKeepsAudited DEF r, e, l
  <1>5. CASE r.then # "abandon.transport"
    <2>1. r.to \in Reads /\ r.then \in {"done", "stamp"} /\ Accounts(o, order[o], e, l)
      BY <1>1, <1>5 DEF Sound, Knows, Explains, LastLeg, Between
    <2>2. CASE r.to \in Allowed(order[o].status) \cup {order[o].status}
      <3>1. Enter(p, x)
        BY <1>2, <2>2
      <3>2. order[o].status \in InService /\ r.to \in InService
        BY <1>1, <2>1, <2>2, ReachedInService, InServiceTargets DEF Row
      <3>3. Accounts(o, w, e, l)
        <4> HIDE DEF w, e, l, r
        <4> QED
          BY <1>1, <1>3, <2>1, <3>2, MovesInService
      <3>4. Moves(order[o].status, w.status)
        BY <1>3, <2>2 DEF Moves
      <3> HIDE DEF w
      <3>5. /\ x \in Request /\ x.pc = "save" /\ x.id = o /\ x.row = w /\ x.then = r.then
        BY <1>1, <1>3 DEF Request, Pc
      <3> HIDE DEF x, r, e, l
      <3>6. Sound(x, order[o], e, l)
        BY <2>1, <3>3, <3>4, <3>5, SaveSound
      <3> QED
        BY <1>1, <1>2, <3>1, <3>5, <3>6, MoveKeepsAudited DEF r, e, l
    <2>3. CASE r.to \notin Allowed(order[o].status) \cup {order[o].status}
      BY <1>1, <1>2, <2>1, <2>3, MoveKeepsAudited DEF Finish
    <2> QED
      BY <2>2, <2>3
  <1> QED
    BY <1>4, <1>5

(* The steps that only look: the wallet, the status before an assignment,  *)
(* the notice to stamp.                                                    *)
LEMMA LookAudited ==
  ASSUME IInv, Apart, Apart', Audited, NEW p \in Procs,
         \/ ConfirmWallet(p) \/ CancelWallet(p) \/ ConfirmRollback(p)
         \/ StartRepAssignment(p) \/ StartVendorAssignment(p) \/ StampNotice(p)
         \/ CompleteEscrow(p)
  PROVE  Audited'
  <1> DEFINE r == req[p]
             o == r.id
             e == escrow[o]
             l == ledger[o]
             b == wallet[Owner[o]]
  <1>1. /\ r # NoRequest /\ r \in Request /\ o \in Orders /\ r.row \in Row
        /\ r.then \in Then /\ order[o] \in Row
        /\ Sound(r, order[o], e, l)
        /\ r.pc \in {"confirm.wallet", "cancel.wallet", "confirm.tx", "assign", "startVendor",
                     "stamp", "complete.escrow"}
    BY SoundInFlight DEF ConfirmWallet, CancelWallet, ConfirmRollback, StartRepAssignment,
                         StartVendorAssignment, StampNotice, CompleteEscrow
  <1>2. UNCHANGED <<order, escrow, ledger>>
    BY DEF ConfirmWallet, CancelWallet, ConfirmRollback, StartRepAssignment,
           StartVendorAssignment, StampNotice, CompleteEscrow, rows
  <1>3. r.then = "done" /\ Accounts(o, order[o], e, l)
    BY <1>1 DEF Sound, Knows, Explains, LastLeg, Between
  <1>4. ASSUME NEW x, Enter(p, x),
               \/ x = NoRequest
               \/ x \in Request /\ x.id = o /\ Sound(x, order[o], e, l)
        PROVE  Audited'
    BY <1>1, <1>2, <1>3, <1>4, MoveKeepsAudited
  <1>5. CASE ConfirmWallet(p) \/ CancelWallet(p)
    <2> DEFINE x(pc) == [r EXCEPT !.pc = pc, !.bal = b]
    <2>1. b \in Int
      BY <1>1, ConstantsOK DEF IInv, TypeOK
    <2>2. /\ r.pc \in {"confirm.wallet", "cancel.wallet"}
          /\ \/ r.pc = "confirm.wallet" /\ Enter(p, x("confirm.tx"))
             \/ r.pc = "cancel.wallet" /\ Enter(p, x("cancel.tx"))
             \/ Enter(p, NoRequest)
      BY <1>5 DEF ConfirmWallet, CancelWallet, At, Finish
    <2>3. ASSUME NEW pc \in {"confirm.tx", "cancel.tx"},
                 pc = "confirm.tx" => r.pc = "confirm.wallet",
                 pc = "cancel.tx" => r.pc = "cancel.wallet"
          PROVE  x(pc) \in Request /\ x(pc).id = o /\ Sound(x(pc), order[o], e, l)
      <3>1. /\ x(pc) \in Request /\ x(pc).id = o /\ x(pc).pc = pc /\ x(pc).row = r.row
            /\ x(pc).then = r.then
        BY <1>1, <2>1 DEF Request, Pc
      <3> DEFINE y == x(pc)
      <3> HIDE DEF y
      <3>2. Knows(y, order[o])
        BY <1>1, <1>3, <2>3, <3>1
           DEF Sound, Knows, LastLeg, InConfirm, InCancel, InComplete, InAbandon, y
      <3>3. Sound(y, order[o], e, l)
        BY <1>3, <3>1, <3>2, QuietSound DEF Between, y
      <3> QED
        BY <3>1, <3>3 DEF y
    <2> QED
      BY <1>4, <2>2, <2>3
  <1>6. CASE ConfirmRollback(p)
    BY <1>4, <1>6 DEF ConfirmRollback, Finish
  <1>7. CASE StartRepAssignment(p)
    <2>1. /\ Reading(o, "BROADCASTING_REP", "done") \in Request
          /\ Reading(o, "BROADCASTING_REP", "done").id = o
      BY <1>1, ReadingFields DEF Status, Then
    <2>2. Sound(Reading(o, "BROADCASTING_REP", "done"), order[o], e, l)
      BY <1>1, <1>3, ReadSound DEF Reads
    <2> QED
      BY <1>4, <1>7, <2>1, <2>2 DEF StartRepAssignment, Finish
  <1>8. CASE StartVendorAssignment(p)
    <2>1. /\ Reading(o, "BROADCASTING_VENDOR", "done") \in Request
          /\ Reading(o, "BROADCASTING_VENDOR", "done").id = o
      BY <1>1, ReadingFields DEF Status, Then
    <2>2. Sound(Reading(o, "BROADCASTING_VENDOR", "done"), order[o], e, l)
      BY <1>1, <1>3, ReadSound DEF Reads
    <2>3. order[o].status = "REP_ASSIGNED"
      BY <1>1, <1>8 DEF StartVendorAssignment, At, Sound, Knows
    <2> DEFINE w == [order[o] EXCEPT !.status = "VENDOR_ASSIGNED"]
               x == Saving(o, w, "schedule")
    <2>4. w \in Row /\ w.status = "VENDOR_ASSIGNED"
      BY <1>1, RowChange DEF Status
    <2>5. Accounts(o, w, e, l)
      <3>1. order[o].status \in InService /\ w.status \in InService
        BY <2>3, <2>4 DEF InService, Status
      <3> HIDE DEF w, e, l, r
      <3> QED
        BY <1>1, <1>3, <2>4, <3>1, MovesInService
    <2>6. Enter(p, x) \/ Enter(p, Reading(o, "BROADCASTING_VENDOR", "done"))
      BY <1>8 DEF StartVendorAssignment
    <2> HIDE DEF w
    <2>7. x \in Request /\ x.pc = "save" /\ x.id = o /\ x.row = w /\ x.then = "schedule"
      BY <1>1, <2>4, InServiceTargets, SavingFields
    <2>8. Moves(order[o].status, w.status)
      BY <2>3, <2>4 DEF Moves, AssignmentMove
    <2> HIDE DEF x
    <2>9. Sound(x, order[o], e, l)
      BY <1>3, <2>5, <2>7, <2>8, SaveSound
    <2> QED
      BY <1>4, <2>1, <2>2, <2>6, <2>7, <2>9
  <1>9. CASE StampNotice(p)
    <2> DEFINE n == order[o].uncollectedNoticeCount
               w == [order[o] EXCEPT !.uncollectedNoticeCount = IF n = 0 THEN 1 ELSE n]
               x == Saving(o, w, "done")
    <2>1. /\ w \in Row /\ w.status = order[o].status
          /\ w.vendorShareWP = order[o].vendorShareWP /\ w.repShareWP = order[o].repShareWP
      BY <1>1 DEF Row
    <2>2. Enter(p, x)
      BY <1>9 DEF StampNotice
    <2> HIDE DEF w
    <2>3. x \in Request /\ x.pc = "save" /\ x.id = o /\ x.row = w /\ x.then = "done"
      BY <1>1, <2>1, InServiceTargets, SavingFields
    <2>4. Accounts(o, w, e, l) /\ Moves(order[o].status, w.status)
      BY <1>3, <2>1 DEF Accounts, Earned, Moves
    <2> HIDE DEF x
    <2>5. Sound(x, order[o], e, l)
      BY <1>3, <2>3, <2>4, SaveSound
    <2> QED
      BY <1>4, <2>2, <2>3, <2>5
  <1>10. CASE CompleteEscrow(p)
    <2> DEFINE x == [r EXCEPT !.pc = "complete.vendor"]
    <2>1. Enter(p, x) /\ r.pc = "complete.escrow"
      BY <1>10 DEF CompleteEscrow, Goto, At
    <2>2. /\ x \in Request /\ x.id = o /\ x.pc = "complete.vendor" /\ x.row = r.row
          /\ x.then = r.then
      BY <1>1 DEF Request, Pc
    <2> HIDE DEF x
    <2>3. Knows(x, order[o])
      BY <1>1, <1>3, <2>1, <2>2
         DEF Sound, Knows, LastLeg, InConfirm, InCancel, InComplete, InAbandon
    <2>4. Sound(x, order[o], e, l)
      BY <1>3, <2>2, <2>3, QuietSound DEF Between
    <2> QED
      BY <1>4, <2>1, <2>2, <2>4
  <1> QED
    BY <1>5, <1>6, <1>7, <1>8, <1>9, <1>10

(* A ledger row adds one to its own column.                                *)
LEMMA Credited ==
  ASSUME IInv, NEW o \in Orders
  PROVE  /\ \A s : Count(o, s) => \A q \in Orders \ {o} : ledger'[q] = ledger[q]
         /\ Count(o, "vendor") =>
              /\ ledger'[o].debit = ledger[o].debit /\ ledger'[o].refund = ledger[o].refund
              /\ ledger'[o].vendor = ledger[o].vendor + 1 /\ ledger'[o].rep = ledger[o].rep
              /\ ledger'[o].transport = ledger[o].transport
         /\ Count(o, "rep") =>
              /\ ledger'[o].debit = ledger[o].debit /\ ledger'[o].refund = ledger[o].refund
              /\ ledger'[o].vendor = ledger[o].vendor /\ ledger'[o].rep = ledger[o].rep + 1
              /\ ledger'[o].transport = ledger[o].transport
         /\ Count(o, "transport") =>
              /\ ledger'[o].debit = ledger[o].debit /\ ledger'[o].refund = ledger[o].refund
              /\ ledger'[o].vendor = ledger[o].vendor /\ ledger'[o].rep = ledger[o].rep
              /\ ledger'[o].transport = ledger[o].transport + 1
         /\ Count(o, "debit") =>
              /\ ledger'[o].debit = ledger[o].debit + 1 /\ ledger'[o].refund = ledger[o].refund
              /\ ledger'[o].vendor = ledger[o].vendor /\ ledger'[o].rep = ledger[o].rep
              /\ ledger'[o].transport = ledger[o].transport
         /\ Count(o, "refund") =>
              /\ ledger'[o].debit = ledger[o].debit /\ ledger'[o].refund = ledger[o].refund + 1
              /\ ledger'[o].vendor = ledger[o].vendor /\ ledger'[o].rep = ledger[o].rep
              /\ ledger'[o].transport = ledger[o].transport
  BY DEF Count, IInv, TypeOK, Ledger

-----------------------------------------------------------------------------
(* The steps that move money.                                              *)

LEMMA ConfirmAudited ==
  ASSUME IInv, Apart, Apart', Audited, NEW p \in Procs, ConfirmCommit(p)
  PROVE  Audited'
  <1> DEFINE r == req[p]
             o == r.id
             w == [r.row EXCEPT !.status = "PAID"]
             x == Fresh("assign", o)
  <1>1. /\ r # NoRequest /\ r.pc = "confirm.tx" /\ o \in Orders /\ r.row \in Row
        /\ order \in [Orders -> Row] /\ order[o] \in Row
        /\ Sound(r, order[o], escrow[o], ledger[o])
    BY SoundInFlight DEF ConfirmCommit
  <1>2. /\ order[o].status = "PENDING_PAYMENT" /\ Accounts(o, order[o], escrow[o], ledger[o])
    BY <1>1 DEF Sound, Knows, Explains, LastLeg, InConfirm, Between
  <1>3. /\ NotCharged(escrow[o], ledger[o]) /\ Earned(o, order[o], ledger[o], 0, 0, 0)
    BY <1>1, <1>2, AccountsByStatus
  <1>4. /\ Enter(p, x) /\ Count(o, "debit")
        /\ order' = [order EXCEPT ![o] = w] /\ escrow' = [escrow EXCEPT ![o] = "held"]
    BY DEF ConfirmCommit
  <1>5. w \in Row /\ w.status = "PAID" /\ w.status \in InService
    <2>1. "PAID" \in Status /\ "PAID" \in InService
      BY DEF Status, InService
    <2> QED
      BY <1>1, <2>1, RowChange
  <1> HIDE DEF w
  <1>6. /\ order'[o] = w /\ escrow'[o] = "held"
        /\ \A q \in Orders \ {o} : /\ order'[q] = order[q] /\ escrow'[q] = escrow[q]
                                   /\ ledger'[q] = ledger[q]
    BY <1>1, <1>4, Credited DEF IInv, TypeOK
  <1>7. Held(escrow'[o], ledger'[o])
    BY <1>1, <1>3, <1>4, <1>6, Credited DEF Held, NotCharged
  <1>8. Earned(o, w, ledger'[o], 0, 0, 0)
    <2>1. Earned(o, w, ledger[o], 0, 0, 0)
      BY <1>3, NothingEarned
    <2> QED
      BY <1>1, <1>4, <2>1, Credited DEF Earned
  <1>9. Accounts(o, order'[o], escrow'[o], ledger'[o])
    <2> HIDE DEF o
    <2> QED
      BY <1>1, <1>5, <1>6, <1>7, <1>8, AccountsByStatus
  <1>10. Sound(x, order'[o], escrow'[o], ledger'[o])
    BY <1>1, <1>9, FreshSound
  <1>11. x \in Request /\ x.id = o
    BY <1>1, FreshFields DEF Pc
  <1> QED
    BY <1>1, <1>4, <1>6, <1>10, <1>11, WriteKeepsAudited

LEMMA CancelAudited ==
  ASSUME IInv, Apart, Apart', Audited, NEW p \in Procs, CancelCommit(p)
  PROVE  Audited'
  <1> DEFINE r == req[p]
             o == r.id
  <1>1. /\ r # NoRequest /\ r.pc = "cancel.tx" /\ o \in Orders /\ r.row \in Row
        /\ order \in [Orders -> Row] /\ order[o] \in Row
        /\ Sound(r, order[o], escrow[o], ledger[o])
    BY SoundInFlight DEF CancelCommit
  <1>2. /\ r.row = [order[o] EXCEPT !.status = "CANCELLED"]
        /\ order[o].status \in Cancellable \ {"PENDING_PAYMENT"}
        /\ Accounts(o, order[o], escrow[o], ledger[o])
    BY <1>1 DEF Sound, Knows, Explains, LastLeg, InCancel, Between
  <1>3. order[o].status \in InService /\ r.row.status = "CANCELLED"
    BY <1>1, <1>2 DEF Cancellable, Allowed, InService, Row
  <1>4. /\ Held(escrow[o], ledger[o]) /\ Earned(o, order[o], ledger[o], 0, 0, 0)
    BY <1>1, <1>2, <1>3, AccountsByStatus
  <1>5. /\ Enter(p, NoRequest) /\ Count(o, "refund")
        /\ order' = [order EXCEPT ![o] = r.row] /\ escrow' = [escrow EXCEPT ![o] = "refunded"]
    BY <1>4 DEF CancelCommit, SetEscrow, Finish, Held
  <1>6. /\ order'[o] = r.row /\ escrow'[o] = "refunded"
        /\ \A q \in Orders \ {o} : /\ order'[q] = order[q] /\ escrow'[q] = escrow[q]
                                   /\ ledger'[q] = ledger[q]
    BY <1>1, <1>5, Credited DEF IInv, TypeOK
  <1>7. Refunded(escrow'[o], ledger'[o])
    BY <1>1, <1>4, <1>5, <1>6, Credited DEF Held, Refunded
  <1>8. Earned(o, r.row, ledger'[o], 0, 0, 0)
    <2>1. Earned(o, r.row, ledger[o], 0, 0, 0)
      BY <1>4, NothingEarned
    <2> QED
      BY <1>1, <1>5, <2>1, Credited DEF Earned
  <1>9. Accounts(o, order'[o], escrow'[o], ledger'[o])
    <2> HIDE DEF o, r
    <2> QED
      BY <1>1, <1>3, <1>6, <1>7, <1>8, AccountsByStatus
  <1> QED
    BY <1>1, <1>5, <1>6, <1>9, WriteKeepsAudited

(* One more credit among those of completeOrder.                           *)
LEMMA CompletionAudited ==
  ASSUME IInv, Apart, Apart', Audited, NEW p \in Procs,
         CompleteVendor(p) \/ CompleteRep(p) \/ CompleteTransport(p)
  PROVE  Audited'
  <1> DEFINE r == req[p]
             o == r.id
             x(pc) == [r EXCEPT !.pc = pc]
  <1>1. /\ r # NoRequest /\ r \in Request /\ o \in Orders /\ r.row \in Row
        /\ order[o] \in Row /\ Sound(r, order[o], escrow[o], ledger[o])
        /\ r.pc \in {"complete.vendor", "complete.rep", "complete.transport"}
    BY SoundInFlight DEF CompleteVendor, CompleteRep, CompleteTransport
  <1>2. /\ r.then = "done" /\ r.row = order[o] /\ order[o].status = "DELIVERED"
        /\ SplitKnown(order[o])
    BY <1>1 DEF Sound, Knows, InComplete
  <1>3. order[o].vendorShareWP > 0 /\ order[o].repShareWP > 0
    BY <1>1, <1>2 DEF SplitKnown, Row
  <1>4. UNCHANGED <<order, escrow>>
    BY DEF CompleteVendor, CompleteRep, CompleteTransport
  <1>5. ASSUME NEW pc \in {"complete.rep", "complete.transport", "complete.tx"}, Goto(p, pc),
               \A q \in Orders \ {o} : ledger'[q] = ledger[q],
               Held(escrow[o], ledger'[o]),
               pc = "complete.rep" => Earned(o, order[o], ledger'[o], 1, 0, 0),
               pc = "complete.transport" => Earned(o, order[o], ledger'[o], 1, 1, 0),
               pc = "complete.tx" => Earned(o, order[o], ledger'[o], 1, 1, 1)
        PROVE  Audited'
    <2>1. /\ x(pc) \in Request /\ x(pc).id = o /\ x(pc).pc = pc /\ x(pc).row = r.row
          /\ x(pc).then = "done" /\ Enter(p, x(pc))
      BY <1>1, <1>2, <1>5 DEF Request, Pc, Goto
    <2> DEFINE y == x(pc)
    <2> HIDE DEF y
    <2>2. Knows(y, order[o])
      BY <1>2, <2>1 DEF Knows, InConfirm, InCancel, InComplete, InAbandon, y
    <2>3. Explains(y, order[o], escrow[o], ledger'[o])
      BY <1>5, <2>1 DEF Explains, LastLeg, Between, y
    <2> QED
      BY <1>1, <1>4, <1>5, <2>1, <2>2, <2>3, WriteKeepsAudited DEF Sound, y
  <1>6. CASE CompleteVendor(p)
    <2>1. Count(o, "vendor") /\ Goto(p, "complete.rep") /\ r.pc = "complete.vendor"
      BY <1>6 DEF CompleteVendor, At
    <2>2. Held(escrow[o], ledger[o]) /\ Earned(o, order[o], ledger[o], 0, 0, 0)
      <3>1. Accounts(o, order[o], escrow[o], ledger[o]) /\ order[o].status \in InService
        BY <1>1, <1>2, <2>1 DEF Sound, Explains, LastLeg, Between, InService, Status
      <3> QED
        BY <1>1, <3>1, AccountsByStatus
    <2>3. Held(escrow[o], ledger'[o]) /\ Earned(o, order[o], ledger'[o], 1, 0, 0)
      BY <1>1, <1>3, <2>1, <2>2, Credited DEF Held, Earned, Due
    <2>4. \A q \in Orders \ {o} : ledger'[q] = ledger[q]
      BY <1>1, <2>1, Credited
    <2> QED
      BY <1>5, <2>1, <2>3, <2>4
  <1>7. CASE CompleteRep(p)
    <2>1. Count(o, "rep") /\ Goto(p, "complete.transport") /\ r.pc = "complete.rep"
      BY <1>7 DEF CompleteRep, At
    <2>2. Held(escrow[o], ledger[o]) /\ Earned(o, order[o], ledger[o], 1, 0, 0)
      BY <1>1, <2>1 DEF Sound, Explains
    <2>3. Held(escrow[o], ledger'[o]) /\ Earned(o, order[o], ledger'[o], 1, 1, 0)
      BY <1>1, <1>3, <2>1, <2>2, Credited DEF Held, Earned, Due
    <2>4. \A q \in Orders \ {o} : ledger'[q] = ledger[q]
      BY <1>1, <2>1, Credited
    <2> QED
      BY <1>5, <2>1, <2>3, <2>4
  <1>8. CASE CompleteTransport(p)
    <2>1. CreditTransport(o) /\ Goto(p, "complete.tx") /\ r.pc = "complete.transport"
      BY <1>8 DEF CompleteTransport, At
    <2>2. Held(escrow[o], ledger[o]) /\ Earned(o, order[o], ledger[o], 1, 1, 0)
      BY <1>1, <2>1 DEF Sound, Explains
    <2>3. /\ Held(escrow[o], ledger'[o]) /\ Earned(o, order[o], ledger'[o], 1, 1, 1)
          /\ \A q \in Orders \ {o} : ledger'[q] = ledger[q]
      <3>1. CASE TransportWP[o] > 0
        BY <1>1, <2>1, <2>2, <3>1, Credited DEF CreditTransport, Held, Earned, Due
      <3>2. CASE ~(TransportWP[o] > 0)
        BY <2>1, <2>2, <3>2 DEF CreditTransport, Held, Earned, Due
      <3> QED
        BY <3>1, <3>2
    <2> QED
      BY <1>5, <2>1, <2>3
  <1> QED
    BY <1>6, <1>7, <1>8

LEMMA CompleteCommitAudited ==
  ASSUME IInv, Apart, Apart', Audited, NEW p \in Procs, CompleteCommit(p)
  PROVE  Audited'
  <1> DEFINE r == req[p]
             o == r.id
             w == [r.row EXCEPT !.status = "COMPLETED"]
  <1>1. /\ r # NoRequest /\ r.pc = "complete.tx" /\ o \in Orders /\ r.row \in Row
        /\ order \in [Orders -> Row] /\ order[o] \in Row
        /\ Sound(r, order[o], escrow[o], ledger[o])
    BY SoundInFlight DEF CompleteCommit
  <1>2. /\ r.row = order[o] /\ Held(escrow[o], ledger[o])
        /\ Earned(o, order[o], ledger[o], 1, 1, 1)
    BY <1>1 DEF Sound, Knows, Explains, InComplete
  <1>3. /\ w \in Row /\ w.status = "COMPLETED"
        /\ w.vendorShareWP = order[o].vendorShareWP /\ w.repShareWP = order[o].repShareWP
    <2>1. "COMPLETED" \in Status
      BY DEF Status
    <2> QED
      BY <1>1, <1>2, <2>1, RowChange
  <1>4. /\ Enter(p, NoRequest) /\ UNCHANGED ledger
        /\ order' = [order EXCEPT ![o] = w] /\ escrow' = [escrow EXCEPT ![o] = "released"]
    BY <1>2 DEF CompleteCommit, SetEscrow, Finish, Held
  <1> HIDE DEF w
  <1>5. /\ order'[o] = w /\ escrow'[o] = "released"
        /\ \A q \in Orders \ {o} : order'[q] = order[q] /\ escrow'[q] = escrow[q]
    BY <1>1, <1>4 DEF IInv, TypeOK
  <1>6. Released(escrow'[o], ledger[o]) /\ Earned(o, w, ledger[o], 1, 1, 1)
    BY <1>2, <1>3, <1>5, SameShares DEF Held, Released
  <1>7. Accounts(o, order'[o], escrow'[o], ledger'[o])
    <2> HIDE DEF o, r
    <2> QED
      BY <1>1, <1>3, <1>4, <1>5, <1>6, AccountsByStatus
  <1> QED
    BY <1>1, <1>4, <1>5, <1>7, WriteKeepsAudited

LEMMA AbandonAudited ==
  ASSUME IInv, Apart, Apart', Audited, NEW p \in Procs,
         AbandonEscrow(p) \/ AbandonVendor(p) \/ AbandonRep(p) \/ AbandonTransport(p)
  PROVE  Audited'
  <1> DEFINE r == req[p]
             o == r.id
             x(pc) == [r EXCEPT !.pc = pc]
  <1>1. /\ r # NoRequest /\ r \in Request /\ o \in Orders /\ r.row \in Row
        /\ order[o] \in Row /\ Sound(r, order[o], escrow[o], ledger[o])
        /\ r.pc \in {"abandon.escrow", "abandon.vendor", "abandon.rep", "abandon.transport"}
    BY SoundInFlight DEF AbandonEscrow, AbandonVendor, AbandonRep, AbandonTransport
  <1>2. /\ r.then = "done"
        /\ r.pc # "abandon.transport" => r.row = order[o] /\ order[o].status = "DELIVERY_FAILED"
    BY <1>1 DEF Sound, Knows, InAbandon
  <1>3. UNCHANGED order
    BY DEF AbandonEscrow, AbandonVendor, AbandonRep, AbandonTransport
  <1>4. ASSUME NEW pc \in {"abandon.vendor", "abandon.rep"}, Goto(p, pc),
               r.pc # "abandon.transport",
               \A q \in Orders \ {o} : escrow'[q] = escrow[q] /\ ledger'[q] = ledger[q],
               Released(escrow'[o], ledger'[o]),
               pc = "abandon.vendor" => Earned(o, order[o], ledger'[o], 0, 0, 0),
               pc = "abandon.rep" => Earned(o, order[o], ledger'[o], 1, 0, 0)
        PROVE  Audited'
    <2>1. /\ x(pc) \in Request /\ x(pc).id = o /\ x(pc).pc = pc /\ x(pc).row = r.row
          /\ x(pc).then = "done" /\ Enter(p, x(pc))
      BY <1>1, <1>2, <1>4 DEF Request, Pc, Goto
    <2> DEFINE y == x(pc)
    <2> HIDE DEF y
    <2>2. Knows(y, order[o])
      BY <1>2, <1>4, <2>1 DEF Knows, InConfirm, InCancel, InComplete, InAbandon, y
    <2>3. Explains(y, order[o], escrow'[o], ledger'[o])
      BY <1>4, <2>1 DEF Explains, LastLeg, Between, y
    <2> QED
      BY <1>1, <1>3, <1>4, <2>1, <2>2, <2>3, WriteKeepsAudited DEF Sound, y
  <1>5. CASE AbandonEscrow(p)
    <2>1. r.pc = "abandon.escrow" /\ Goto(p, "abandon.vendor") /\ UNCHANGED ledger
      BY <1>5 DEF AbandonEscrow, At
    <2>2. Held(escrow[o], ledger[o]) /\ Earned(o, order[o], ledger[o], 0, 0, 0)
      <3>1. Accounts(o, order[o], escrow[o], ledger[o]) /\ order[o].status \in InService
        BY <1>1, <1>2, <2>1 DEF Sound, Explains, LastLeg, Between, InService, Status
      <3> QED
        BY <1>1, <3>1, AccountsByStatus
    <2>3. escrow' = [escrow EXCEPT ![o] = "released"]
      BY <1>5, <2>2 DEF AbandonEscrow, SetEscrow, Held
    <2>4. /\ Released(escrow'[o], ledger'[o])
          /\ \A q \in Orders \ {o} : escrow'[q] = escrow[q]
      BY <1>1, <2>1, <2>2, <2>3 DEF IInv, TypeOK, Held, Released
    <2> QED
      BY <1>2, <1>4, <2>1, <2>2, <2>4
  <1>6. CASE AbandonVendor(p)
    <2>1. /\ r.pc = "abandon.vendor" /\ Goto(p, "abandon.rep") /\ UNCHANGED escrow
          /\ IF r.row.vendorShareWP > 0 THEN Count(o, "vendor") ELSE UNCHANGED ledger
      BY <1>6 DEF AbandonVendor, At
    <2>2. Released(escrow[o], ledger[o]) /\ Earned(o, order[o], ledger[o], 0, 0, 0)
      BY <1>1, <2>1 DEF Sound, Explains
    <2>3. /\ Released(escrow[o], ledger'[o]) /\ Earned(o, order[o], ledger'[o], 1, 0, 0)
          /\ \A q \in Orders \ {o} : ledger'[q] = ledger[q]
      <3>1. CASE r.row.vendorShareWP > 0
        BY <1>1, <1>2, <2>1, <2>2, <3>1, Credited DEF Released, Earned, Due
      <3>2. CASE ~(r.row.vendorShareWP > 0)
        BY <1>2, <2>1, <2>2, <3>2 DEF Released, Earned, Due
      <3> QED
        BY <3>1, <3>2
    <2> QED
      BY <1>4, <2>1, <2>3
  <1>7. CASE AbandonRep(p)
    <2> DEFINE y == Reading(o, "ABANDONED", "abandon.transport")
    <2>1. /\ r.pc = "abandon.rep" /\ Enter(p, y) /\ UNCHANGED escrow
          /\ IF r.row.repShareWP > 0 THEN Count(o, "rep") ELSE UNCHANGED ledger
      BY <1>7 DEF AbandonRep, At
    <2>2. Released(escrow[o], ledger[o]) /\ Earned(o, order[o], ledger[o], 1, 0, 0)
      BY <1>1, <2>1 DEF Sound, Explains
    <2>3. /\ Released(escrow[o], ledger'[o]) /\ Earned(o, order[o], ledger'[o], 1, 1, 0)
          /\ \A q \in Orders \ {o} : ledger'[q] = ledger[q]
      <3>1. CASE r.row.repShareWP > 0
        BY <1>1, <1>2, <2>1, <2>2, <3>1, Credited DEF Released, Earned, Due
      <3>2. CASE ~(r.row.repShareWP > 0)
        BY <1>2, <2>1, <2>2, <3>2 DEF Released, Earned, Due
      <3> QED
        BY <3>1, <3>2
    <2>4. /\ y \in Request /\ y.pc = "read" /\ y.id = o /\ y.to = "ABANDONED"
          /\ y.then = "abandon.transport"
      BY <1>1, ReadingFields DEF Status, Then
    <2> HIDE DEF y
    <2>5. Sound(y, order[o], escrow[o], ledger'[o])
      BY <1>2, <2>1, <2>3, <2>4
         DEF Sound, Knows, Explains, LastLeg, InConfirm, InCancel, InComplete, InAbandon, Between
    <2> QED
      BY <1>1, <1>3, <2>1, <2>3, <2>4, <2>5, WriteKeepsAudited
  <1>8. CASE AbandonTransport(p)
    <2> DEFINE y == Saving(o, order[o], "done")
    <2>1. /\ r.pc = "abandon.transport" /\ Enter(p, y) /\ UNCHANGED escrow
          /\ CreditTransport(o)
      BY <1>8 DEF AbandonTransport, At
    <2>2. /\ Released(escrow[o], ledger[o]) /\ Earned(o, order[o], ledger[o], 1, 1, 0)
          /\ order[o].status = "ABANDONED"
      BY <1>1, <2>1 DEF Sound, Knows, Explains, LastLeg
    <2>3. /\ Released(escrow[o], ledger'[o]) /\ Earned(o, order[o], ledger'[o], 1, 1, 1)
          /\ \A q \in Orders \ {o} : ledger'[q] = ledger[q]
      <3>1. CASE TransportWP[o] > 0
        BY <1>1, <2>1, <2>2, <3>1, Credited DEF CreditTransport, Released, Earned, Due
      <3>2. CASE ~(TransportWP[o] > 0)
        BY <2>1, <2>2, <3>2 DEF CreditTransport, Released, Earned, Due
      <3> QED
        BY <3>1, <3>2
    <2>4. y \in Request /\ y.pc = "save" /\ y.id = o /\ y.row = order[o] /\ y.then = "done"
      BY <1>1, InServiceTargets, SavingFields
    <2>5. Accounts(o, order[o], escrow[o], ledger'[o])
      BY <1>1, <2>2, <2>3, AccountsByStatus
    <2> HIDE DEF y
    <2>6. Sound(y, order[o], escrow[o], ledger'[o])
      BY <2>4, <2>5, SaveSound DEF Moves
    <2> QED
      BY <1>1, <1>3, <2>1, <2>3, <2>4, <2>6, WriteKeepsAudited
  <1> QED
    BY <1>5, <1>6, <1>7, <1>8

-----------------------------------------------------------------------------
(* Every behaviour.                                                        *)

LEMMA InitAudited ==
  ASSUME Init
  PROVE  Audited
  <1>1. ASSUME NEW o \in Orders
        PROVE  Accounts(o, order[o], escrow[o], ledger[o])
    BY <1>1, ConstantsOK DEF Init, Draft, Accounts, NotCharged, Earned, Due
  <1> QED
    BY <1>1 DEF Init, Audited

LEMMA NextAudited ==
  ASSUME IInv, Apart, Apart', Audited, [Next]_vars
  PROVE  Audited'
  <1>1. ASSUME NEW p \in Procs, Step(p)
        PROVE  Audited'
    BY <1>1, SaveAudited, ReadAudited, LookAudited, ConfirmAudited, CompletionAudited,
       CompleteCommitAudited, AbandonAudited, CancelAudited DEF Step
  <1>2. ASSUME NEW p \in Procs, Fail(p)
        PROVE  FALSE
    BY <1>2 DEF Fail, Apart
  <1>3. CASE UNCHANGED <<order, escrow, ledger, req>>
    BY <1>3 DEF Audited, Unattended
  <1>4. ASSUME NEW p \in Procs, NEW c \in Customers, TopUp(p, c)
        PROVE  Audited'
    BY <1>3, <1>4 DEF TopUp
  <1> QED
    BY <1>1, <1>2, <1>3, <1>4, CallsKeepAudited DEF Next, vars

(* While requests keep apart, every order is accounted for: by its status, *)
(* or by its status and the request at work on it.                         *)
THEOREM AuditInvariance == Spec /\ []Apart => []Audited
  BY InitAudited, NextAudited, Inductive, PTL DEF Spec

(* While no two requests on an order overlap and none dies, the status of  *)
(* every order says exactly where its money is whenever nobody is at work, *)
(* for any number of orders, any prices and shares, and any overlaps of    *)
(* requests on different orders of one wallet.                             *)
THEOREM StatusTellsTheMoney == Spec /\ []Apart => []Reconciled
  <1>1. Audited => Reconciled
    BY DEF Audited, Reconciled, Idle, Unattended
  <1> QED
    BY <1>1, AuditInvariance, PTL

(* The moves of a step.                                                    *)
LEMMA StepMoves ==
  ASSUME IInv, Audited, [Next]_vars, NEW o \in Orders
  PROVE  Moves(order[o].status, order'[o].status)
  <1>1. ASSUME NEW p \in Procs, Save(p)
        PROVE  Moves(order[o].status, order'[o].status)
    <2> DEFINE r == req[p]
    <2>1. /\ r.pc = "save" /\ r.id \in Orders /\ order \in [Orders -> Row]
          /\ Sound(r, order[r.id], escrow[r.id], ledger[r.id])
      BY <1>1, SoundInFlight DEF Save
    <2>2. order' = [order EXCEPT ![r.id] = r.row]
      BY <1>1 DEF Save
    <2>3. Moves(order[r.id].status, r.row.status)
      <3>1. CASE LastLeg(r)
        <4>1. r.row.status = "ABANDONED" /\ order[r.id].status = "DELIVERY_FAILED"
          BY <2>1, <3>1 DEF Sound, Knows, Row
        <4> QED
          BY <4>1 DEF Moves, Allowed
      <3>2. CASE ~LastLeg(r)
        BY <2>1, <3>2 DEF Sound, Knows
      <3> QED
        BY <3>1, <3>2
    <2> QED
      BY <2>1, <2>2, <2>3 DEF Moves
  <1>2. ASSUME NEW p \in Procs, ConfirmCommit(p) \/ CompleteCommit(p) \/ CancelCommit(p)
        PROVE  Moves(order[o].status, order'[o].status)
    <2> DEFINE r == req[p]
               s == order[r.id].status
    <2>1. /\ r.id \in Orders /\ order \in [Orders -> Row] /\ r.row \in Row
          /\ Sound(r, order[r.id], escrow[r.id], ledger[r.id])
          /\ \/ r.pc = "confirm.tx" /\ ConfirmCommit(p)
             \/ r.pc = "complete.tx" /\ CompleteCommit(p)
             \/ r.pc = "cancel.tx" /\ CancelCommit(p)
      BY <1>2, SoundInFlight DEF ConfirmCommit, CompleteCommit, CancelCommit
    <2>2. PICK w : order' = [order EXCEPT ![r.id] = w] /\ Moves(s, w.status)
      <3>1. CASE ConfirmCommit(p)
        <4> DEFINE w == [r.row EXCEPT !.status = "PAID"]
        <4>1. order' = [order EXCEPT ![r.id] = w] /\ w.status = "PAID"
          BY <2>1, <3>1 DEF ConfirmCommit, Row
        <4>2. s = "PENDING_PAYMENT"
          BY <2>1, <3>1 DEF ConfirmCommit, At, Sound, Knows, InConfirm
        <4> HIDE DEF w
        <4> QED
          BY <4>1, <4>2 DEF Moves, Allowed
      <3>2. CASE CompleteCommit(p)
        <4> DEFINE w == [r.row EXCEPT !.status = "COMPLETED"]
        <4>1. order' = [order EXCEPT ![r.id] = w] /\ w.status = "COMPLETED"
          BY <2>1, <3>2 DEF CompleteCommit, Row
        <4>2. s = "DELIVERED"
          BY <2>1, <3>2 DEF CompleteCommit, At, Sound, Knows, InComplete
        <4> HIDE DEF w
        <4> QED
          BY <4>1, <4>2 DEF Moves, Allowed
      <3>3. CASE CancelCommit(p)
        <4>1. order' = [order EXCEPT ![r.id] = r.row]
          BY <3>3 DEF CancelCommit
        <4>2. s \in Cancellable /\ r.row.status = "CANCELLED"
          BY <2>1, <3>3 DEF CancelCommit, At, Sound, Knows, InCancel, Row
        <4> QED
          BY <4>1, <4>2 DEF Moves, Cancellable
      <3> QED
        BY <2>1, <3>1, <3>2, <3>3
    <2> QED
      BY <2>1, <2>2 DEF Moves
  <1>3. CASE UNCHANGED order
    BY <1>3 DEF Moves
  <1>4. ASSUME NEW p \in Procs, Step(p)
        PROVE  Moves(order[o].status, order'[o].status)
    BY <1>1, <1>2, <1>3, <1>4
       DEF Step, TransitionRead, ConfirmWallet, ConfirmRollback, StartRepAssignment,
           StartVendorAssignment, StampNotice, CompleteEscrow, CompleteVendor, CompleteRep,
           CompleteTransport, AbandonEscrow, AbandonVendor, AbandonRep, AbandonTransport,
           CancelWallet, rows
  <1>5. ASSUME NEW p \in Procs, NEW q \in Orders, Start(p, q)
        PROVE  UNCHANGED order
    BY <1>5, StartChangesNoRow DEF rows
  <1>6. ASSUME NEW p \in Procs, Fail(p) \/ \E c \in Customers : TopUp(p, c)
        PROVE  UNCHANGED order
    BY <1>6 DEF Fail, TopUp, rows
  <1> QED
    BY <1>3, <1>4, <1>5, <1>6 DEF Next, vars

(* While no two requests on an order overlap and none dies, the status     *)
(* changes only along ALLOWED_TRANSITIONS or by an assignment, though      *)
(* every handler saves the row it loaded before an await.                  *)
THEOREM StatusFollowsTable == Spec /\ []Apart => StatusMachine
  <1>1. IInv /\ Audited /\ [Next]_vars
          => [\A o \in Orders :
                LET s == order[o].status
                    t == order'[o].status IN
                  s # t => t \in Allowed(s) \/ AssignmentMove(s, t)]_vars
    BY StepMoves DEF Moves
  <1> QED
    BY <1>1, AuditInvariance, Inductive, PTL DEF Spec, StatusMachine

-----------------------------------------------------------------------------
(* The contract.  The copy of a balance that confirmPayment and            *)
(* cancelOrder write back is the balance, as long as nothing else moves    *)
(* the wallet while a request of its customer is in flight.                *)

(* No request has died, and no customer has two requests in flight.        *)
OneAtATime ==
  /\ failures = 0
  /\ \A p, q \in Procs :
       /\ req[p] # NoRequest /\ req[q] # NoRequest
       /\ Owner[req[p].id] = Owner[req[q].id]
       => p = q

(* No wallet is topped up while a request of its customer is in flight.    *)
TopUpsWait ==
  \A c \in Customers : topUps'[c] # topUps[c] =>
    \A p \in Procs : req[p] # NoRequest => Owner[req[p].id] # c

UpToDate ==
  \A p \in Procs :
    req[p] # NoRequest /\ req[p].pc \in {"confirm.tx", "cancel.tx"}
      => req[p].bal = wallet[Owner[req[p].id]]

LEMMA OneAtATimeIsApart == OneAtATime => Apart
  BY DEF OneAtATime, Apart

(* A step that leaves the other customers' wallets alone keeps their       *)
(* requests up to date.                                                    *)
LEMMA StepKeepsUpToDate ==
  ASSUME IInv, OneAtATime, UpToDate, NEW p \in Procs, NEW x, Enter(p, x),
         \/ x = NoRequest \/ x.pc \notin {"confirm.tx", "cancel.tx"}
         \/ x.bal = wallet'[Owner[x.id]],
         \/ UNCHANGED wallet
         \/ /\ req[p] # NoRequest
            /\ \A c \in Customers \ {Owner[req[p].id]} : wallet'[c] = wallet[c]
  PROVE  UpToDate'
  <1>1. /\ req'[p] = x
        /\ \A q \in Procs \ {p} : req'[q] = req[q]
    BY DEF Enter, IInv, TypeOK
  <1>2. \A q \in Procs \ {p} :
          req[q] # NoRequest => wallet'[Owner[req[q].id]] = wallet[Owner[req[q].id]]
    <2>1. \A q \in Procs : req[q] # NoRequest => Owner[req[q].id] \in Customers
      BY ConstantsOK DEF IInv, TypeOK, Request
    <2> QED
      BY <2>1 DEF OneAtATime
  <1> QED
    BY <1>1, <1>2 DEF UpToDate

(* A request about to commit on a wallet, whose copy is up to date.        *)
LEMMA Committing ==
  ASSUME IInv, Audited, UpToDate, NEW p \in Procs, ConfirmCommit(p) \/ CancelCommit(p)
  PROVE  LET o == req[p].id
             c == Owner[o] IN
         /\ req[p] # NoRequest /\ o \in Orders /\ c \in Customers
         /\ wallet \in [Customers -> Int] /\ TotalWP[o] \in Nat
         /\ req[p].bal = wallet[c]
         /\ ConfirmCommit(p) => wallet' = [wallet EXCEPT ![c] = @ - TotalWP[o]]
         /\ CancelCommit(p) => wallet' = [wallet EXCEPT ![c] = @ + TotalWP[o]]
  <1>1. /\ req[p] # NoRequest /\ req[p].id \in Orders
        /\ req[p].pc \in {"confirm.tx", "cancel.tx"}
    BY SoundInFlight DEF ConfirmCommit, CancelCommit
  <1>2. req[p].bal = wallet[Owner[req[p].id]]
    BY <1>1 DEF UpToDate
  <1> QED
    BY <1>1, <1>2, ConstantsOK DEF IInv, TypeOK, ConfirmCommit, CancelCommit

LEMMA NextUpToDate ==
  ASSUME IInv, OneAtATime, Audited, UpToDate, [Next]_vars, [TopUpsWait]_vars
  PROVE  UpToDate'
  <1>1. ASSUME NEW p \in Procs, ConfirmWallet(p) \/ CancelWallet(p)
        PROVE  UpToDate'
    <2> DEFINE r == req[p]
               b == wallet[Owner[r.id]]
               x(pc) == [r EXCEPT !.pc = pc, !.bal = b]
    <2>1. r \in Request
      BY <1>1, SoundInFlight DEF ConfirmWallet, CancelWallet
    <2>2. /\ UNCHANGED wallet
          /\ \/ Enter(p, x("confirm.tx")) \/ Enter(p, x("cancel.tx")) \/ Enter(p, NoRequest)
      BY <1>1 DEF ConfirmWallet, CancelWallet, Finish, rows
    <2>3. \A pc : x(pc).bal = b /\ x(pc).id = r.id
      BY <2>1 DEF Request
    <2> QED
      BY <2>2, <2>3, StepKeepsUpToDate
  <1>2. ASSUME NEW p \in Procs, ConfirmCommit(p) \/ CancelCommit(p)
        PROVE  UpToDate'
    <2> DEFINE x == Fresh("assign", req[p].id)
    <2>1. x.pc = "assign"
      BY DEF Fresh
    <2>2. Enter(p, x) \/ Enter(p, NoRequest)
      BY <1>2 DEF ConfirmCommit, CancelCommit, Finish
    <2>3. /\ req[p] # NoRequest
          /\ \A c \in Customers \ {Owner[req[p].id]} : wallet'[c] = wallet[c]
      BY <1>2, Committing
    <2> QED
      BY <2>1, <2>2, <2>3, StepKeepsUpToDate
  <1>3. ASSUME NEW p \in Procs, Step(p),
               ~ConfirmWallet(p), ~ConfirmCommit(p), ~CancelWallet(p), ~CancelCommit(p)
        PROVE  UpToDate'
    BY <1>3, QuietStep, StepKeepsUpToDate DEF MovesQuietly
  <1>4. ASSUME NEW p \in Procs, NEW o \in Orders, Start(p, o)
        PROVE  UpToDate'
    BY <1>4, StartEnters, StartChangesNoRow, StepKeepsUpToDate DEF Unsettled, StartPcs, rows
  <1>5. ASSUME NEW p \in Procs, Fail(p)
        PROVE  UpToDate'
    BY <1>5, StepKeepsUpToDate DEF Fail, Finish, rows
  <1>6. ASSUME NEW p \in Procs, NEW c \in Customers, TopUp(p, c)
        PROVE  UpToDate'
    <2>1. /\ UNCHANGED req
          /\ \A d \in Customers \ {c} : wallet'[d] = wallet[d]
          /\ topUps'[c] # topUps[c]
      BY <1>6 DEF TopUp, IInv, TypeOK
    <2>2. \A q \in Procs : req[q] # NoRequest => Owner[req[q].id] \in Customers \ {c}
      BY <2>1, ConstantsOK DEF TopUpsWait, vars, IInv, TypeOK, Request
    <2> QED
      BY <2>1, <2>2 DEF UpToDate
  <1>7. CASE UNCHANGED vars
    BY <1>7 DEF vars, UpToDate
  <1> QED
    BY <1>1, <1>2, <1>3, <1>4, <1>5, <1>6, <1>7 DEF Next

(* Every step is a step of the contract or leaves wallets and escrow alone.*)
LEMMA NextContract ==
  ASSUME IInv, BInv, Audited, UpToDate, [Next]_vars
  PROVE  [Contract!Next]_(Contract!contractVars)
  <1>1. escrow \in [Orders -> {"none", "held", "released", "refunded"}]
    BY DEF IInv, TypeOK
  <1>2. ASSUME NEW p \in Procs, NEW c \in Customers, TopUp(p, c)
        PROVE  Contract!Deposit(c)
    BY <1>2 DEF TopUp, Contract!Deposit
  <1>3. ASSUME NEW p \in Procs, ConfirmCommit(p)
        PROVE  Contract!Hold(req[p].id)
    <2>1. req[p].bal >= TotalWP[req[p].id]
      BY <1>3, SoundInFlight DEF ConfirmCommit, At, BInv, Affordable
    <2> QED
      BY <1>3, <2>1, Committing DEF ConfirmCommit, Contract!Hold
  <1>4. ASSUME NEW p \in Procs, CancelCommit(p)
        PROVE  Contract!Refund(req[p].id)
    <2> DEFINE o == req[p].id
    <2>1. /\ order[o].status \in InService /\ Accounts(o, order[o], escrow[o], ledger[o])
          /\ o \in Orders /\ order[o] \in Row
      <3>1. /\ Sound(req[p], order[o], escrow[o], ledger[o]) /\ req[p].pc = "cancel.tx"
            /\ o \in Orders /\ order[o] \in Row
        BY <1>4, SoundInFlight DEF CancelCommit
      <3>2. /\ order[o].status \in Cancellable \ {"PENDING_PAYMENT"}
            /\ Accounts(o, order[o], escrow[o], ledger[o])
        BY <3>1 DEF Sound, Knows, Explains, LastLeg, InCancel, Between
      <3> QED
        BY <3>1, <3>2 DEF Cancellable, Allowed, InService
    <2>2. escrow[o] = "held"
      BY <2>1, AccountsByStatus DEF Held
    <2> QED
      BY <1>4, <2>2, Committing DEF CancelCommit, SetEscrow, Contract!Refund
  <1>5. ASSUME NEW p \in Procs, CompleteCommit(p)
        PROVE  Contract!Release(req[p].id)
    <2>1. escrow[req[p].id] = "held"
      BY <1>5, SoundInFlight DEF CompleteCommit, Sound, Explains, Held
    <2> QED
      BY <1>5, <2>1 DEF CompleteCommit, SetEscrow, Contract!Release
  <1>6. ASSUME NEW p \in Procs, AbandonEscrow(p)
        PROVE  Contract!Release(req[p].id)
    <2> DEFINE o == req[p].id
    <2>1. /\ Sound(req[p], order[o], escrow[o], ledger[o]) /\ req[p].pc = "abandon.escrow"
          /\ o \in Orders /\ order[o] \in Row
      BY <1>6, SoundInFlight DEF AbandonEscrow
    <2>2. Accounts(o, order[o], escrow[o], ledger[o]) /\ order[o].status \in InService
      BY <2>1 DEF Sound, Knows, Explains, LastLeg, InAbandon, Between, InService, Status
    <2>3. escrow[o] = "held"
      BY <2>1, <2>2, AccountsByStatus DEF Held
    <2> QED
      BY <1>6, <2>3 DEF AbandonEscrow, SetEscrow, Contract!Release
  <1>7. ASSUME NEW p \in Procs, Step(p), ~ConfirmCommit(p), ~CancelCommit(p),
               ~CompleteCommit(p), ~AbandonEscrow(p)
        PROVE  UNCHANGED <<wallet, escrow>>
    BY <1>7 DEF Step, Save, TransitionRead, ConfirmWallet, ConfirmRollback,
         StartRepAssignment, StartVendorAssignment, StampNotice, CompleteEscrow,
         CompleteVendor, CompleteRep, CompleteTransport, AbandonVendor, AbandonRep,
         AbandonTransport, CancelWallet, rows
  <1>8. ASSUME NEW p \in Procs, NEW o \in Orders, Start(p, o)
        PROVE  UNCHANGED <<wallet, escrow>>
    BY <1>8, StartChangesNoRow DEF rows
  <1>9. ASSUME NEW p \in Procs, Fail(p)
        PROVE  UNCHANGED <<wallet, escrow>>
    BY <1>9 DEF Fail, rows
  <1>10. \A p \in Procs : ConfirmCommit(p) \/ CancelCommit(p) \/ CompleteCommit(p) \/ AbandonEscrow(p)
           => req[p].id \in Orders
    BY SoundInFlight DEF ConfirmCommit, CancelCommit, CompleteCommit, AbandonEscrow
  <1> QED
    BY <1>2, <1>3, <1>4, <1>5, <1>6, <1>7, <1>8, <1>9, <1>10
       DEF Next, vars, Contract!Next, Contract!contractVars

(* While no two requests of a customer overlap, none dies and top-ups wait,*)
(* wallets and escrow implement the contract: the price leaves the wallet  *)
(* when it is held, is released or refunded once, and a refund puts the    *)
(* same price back, for any number of customers, orders and prices.        *)
THEOREM EscrowContractKept ==
  Spec /\ []OneAtATime /\ [][TopUpsWait]_vars => ImplementsContract
  <1>1. Init => Contract!Init /\ BInv /\ UpToDate
    BY ConstantsOK DEF Init, Contract!Init, BInv, BalanceNonNegative, UpToDate
  <1>2. IInv /\ BInv /\ [Next]_vars => BInv'
    BY NextBInv
  <1>3. IInv /\ OneAtATime /\ Audited /\ UpToDate /\ [Next]_vars /\ [TopUpsWait]_vars => UpToDate'
    BY NextUpToDate
  <1>4. IInv /\ BInv /\ Audited /\ UpToDate /\ [Next]_vars
          => [Contract!Next]_(Contract!contractVars)
    BY NextContract
  <1> QED
    BY <1>1, <1>2, <1>3, <1>4, AuditInvariance, OneAtATimeIsApart, Inductive, PTL
       DEF Spec, ImplementsContract, Contract!Spec

=============================================================================
